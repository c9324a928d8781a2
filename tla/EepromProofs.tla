---------------------------- MODULE EepromProofs -----------------------------
(***************************************************************************)
(* Proofs about the EEPROMs: the fault log that lab 24 keeps in one, and   *)
(* the I2C bus through which labs 13 and 14 reach another.                 *)
(*                                                                         *)
(* FaultLog, for any number of slots, readers and fault codes and any even *)
(* modulus that leaves the ring half the sequence numbers: what a reboot   *)
(* finds changes only with the write of a commit token, whatever was torn; *)
(* fault_log_init always accepts what the EEPROM holds; and handles know   *)
(* the newest record or are found out.  The invariant describes the EEPROM *)
(* as a ring: from its newest slot back, as many records as were           *)
(* published, with consecutive numbers.  That the scan of fault_log_init   *)
(* finds this slot, although it compares numbers that wrap around, is a    *)
(* lemma of its own (ScanFinds), by induction on the slots read, written   *)
(* as a search for the least counterexample.                               *)
(*                                                                         *)
(* I2cBoard, for bytes of any width, any memory, scripts, stretching and   *)
(* resets: the device stays sound (DeviceInv), and lab 14's master keeps   *)
(* to the bus. What a call has still to do is a program of line operations *)
(* computed from its arguments, so the invariants follow such programs:    *)
(* Leads says what view of the bus a program takes to what other, and the  *)
(* blocks of mps2_i2c.c are put together with LeadsThen and LeadsAll as    *)
(* its functions call each other. Here it is the view of the lines, which  *)
(* what is left of a call always lets go in the end (Heading);             *)
(* I2cCallProofs follows what the device hears.                            *)
(***************************************************************************)
EXTENDS FaultLog, I2cBoard, SequenceTheorems, FiniteSetTheorems, NaturalsInduction,
        WellFoundedInduction, TLAPS

-----------------------------------------------------------------------------
(* Lab 24. *)

\* The constants, for arithmetic.
LEMMA Bounds ==
  /\ M \in Nat /\ N \in Nat /\ N >= 2 /\ 2 * N <= M
  /\ M \div 2 \in Nat /\ 2 * (M \div 2) = M /\ N <= M \div 2
BY FaultLogAssumption DEF FaultLogAssumption

\* A remainder within one modulus of zero.
LEMMA ModSmall ==
  ASSUME NEW m \in Nat, m > 0, NEW x \in Int
  PROVE  /\ 0 <= x /\ x < m => x % m = x
         /\ -m <= x /\ x < 0 => x % m = x + m
OBVIOUS

\* The scan of fault_log_init is well defined.
LEMMA BestDef ==
  ASSUME NEW n \in 0..N
  PROVE  best[n] =
           IF n = 0 THEN NoSlot
           ELSE IF record_valid(n - 1)
                     /\ (best[n - 1] = NoSlot \/ newer(head[n - 1], head[best[n - 1]]))
                THEN n - 1 ELSE best[n - 1]
<1> DEFINE Scan(f, i) ==
             IF i = 0 THEN NoSlot
             ELSE IF record_valid(i - 1)
                     /\ (f[i - 1] = NoSlot \/ newer(head[i - 1], head[f[i - 1]]))
                  THEN i - 1 ELSE f[i - 1]
           Short == {i \in Nat : ~\E f : f = [j \in 0..i |-> Scan(f, j)]}
<1>1. Short = {}
  <2> SUFFICES ASSUME Short # {} PROVE FALSE
    OBVIOUS
  <2>1. PICK m \in Short : \A k \in Short : ~(<<k, m>> \in OpToRel(<, Nat))
    <3> HIDE DEF Short
    <3>1. Short \subseteq Nat
      BY DEF Short
    <3> QED
      BY <3>1, NatLessThanWellFounded, WFMin, Zenon
  <2>2. \A k \in Nat : k < m => k \notin Short
    BY <2>1 DEF OpToRel
  <2>3. CASE m = 0
    <3>1. [j \in 0..0 |-> NoSlot] = [j \in 0..0 |-> Scan([j2 \in 0..0 |-> NoSlot], j)]
      OBVIOUS
    <3> QED
      BY <2>3, <3>1
  <2>4. CASE m # 0
    <3>1. m - 1 \in Nat /\ m - 1 \notin Short
      <4>1. m \in Nat
        OBVIOUS
      <4> HIDE DEF Short
      <4> QED
        BY <4>1, <2>2, <2>4
    <3>2. PICK f : f = [j \in 0..(m - 1) |-> Scan(f, j)]
      BY <3>1
    <3> DEFINE g == [j \in 0..m |-> IF j = m THEN Scan(f, m) ELSE f[j]]
    <3>3. \A j \in 0..m : g[j] = Scan(g, j)
      <4> TAKE j \in 0..m
      <4>1. j # 0 => g[j - 1] = f[j - 1]
        OBVIOUS
      <4>2. j # m => f[j] = Scan(f, j)
        BY <3>2
      <4> QED
        BY <4>1, <4>2
    <3>4. g = [j \in 0..m |-> Scan(g, j)]
      BY <3>3
    <3> QED
      BY <3>4
  <2> QED
    BY <2>3, <2>4
<1>2. N \in Nat /\ N \notin Short
  BY <1>1, FaultLogAssumption DEF FaultLogAssumption
<1>3. \E f : f = [j \in 0..N |-> Scan(f, j)]
  BY <1>2
<1>4. best = [j \in 0..N |-> Scan(best, j)]
  BY <1>3 DEF best
<1> QED
  BY <1>4

-----------------------------------------------------------------------------
(* The ring of records. *)

\* How many slots were written after slot s when p was the last.
Age(p, s) == IF s <= p THEN p - s ELSE p - s + N
\* How many numbers come after g up to h.
Lag(h, g) == IF g <= h THEN h - g ELSE h - g + M

\* The records are in the k slots up to p, numbered in this order.
Ring(p, k) ==
  \A s \in Slots :
    /\ record_valid(s) <=> Age(p, s) < k
    /\ record_valid(s) => Lag(head[p], head[s]) = Age(p, s)

IsNewest(p) == p \in Slots /\ \E k \in 1..N : Ring(p, k)

Empty == \A s \in Slots : ~record_valid(s)

HeadTyped == head \in [Slots -> Seqs \cup {Junk}]

\* An unsigned difference of sequence numbers is the lag.
LEMMA LagIsDifference ==
  ASSUME NEW h \in Seqs, NEW g \in Seqs
  PROVE  (h - g) % M = Lag(h, g) /\ Lag(h, g) \in Seqs
<1>1. M \in Nat /\ M > 0
  BY FaultLogAssumption DEF FaultLogAssumption
<1>2. h - g \in Int /\ -M <= h - g /\ h - g < M
  BY <1>1 DEF Seqs
<1>3. CASE g <= h
  BY <1>1, <1>2, <1>3, ModSmall DEF Lag, Seqs
<1>4. CASE ~(g <= h)
  BY <1>1, <1>2, <1>4, ModSmall DEF Lag, Seqs
<1> QED
  BY <1>3, <1>4

\* Of two records of a ring the newer is the one that lags less.
LEMMA NewerIsYounger ==
  ASSUME NEW h \in Seqs, NEW a \in Seqs, NEW b \in Seqs,
         Lag(h, a) < N, Lag(h, b) < N
  PROVE  newer(a, b) <=> Lag(h, a) < Lag(h, b)
<1>1. (a - b) % M = Lag(a, b)
  BY LagIsDifference
<1>2. newer(a, b) <=> Lag(a, b) # 0 /\ Lag(a, b) < M \div 2
  BY <1>1 DEF newer
<1> QED
  BY <1>2, Bounds DEF Lag, Seqs

\* The scan of fault_log_init finds the newest slot of a ring.
LEMMA ScanFinds ==
  ASSUME HeadTyped, NEW p \in Slots, NEW k \in 1..N, Ring(p, k)
  PROVE  Newest = p
<1> DEFINE Found(n) ==
             /\ best[n] = NoSlot => \A s \in Slots : s < n => ~record_valid(s)
             /\ best[n] # NoSlot =>
                  /\ best[n] \in Slots /\ record_valid(best[n])
                  /\ \A s \in Slots : s < n /\ record_valid(s) => Age(p, best[n]) <= Age(p, s)
           Missed == {n \in Nat : n <= N /\ ~Found(n)}
<1>1. \A s \in Slots : s \in Nat /\ s < N /\ s # NoSlot
  BY FaultLogAssumption DEF FaultLogAssumption, Slots
<1>2. head[p] \in Seqs /\ record_valid(p)
  <2>1. record_valid(p)
    BY Bounds DEF Ring, Age, Slots
  <2> QED
    BY <2>1 DEF record_valid, HeadTyped
<1>3. \A s \in Slots : record_valid(s) =>
        head[s] \in Seqs /\ Lag(head[p], head[s]) = Age(p, s) /\ Age(p, s) < N
  <2>1. \A s \in Slots : record_valid(s) => head[s] \in Seqs
    BY DEF record_valid, HeadTyped
  <2>2. \A s \in Slots : Age(p, s) \in Int
    BY <1>1, Bounds DEF Age
  <2>3. \A s \in Slots : record_valid(s) => Age(p, s) < k /\ Lag(head[p], head[s]) = Age(p, s)
    BY DEF Ring
  <2>4. k \in Int /\ k <= N
    BY Bounds
  <2> QED
    BY <2>1, <2>2, <2>3, <2>4, Bounds
<1>4. \A s, r \in Slots : record_valid(s) /\ record_valid(r) =>
        (newer(head[s], head[r]) <=> Age(p, s) < Age(p, r))
  <2> TAKE s, r \in Slots
  <2> HAVE record_valid(s) /\ record_valid(r)
  <2>1. /\ head[s] \in Seqs /\ Lag(head[p], head[s]) = Age(p, s) /\ Age(p, s) < N
        /\ head[r] \in Seqs /\ Lag(head[p], head[r]) = Age(p, r) /\ Age(p, r) < N
    BY <1>3
  <2> QED
    BY <1>2, <2>1, NewerIsYounger
<1>5. Found(0)
  <2>1. best[0] = NoSlot
    BY BestDef, Bounds
  <2> QED
    BY <1>1, <2>1
<1>6. ASSUME NEW n \in Nat, n < N, Found(n) PROVE Found(n + 1)
  <2>1. n + 1 \in 0..N /\ n + 1 # 0 /\ n \in Slots /\ n + 1 - 1 = n
    BY <1>6, Bounds DEF Slots
  <2>2. best[n + 1] = IF record_valid(n) /\ (best[n] = NoSlot \/ newer(head[n], head[best[n]]))
                      THEN n ELSE best[n]
    BY <2>1, BestDef
  <2>3. \A s \in Slots : s < n + 1 => s < n \/ s = n
    BY <1>1
  <2>4. \A s \in Slots : Age(p, s) \in Int
    BY Bounds DEF Slots, Age
  <2>5. CASE ~record_valid(n)
    BY <1>6, <2>2, <2>3, <2>5
  <2>6. CASE record_valid(n) /\ best[n] = NoSlot
    BY <1>1, <1>6, <2>1, <2>2, <2>3, <2>4, <2>6
  <2>7. CASE record_valid(n) /\ best[n] # NoSlot
    <3>1. newer(head[n], head[best[n]]) <=> Age(p, n) < Age(p, best[n])
      BY <1>4, <1>6, <2>1, <2>7
    <3>2. /\ best[n] \in Slots /\ record_valid(best[n])
          /\ \A s \in Slots : s < n /\ record_valid(s) => Age(p, best[n]) <= Age(p, s)
      BY <1>6, <2>7
    <3>3. CASE newer(head[n], head[best[n]])
      <4>1. best[n + 1] = n /\ Age(p, n) < Age(p, best[n])
        BY <2>2, <2>7, <3>1, <3>3
      <4>2. \A s \in Slots : s < n /\ record_valid(s) => Age(p, n) <= Age(p, s)
        <5> TAKE s \in Slots
        <5> HAVE s < n /\ record_valid(s)
        <5>1. Age(p, n) \in Int /\ Age(p, best[n]) \in Int /\ Age(p, s) \in Int
          BY <2>1, <2>4, <3>2
        <5>2. Age(p, best[n]) <= Age(p, s)
          BY <3>2
        <5> QED
          BY <4>1, <5>1, <5>2
      <4>3. \A s \in Slots : s < n + 1 /\ record_valid(s) => Age(p, n) <= Age(p, s)
        BY <2>1, <2>3, <2>4, <4>2
      <4>4. n # NoSlot
        BY <1>1, <2>1
      <4> QED
        BY <2>1, <2>7, <4>1, <4>3, <4>4
    <3>4. CASE ~newer(head[n], head[best[n]])
      <4>1. best[n + 1] = best[n] /\ ~(Age(p, n) < Age(p, best[n]))
        BY <2>2, <2>7, <3>1, <3>4
      <4>2. Age(p, best[n]) <= Age(p, n)
        <5>1. Age(p, n) \in Int /\ Age(p, best[n]) \in Int
          BY <2>1, <2>4, <3>2
        <5> QED
          BY <4>1, <5>1
      <4>3. \A s \in Slots : s < n + 1 /\ record_valid(s) => Age(p, best[n]) <= Age(p, s)
        BY <2>3, <3>2, <4>2
      <4> QED
        BY <2>7, <3>2, <4>1, <4>3
    <3> QED
      BY <3>3, <3>4
  <2> QED
    BY <2>5, <2>6, <2>7
<1>7. Missed = {}
  <2> SUFFICES ASSUME Missed # {} PROVE FALSE
    OBVIOUS
  <2>1. PICK m \in Missed : \A i \in Missed : ~(<<i, m>> \in OpToRel(<, Nat))
    <3> HIDE DEF Missed
    <3>1. Missed \subseteq Nat
      BY DEF Missed
    <3> QED
      BY <3>1, NatLessThanWellFounded, WFMin, Zenon
  <2>2. m \in Nat /\ m <= N /\ ~Found(m)
    OBVIOUS
  <2>3. \A i \in Nat : i < m => Found(i)
    <3> HIDE DEF Found
    <3> TAKE i \in Nat
    <3> HAVE i < m
    <3>1. i <= N
      BY <2>2, Bounds
    <3>2. i \notin Missed
      <4> HIDE DEF Missed
      <4> QED
        BY <2>1, <2>2 DEF OpToRel
    <3> QED
      BY <3>1, <3>2
  <2> HIDE DEF Found, Missed
  <2>4. m # 0
    BY <1>5, <2>2
  <2>5. m - 1 \in Nat /\ m - 1 < N /\ m - 1 < m /\ (m - 1) + 1 = m
    BY <2>2, <2>4, Bounds
  <2>6. Found(m - 1)
    BY <2>3, <2>5
  <2>7. Found((m - 1) + 1)
    BY <1>6, <2>5, <2>6
  <2> QED
    BY <2>2, <2>5, <2>7
<1>8. Found(N)
  <2> HIDE DEF Found
  <2> QED
    BY <1>7, Bounds
<1>9. best[N] \in Slots /\ Age(p, best[N]) <= Age(p, p)
  BY <1>1, <1>2, <1>8
<1> QED
  BY <1>9, Bounds DEF Newest, Age, Slots
-----------------------------------------------------------------------------
(* The inductive invariant. *)

TypeOK ==
  /\ token \in [Slots -> {"committed", "invalid", "junk"}]
  /\ head \in [Slots -> Seqs \cup {Junk}]
  /\ tail \in [Slots -> (Codes \X Seqs) \cup {Junk}]
  /\ sequence \in [Handles -> Seqs]
  /\ newest_slot \in [Handles -> Slots \cup {NoSlot}]
  /\ initialized \in [Handles -> BOOLEAN]
  /\ pc \in {"idle", "invalidate", "verify_invalid", "write_body", "verify_body",
             "publish", "verify_record"}
  /\ body \in (Codes \X Seqs) \cup {Junk}
  /\ count \in 0..N

\* What is in the EEPROM: nothing was ever published, or a ring of as many
\* records as were, all but one at the least once it is full.
RingKept ==
  \/ Empty /\ count = 0
  \/ \E p \in Slots, k \in 1..N : Ring(p, k) /\ (count <= k \/ k = N - 1)

\* The writer's metadata is that of the newest record.
WriterKnows ==
  IF newest_slot[Writer] = NoSlot THEN Empty
  ELSE /\ IsNewest(newest_slot[Writer])
       /\ sequence[Writer] = head[newest_slot[Writer]]

NextSequence ==
  IF newest_slot[Writer] = NoSlot THEN 1 ELSE (sequence[Writer] + 1) % M

\* fault_log_append: up to its last write the metadata is that of the newest
\* record; a record found valid after it is the one being appended.
Appending ==
  /\ pc # "idle" => ~initialized[Writer] /\ body # Junk /\ body[2] = NextSequence
  /\ pc \in {"write_body", "verify_body", "publish"} => token[target] = "invalid"
  /\ pc = "publish" => BodyWritten
  /\ initialized[Writer] \/ pc \notin {"idle", "verify_record"} => WriterKnows
  /\ pc = "verify_record" /\ record_valid(target) => IsNewest(target)

IInv == TypeOK /\ RingKept /\ Appending

-----------------------------------------------------------------------------
(* What a write of the target slot does to the ring. *)

\* The target is the oldest slot of the ring.
LEMMA TargetIsOldest ==
  ASSUME TypeOK
  PROVE  /\ target \in Slots
         /\ newest_slot[Writer] = NoSlot => target = 0
         /\ newest_slot[Writer] # NoSlot =>
              /\ newest_slot[Writer] \in Slots
              /\ target # newest_slot[Writer]
              /\ Age(newest_slot[Writer], target) = N - 1
              /\ \A s \in Slots : s # target => Age(target, s) = Age(newest_slot[Writer], s) + 1
<1> DEFINE p == newest_slot[Writer]
<1>1. p \in Slots \cup {NoSlot}
  BY DEF TypeOK, Handles
<1>2. CASE p = NoSlot
  BY <1>2, Bounds DEF target, Slots
<1>3. CASE p # NoSlot
  <2>1. p \in Slots /\ target = (p + 1) % N
    BY <1>1, <1>3 DEF target
  <2>2. target = IF p = N - 1 THEN 0 ELSE p + 1
    BY <2>1, Bounds, ModSmall DEF Slots
  <2> HIDE DEF p
  <2>3. target \in Slots /\ target # p /\ Age(p, target) = N - 1
    BY <2>1, <2>2, Bounds DEF Slots, Age
  <2>4. \A s \in Slots : s # target => Age(target, s) = Age(p, s) + 1
    BY <2>1, <2>2, Bounds DEF Slots, Age
  <2> QED
    BY <1>3, <2>1, <2>3, <2>4 DEF p
<1> QED
  BY <1>2, <1>3

\* Nothing about the ring changes when the EEPROM does not.
LEMMA SameRing ==
  ASSUME UNCHANGED eeprom
  PROVE  /\ \A s : record_valid(s)' <=> record_valid(s)
         /\ Empty' <=> Empty
         /\ \A p, k : Ring(p, k)' <=> Ring(p, k)
         /\ \A p : IsNewest(p)' <=> IsNewest(p)
<1>1. \A s : record_valid(s)' <=> record_valid(s)
  BY DEF eeprom, record_valid
<1>2. Empty' <=> Empty
  BY <1>1 DEF Empty
<1>3. \A p, k : Ring(p, k)' <=> Ring(p, k)
  BY <1>1 DEF Ring, eeprom
<1>4. \A p : IsNewest(p)' <=> IsNewest(p)
  BY <1>3 DEF IsNewest
<1> QED
  BY <1>1, <1>2, <1>3, <1>4

\* An invalid oldest slot leaves the other records in the ring.
LEMMA OldestSpoilt ==
  ASSUME NEW p \in Slots, NEW k \in 1..N, Ring(p, k),
         NEW t \in Slots, t # p, Age(p, t) = N - 1, ~record_valid(t)',
         \A s \in Slots : s # t => (record_valid(s)' <=> record_valid(s)) /\ head'[s] = head[s]
  PROVE  /\ k = N => Ring(p, N - 1)'
         /\ k # N => Ring(p, k)'
<1> DEFINE j == IF k = N THEN N - 1 ELSE k
<1>1. j \in Int /\ j <= N - 1
  BY Bounds
<1>2. ASSUME NEW s \in Slots
      PROVE  /\ record_valid(s)' <=> Age(p, s) < j
             /\ record_valid(s)' => Lag(head'[p], head'[s]) = Age(p, s)
  <2>1. CASE s = t
    BY <1>1, <2>1, Bounds
  <2>2. CASE s # t
    <3>1. Age(p, s) \in Int /\ Age(p, s) # N - 1
      BY <2>2, Bounds DEF Age, Slots
    <3>2. /\ record_valid(s)' <=> Age(p, s) < k
          /\ record_valid(s)' => Lag(head[p], head[s]) = Age(p, s)
      BY <2>2 DEF Ring
    <3>3. head'[p] = head[p] /\ head'[s] = head[s]
      BY <2>2
    <3>4. Age(p, s) < k <=> Age(p, s) < j
      BY <3>1, Bounds DEF Age, Slots
    <3> QED
      BY <3>2, <3>3, <3>4
  <2> QED
    BY <2>1, <2>2
<1>3. Ring(p, j)'
  BY <1>2 DEF Ring
<1> QED
  BY <1>3

\* The slot after the newest becomes the newest with the next sequence number.
LEMMA OldestReplaced ==
  ASSUME HeadTyped, NEW p \in Slots, NEW k \in 1..N, Ring(p, k),
         NEW t \in Slots, t # p, Age(p, t) = N - 1,
         \A s \in Slots : s # t => Age(t, s) = Age(p, s) + 1,
         ~record_valid(t), record_valid(t)', head'[t] = (head[p] + 1) % M,
         \A s \in Slots : s # t => (record_valid(s)' <=> record_valid(s)) /\ head'[s] = head[s]
  PROVE  k + 1 \in 1..N /\ Ring(t, k + 1)'
<1>1. ~(N - 1 < k) /\ k \in Int
  BY DEF Ring
<1>2. k + 1 \in 1..N
  BY <1>1, Bounds
<1>3. record_valid(p) /\ head[p] \in Seqs
  <2>1. Age(p, p) = 0
    BY DEF Age, Slots
  <2>2. record_valid(p)
    BY <2>1, Bounds DEF Ring
  <2> QED
    BY <2>2 DEF record_valid, HeadTyped
<1>4. head'[t] = IF head[p] = M - 1 THEN 0 ELSE head[p] + 1
  BY <1>3, Bounds, ModSmall DEF Seqs
<1>5. ASSUME NEW s \in Slots
      PROVE  /\ record_valid(s)' <=> Age(t, s) < k + 1
             /\ record_valid(s)' => Lag(head'[t], head'[s]) = Age(t, s)
  <2>1. CASE s = t
    <3>1. Age(t, s) = 0 /\ Lag(head'[t], head'[s]) = 0
      BY <1>3, <1>4, <2>1, Bounds DEF Age, Lag, Slots, Seqs
    <3> QED
      BY <1>1, <2>1, <3>1
  <2>2. CASE s # t
    <3>1. Age(t, s) = Age(p, s) + 1 /\ Age(p, s) \in Int
      BY <2>2, Bounds DEF Age, Slots
    <3>2. record_valid(s)' <=> Age(p, s) < k
      BY <2>2 DEF Ring
    <3>3. ASSUME record_valid(s)' PROVE Lag(head'[t], head'[s]) = Lag(head[p], head[s]) + 1
      <4>1. record_valid(s) /\ head'[s] = head[s]
        BY <2>2, <3>3
      <4>2. head[s] \in Seqs
        BY <4>1 DEF record_valid, HeadTyped
      <4>3. Lag(head[p], head[s]) = Age(p, s) /\ Age(p, s) < N
        BY <1>1, <3>1, <3>2, <3>3, <4>1, Bounds DEF Ring
      <4>4. Lag(head[p], head[s]) # M - 1
        BY <3>1, <4>3, Bounds
      <4> QED
        BY <1>3, <1>4, <4>1, <4>2, <4>4, Bounds DEF Lag, Seqs
    <3>4. record_valid(s)' => Lag(head[p], head[s]) = Age(p, s)
      BY <2>2 DEF Ring
    <3> QED
      BY <1>1, <3>1, <3>2, <3>3, <3>4
  <2> QED
    BY <2>1, <2>2
<1> QED
  BY <1>2, <1>5 DEF Ring

\* Both forms of the newest slot agree, and an empty EEPROM has none.
LEMMA NewestSlot ==
  ASSUME HeadTyped
  PROVE  /\ \A p : IsNewest(p) => Newest = p
         /\ Empty => Newest = NoSlot
<1>1. \A p : IsNewest(p) => Newest = p
  BY ScanFinds DEF IsNewest
<1>2. ASSUME Empty PROVE Newest = NoSlot
  <2> DEFINE Reached == {n \in Nat : n <= N /\ best[n] # NoSlot}
  <2>1. Reached = {}
    <3> SUFFICES ASSUME Reached # {} PROVE FALSE
      OBVIOUS
    <3>1. PICK m \in Reached : \A i \in Reached : ~(<<i, m>> \in OpToRel(<, Nat))
      <4> HIDE DEF Reached
      <4>1. Reached \subseteq Nat
        BY DEF Reached
      <4> QED
        BY <4>1, NatLessThanWellFounded, WFMin, Zenon
    <3>2. m \in Nat /\ m <= N /\ best[m] # NoSlot /\ m \in 0..N
      BY Bounds
    <3>3. m # 0
      BY <3>2, BestDef
    <3>4. m - 1 \in Slots /\ m - 1 \in Nat /\ m - 1 < m /\ m - 1 <= N
      BY <3>2, <3>3, Bounds DEF Slots
    <3>5. best[m] = best[m - 1]
      BY <1>2, <3>2, <3>3, <3>4, BestDef DEF Empty
    <3>6. m - 1 \in Reached
      BY <3>2, <3>4, <3>5
    <3> HIDE DEF Reached
    <3> QED
      BY <3>1, <3>2, <3>4, <3>6 DEF OpToRel
  <2> QED
    BY <2>1, Bounds DEF Newest
<1> QED
  BY <1>1, <1>2

\* What the writer knows is the ring that is there.
LEMMA WritersRing ==
  ASSUME TypeOK, RingKept, WriterKnows
  PROVE  IF newest_slot[Writer] = NoSlot THEN Empty /\ count = 0
         ELSE \E k \in 1..N : Ring(newest_slot[Writer], k) /\ (count <= k \/ k = N - 1)
<1>1. HeadTyped
  BY DEF TypeOK, HeadTyped
<1>2. NoSlot \notin Slots
  BY FaultLogAssumption DEF FaultLogAssumption, Slots
<1>3. \A p \in Slots : IsNewest(p) => ~Empty
  BY <1>1, <1>2, NewestSlot
<1>4. \A p, q \in Slots : IsNewest(p) /\ IsNewest(q) => p = q
  BY <1>1, NewestSlot
<1>5. \A p \in Slots, k \in 1..N : Ring(p, k) => IsNewest(p)
  BY DEF IsNewest
<1>6. CASE newest_slot[Writer] = NoSlot
  BY <1>3, <1>5, <1>6 DEF RingKept, WriterKnows
<1>7. CASE newest_slot[Writer] # NoSlot
  <2>1. newest_slot[Writer] \in Slots /\ IsNewest(newest_slot[Writer])
    BY <1>7 DEF WriterKnows, IsNewest
  <2>2. PICK p \in Slots, k \in 1..N : Ring(p, k) /\ (count <= k \/ k = N - 1)
    BY <1>3, <2>1 DEF RingKept
  <2>3. p = newest_slot[Writer]
    BY <1>4, <1>5, <2>1, <2>2
  <2> QED
    BY <1>7, <2>2, <2>3
<1> QED
  BY <1>6, <1>7

\* A write that leaves the target invalid, as all but the last may and must.
LEMMA TargetSpoilt ==
  ASSUME TypeOK, RingKept, WriterKnows, ~record_valid(target)',
         UNCHANGED <<newest_slot, sequence, count>>,
         \A s \in Slots : s # target => (record_valid(s)' <=> record_valid(s)) /\ head'[s] = head[s]
  PROVE  RingKept' /\ WriterKnows'
<1>0. PICK p, t : p = newest_slot[Writer] /\ t = target
  OBVIOUS
<1>1. /\ t = target' /\ p = newest_slot'[Writer]
      /\ sequence' = sequence /\ count' = count
  BY <1>0 DEF target
<1>2. CASE p = NoSlot
  <2>1. Empty /\ count = 0
    BY <1>0, <1>2, WritersRing
  <2>2. ~record_valid(t)'
    BY <1>1
  <2>3. Empty'
    BY <1>0, <2>1, <2>2 DEF Empty
  <2> QED
    BY <1>0, <1>1, <1>2, <2>1, <2>3 DEF RingKept, WriterKnows
<1>3. CASE p # NoSlot
  <2>1. PICK k \in 1..N : Ring(p, k) /\ (count <= k \/ k = N - 1)
    BY <1>0, <1>3, WritersRing
  <2>2. p \in Slots /\ t \in Slots /\ t # p /\ Age(p, t) = N - 1
    BY <1>0, <1>3, TargetIsOldest
  <2>3. ~record_valid(t)'
    BY <1>1
  <2>4. (k = N => Ring(p, N - 1)') /\ (k # N => Ring(p, k)')
    <3>1. \A s \in Slots : s # t => (record_valid(s)' <=> record_valid(s)) /\ head'[s] = head[s]
      BY <1>0
    <3> QED
      BY <2>1, <2>2, <2>3, <3>1, OldestSpoilt
  <2>5. N - 1 \in 1..N
    BY Bounds
  <2>6. PICK j \in 1..N : Ring(p, j)' /\ (count <= j \/ j = N - 1)
    BY <2>1, <2>4, <2>5
  <2>7. RingKept'
    BY <1>1, <2>2, <2>6 DEF RingKept
  <2>8. head'[p] = head[p]
    BY <1>0, <2>2
  <2>9. sequence[Writer] = head[p]
    BY <1>0, <1>3 DEF WriterKnows
  <2>10. IsNewest(p)'
    BY <2>2, <2>6 DEF IsNewest
  <2>11. WriterKnows'
    BY <1>1, <1>3, <2>8, <2>9, <2>10 DEF WriterKnows
  <2> QED
    BY <2>7, <2>11
<1> QED
  BY <1>2, <1>3

\* The write that publishes: the ring gets its next record.
LEMMA TargetPublished ==
  ASSUME TypeOK, RingKept, WriterKnows, ~record_valid(target), BodyWritten, body # Junk,
         body[2] = NextSequence, token' = Set(token, target, "committed"),
         count' = (IF count < N THEN count + 1 ELSE count),
         UNCHANGED <<head, tail, newest_slot>>
  PROVE  RingKept' /\ IsNewest(target)'
<1>0. PICK p, t : p = newest_slot[Writer] /\ t = target
  OBVIOUS
<1>1. t = target' /\ p = newest_slot'[Writer] /\ t \in Slots
  BY <1>0, TargetIsOldest DEF target
<1>2. body \in Codes \X Seqs /\ head[t] = body[2] /\ tail[t] = body
  BY <1>0 DEF TypeOK, BodyWritten
<1>3. Junk \notin Seqs
  BY FaultLogAssumption DEF FaultLogAssumption, Seqs
<1>4. token'[t] = "committed" /\ \A s \in Slots : s # t => token'[s] = token[s]
  BY <1>0, <1>1 DEF Set, TypeOK
<1>5. record_valid(t)'
  BY <1>1, <1>2, <1>3, <1>4 DEF record_valid
<1>6. \A s \in Slots : s # t => (record_valid(s)' <=> record_valid(s)) /\ head'[s] = head[s]
  BY <1>4 DEF record_valid
<1>7. count \in 0..N /\ count' \in 0..N /\ count' <= count + 1
  BY Bounds DEF TypeOK
<1>8. CASE p = NoSlot
  <2>1. Empty /\ count = 0 /\ t = 0
    BY <1>0, <1>8, WritersRing, TargetIsOldest
  <2>2. ASSUME NEW s \in Slots
        PROVE  /\ record_valid(s)' <=> Age(t, s) < 1
               /\ record_valid(s)' => Lag(head'[t], head'[s]) = Age(t, s)
    <3>1. CASE s = t
      BY <1>2, <1>5, <2>1, <3>1 DEF Age, Lag, Seqs
    <3>2. CASE s # t
      BY <1>6, <2>1, <3>2, Bounds DEF Empty, Age, Slots
    <3> QED
      BY <3>1, <3>2
  <2>3. Ring(t, 1)'
    BY <2>2 DEF Ring
  <2>4. 1 \in 1..N /\ count' <= 1
    BY <1>7, <2>1, Bounds
  <2> QED
    BY <1>1, <2>3, <2>4 DEF RingKept, IsNewest
<1>9. CASE p # NoSlot
  <2>1. PICK k \in 1..N : Ring(p, k) /\ (count <= k \/ k = N - 1)
    BY <1>0, <1>9, WritersRing
  <2>2. /\ p \in Slots /\ t # p /\ Age(p, t) = N - 1
        /\ \A s \in Slots : s # t => Age(t, s) = Age(p, s) + 1
    BY <1>0, <1>9, TargetIsOldest
  <2>3. sequence[Writer] = head[p]
    BY <1>0, <1>9 DEF WriterKnows
  <2>4. head'[t] = (head[p] + 1) % M
    BY <1>0, <1>2, <1>9, <2>3 DEF NextSequence
  <2>5. HeadTyped /\ ~record_valid(t)
    BY <1>0 DEF TypeOK, HeadTyped
  <2>6. k + 1 \in 1..N /\ Ring(t, k + 1)'
    <3> QED
      BY <1>1, <1>5, <1>6, <2>1, <2>2, <2>4, <2>5, OldestReplaced
  <2>7. count' <= k + 1
    BY <1>7, <2>1, <2>6, Bounds
  <2> QED
    BY <1>1, <2>6, <2>7 DEF RingKept, IsNewest
<1> QED
  BY <1>8, <1>9

-----------------------------------------------------------------------------
(* One lemma per action. *)

\* The sequence number of a new record is one.
LEMMA NextSequenceTyped == TypeOK => NextSequence \in Seqs
<1> SUFFICES ASSUME TypeOK PROVE NextSequence \in Seqs
  OBVIOUS
<1>1. sequence[Writer] \in Seqs
  BY DEF TypeOK, Handles
<1>2. sequence[Writer] = M - 1 \/ sequence[Writer] + 1 < M
  BY <1>1, Bounds DEF Seqs
<1>3. (sequence[Writer] + 1) % M \in Seqs
  BY <1>1, <1>2, Bounds, ModSmall DEF Seqs
<1>4. 1 \in Seqs
  BY Bounds DEF Seqs
<1> QED
  BY <1>3, <1>4 DEF NextSequence

\* fault_log_init on any handle: a scan finds the newest record.
LEMMA InitLogStep ==
  ASSUME IInv, NEW h \in Handles, InitLog(h)
  PROVE  IInv'
<1> USE DEF IInv
<1>1. HeadTyped /\ NoSlot \notin Slots
  BY FaultLogAssumption DEF TypeOK, HeadTyped, FaultLogAssumption, Slots
<1>2. UNCHANGED eeprom /\ UNCHANGED <<pc, body, count>>
  BY DEF InitLog, append
<1>3. IF Newest = NoSlot THEN Empty
      ELSE Newest \in Slots /\ IsNewest(Newest) /\ head[Newest] \in Seqs
  <2>1. CASE Empty
    BY <1>1, <2>1, NewestSlot
  <2>2. CASE ~Empty
    <3>1. PICK p \in Slots, k \in 1..N : Ring(p, k)
      BY <2>2 DEF RingKept
    <3>2. IsNewest(p) /\ Newest = p
      BY <1>1, <3>1, NewestSlot DEF IsNewest
    <3>3. record_valid(p)
      <4>1. Age(p, p) = 0 /\ k > 0
        BY <3>1, Bounds DEF Age, Slots
      <4> QED
        BY <3>1, <4>1 DEF Ring
    <3>4. head[p] \in Seqs
      BY <3>1, <3>3 DEF record_valid, TypeOK
    <3> QED
      BY <1>1, <3>1, <3>2, <3>4
  <2> QED
    BY <2>1, <2>2
<1>4. 0 \in Seqs
  BY Bounds DEF Seqs
<1>5. TypeOK'
  BY <1>3, <1>4 DEF TypeOK, InitLog, Set, eeprom, append
<1>6. RingKept'
  BY <1>2, SameRing DEF RingKept
<1>7. /\ newest_slot' = Set(newest_slot, h, Newest)
      /\ sequence' = Set(sequence, h, IF Newest = NoSlot THEN 0 ELSE head[Newest])
      /\ initialized' = Set(initialized, h, TRUE)
      /\ pc = "idle"
  BY DEF InitLog
<1>8. ASSUME initialized'[Writer] PROVE WriterKnows'
  <2>1. CASE h = Writer
    <3>1. /\ newest_slot'[Writer] = Newest
          /\ sequence'[Writer] = IF Newest = NoSlot THEN 0 ELSE head[Newest]
      BY <1>7, <2>1 DEF TypeOK, Set, Handles
    <3>2. PICK p : p = Newest
      OBVIOUS
    <3>3. head' = head
      BY <1>2 DEF eeprom
    <3> QED
      BY <1>2, <1>3, <3>1, <3>2, <3>3, SameRing DEF WriterKnows
  <2>2. CASE h # Writer
    <3>1. /\ newest_slot'[Writer] = newest_slot[Writer] /\ sequence'[Writer] = sequence[Writer]
          /\ initialized[Writer]
      BY <1>7, <1>8, <2>2 DEF TypeOK, Set, Handles
    <3>2. WriterKnows /\ head' = head
      BY <1>2, <3>1 DEF Appending, eeprom
    <3> QED
      BY <1>2, <3>1, <3>2, SameRing DEF WriterKnows
  <2> QED
    BY <2>1, <2>2
<1>9. Appending'
  BY <1>2, <1>7, <1>8 DEF Appending
<1> QED
  BY <1>5, <1>6, <1>9

\* A failed fault_log_init, and a fault_log_latest that finds its record
\* overwritten, only give the handle up.
LEMMA GiveUpStep ==
  ASSUME IInv, NEW h \in Handles, InitFails(h) \/ LatestStale(h)
  PROVE  IInv'
<1> USE DEF IInv
<1>1. UNCHANGED eeprom /\ UNCHANGED <<pc, body, count>> /\ pc = "idle"
  BY DEF InitFails, LatestStale, append
<1>2. 0 \in Seqs
  BY Bounds DEF Seqs
<1>3. TypeOK'
  <2>1. CASE InitFails(h)
    BY <1>2, <2>1 DEF TypeOK, InitFails, Set, eeprom, append
  <2>2. CASE LatestStale(h)
    BY <2>2 DEF TypeOK, LatestStale, Set, eeprom, append
  <2> QED
    BY <2>1, <2>2
<1>4. RingKept'
  BY <1>1, SameRing DEF RingKept
<1>5. initialized' = Set(initialized, h, FALSE)
  BY DEF InitFails, LatestStale
<1>6. ASSUME initialized'[Writer] PROVE WriterKnows'
  <2>1. h # Writer /\ initialized[Writer]
    BY <1>5, <1>6 DEF TypeOK, Set, Handles
  <2>2. newest_slot'[Writer] = newest_slot[Writer] /\ sequence'[Writer] = sequence[Writer]
    BY <2>1 DEF InitFails, LatestStale, TypeOK, Set, Handles
  <2>3. WriterKnows /\ head' = head
    BY <1>1, <2>1 DEF Appending, eeprom
  <2> QED
    BY <1>1, <2>2, <2>3, SameRing DEF WriterKnows
<1>7. Appending'
  BY <1>1, <1>6 DEF Appending
<1> QED
  BY <1>3, <1>4, <1>7

\* fault_log_append begins: the metadata is given up before the first write.
LEMMA AppendCallStep ==
  ASSUME IInv, NEW code \in Codes, AppendCall(code)
  PROVE  IInv'
<1> USE DEF IInv
<1>1. /\ UNCHANGED eeprom /\ UNCHANGED <<newest_slot, sequence, count>>
      /\ pc' = "invalidate" /\ body' = <<code, NextSequence>>
      /\ initialized' = Set(initialized, Writer, FALSE) /\ initialized[Writer]
  BY DEF AppendCall, NextSequence
<1>2. body' \in Codes \X Seqs /\ body' # Junk
  <2>1. body' \in Codes \X Seqs
    BY <1>1, NextSequenceTyped
  <2> QED
    BY <2>1, FaultLogAssumption DEF FaultLogAssumption, Seqs
<1>3. TypeOK'
  BY <1>1, <1>2 DEF TypeOK, Set, eeprom
<1>4. RingKept'
  BY <1>1, SameRing DEF RingKept
<1>5. WriterKnows'
  <2>1. WriterKnows /\ head' = head
    BY <1>1 DEF Appending, eeprom
  <2> QED
    BY <1>1, <2>1, SameRing DEF WriterKnows
<1>6. ~initialized'[Writer] /\ body'[2] = NextSequence'
  BY <1>1 DEF Set, TypeOK, Handles, NextSequence
<1>7. Appending'
  BY <1>1, <1>2, <1>5, <1>6 DEF Appending
<1> QED
  BY <1>3, <1>4, <1>7

\* The invalidation: an old record that is still there is the same as before.
LEMMA InvalidateStep ==
  ASSUME IInv, Invalidate
  PROVE  IInv' /\ WriterKnows /\ WriterKnows'
<1> USE DEF IInv
<1>1. PICK t \in {token[target], "invalid", "junk"} : token' = Set(token, target, t)
  BY DEF Invalidate
<1>2. /\ UNCHANGED <<head, tail, sequence, newest_slot, initialized, count>>
      /\ \/ pc' = "verify_invalid" /\ body' = body
         \/ pc' = "idle" /\ body' = Junk
      /\ pc = "invalidate"
  BY DEF Invalidate, Proceed, Return, handles
<1>3. target' = target /\ target \in Slots /\ NextSequence' = NextSequence
  BY <1>2, TargetIsOldest DEF target, NextSequence
<1>4. TypeOK'
  BY <1>1, <1>2, <1>3 DEF TypeOK, Set
<1>5. WriterKnows
  BY <1>2 DEF Appending
<1>6. RingKept' /\ WriterKnows'
  <2>1. CASE t = token[target]
    <3>1. token' = token
      BY <1>1, <1>3, <2>1 DEF Set, TypeOK
    <3>2. UNCHANGED eeprom
      BY <1>2, <3>1 DEF eeprom
    <3> QED
      BY <1>2, <1>5, <3>2, SameRing DEF RingKept, WriterKnows
  <2>2. CASE t # token[target]
    <3>1. ~record_valid(target)'
      BY <1>1, <1>3, <2>2 DEF record_valid, Set, TypeOK
    <3>2. \A s \in Slots : s # target =>
            (record_valid(s)' <=> record_valid(s)) /\ head'[s] = head[s]
      BY <1>1, <1>2, <1>3 DEF record_valid, Set, TypeOK
    <3> QED
      BY <1>2, <1>5, <3>1, <3>2, TargetSpoilt
  <2> QED
    BY <2>1, <2>2
<1>7. Appending'
  BY <1>2, <1>3, <1>6 DEF Appending
<1> QED
  BY <1>4, <1>5, <1>6, <1>7

\* The body is written under a token that has been read back as invalid.
LEMMA WriteBodyStep ==
  ASSUME IInv, WriteBody
  PROVE  IInv' /\ WriterKnows /\ WriterKnows'
<1> USE DEF IInv
<1>1. /\ \E q \in {head[target], body[2], Junk} : head' = Set(head, target, q)
      /\ \E q \in {tail[target], body, Junk} : tail' = Set(tail, target, q)
      /\ UNCHANGED <<token, sequence, newest_slot, initialized, count>>
      /\ \/ pc' = "verify_body" /\ body' = body
         \/ pc' = "idle" /\ body' = Junk
      /\ pc = "write_body"
  BY DEF WriteBody, Proceed, Return, handles
<1>2. target' = target /\ target \in Slots /\ NextSequence' = NextSequence
  BY <1>1, TargetIsOldest DEF target, NextSequence
<1>3. body \in Codes \X Seqs /\ body[2] \in Seqs
  BY <1>1 DEF Appending, TypeOK
<1>4. TypeOK'
  <2>1. head' \in [Slots -> Seqs \cup {Junk}]
    BY <1>1, <1>2, <1>3 DEF TypeOK, Set
  <2>2. tail' \in [Slots -> (Codes \X Seqs) \cup {Junk}]
    BY <1>1, <1>2, <1>3 DEF TypeOK, Set
  <2> QED
    BY <1>1, <2>1, <2>2 DEF TypeOK
<1>5. WriterKnows /\ token[target] = "invalid"
  BY <1>1 DEF Appending
<1>6. ~record_valid(target)'
  BY <1>1, <1>2, <1>5 DEF record_valid
<1>7. \A s \in Slots : s # target =>
        (record_valid(s)' <=> record_valid(s)) /\ head'[s] = head[s]
  <2>1. \A s \in Slots : s # target => head'[s] = head[s] /\ tail'[s] = tail[s] /\ token' = token
    BY <1>1 DEF Set, TypeOK
  <2> QED
    BY <2>1 DEF record_valid
<1>8. RingKept' /\ WriterKnows'
  BY <1>1, <1>5, <1>6, <1>7, TargetSpoilt
<1>9. Appending'
  BY <1>1, <1>2, <1>5, <1>8 DEF Appending
<1> QED
  BY <1>4, <1>5, <1>8, <1>9

\* The token is written over a body that has been read back.
LEMMA PublishStep ==
  ASSUME IInv, Publish
  PROVE  /\ IInv' /\ WriterKnows /\ BodyWritten
         /\ IF record_valid(target)' THEN IsNewest(target)' ELSE WriterKnows'
<1> USE DEF IInv
<1>1. PICK t \in {token[target], "committed", "junk"} :
        /\ token' = Set(token, target, t)
        /\ count' = IF t = "committed" /\ count < N THEN count + 1 ELSE count
  BY DEF Publish
<1>2. /\ UNCHANGED <<head, tail, sequence, newest_slot, initialized>>
      /\ \/ pc' = "verify_record" /\ body' = body
         \/ pc' = "idle" /\ body' = Junk
      /\ pc = "publish"
  BY DEF Publish, Proceed, Return, handles
<1>3. target' = target /\ target \in Slots /\ NextSequence' = NextSequence
  BY <1>2, TargetIsOldest DEF target, NextSequence
<1>4. count' \in 0..N
  BY <1>1, Bounds DEF TypeOK
<1>5. TypeOK'
  BY <1>1, <1>2, <1>3, <1>4 DEF TypeOK, Set
<1>6. /\ WriterKnows /\ token[target] = "invalid" /\ BodyWritten
      /\ ~initialized[Writer] /\ body # Junk /\ body[2] = NextSequence
  BY <1>2 DEF Appending
<1>7. ~record_valid(target)
  BY <1>6 DEF record_valid
<1>8. RingKept' /\ IF record_valid(target)' THEN IsNewest(target)' ELSE WriterKnows'
  <2>1. CASE t = "committed"
    <3>1. RingKept' /\ IsNewest(target)'
      BY <1>1, <1>2, <1>6, <1>7, <2>1, TargetPublished
    <3>2. record_valid(target)'
      BY <1>1, <1>2, <1>3, <1>6, <2>1, FaultLogAssumption
         DEF record_valid, BodyWritten, Set, TypeOK, FaultLogAssumption, Seqs
    <3> QED
      BY <3>1, <3>2
  <2>2. CASE t # "committed"
    <3>1. ~record_valid(target)' /\ count' = count
      BY <1>1, <1>2, <1>3, <1>6, <2>2 DEF record_valid, Set, TypeOK
    <3>2. \A s \in Slots : s # target =>
            (record_valid(s)' <=> record_valid(s)) /\ head'[s] = head[s]
      BY <1>1, <1>2, <1>3 DEF record_valid, Set, TypeOK
    <3>3. RingKept' /\ WriterKnows'
      BY <1>2, <1>6, <3>1, <3>2, TargetSpoilt
    <3> QED
      BY <3>1, <3>3
  <2> QED
    BY <2>1, <2>2
<1>9. Appending'
  BY <1>2, <1>3, <1>6, <1>8 DEF Appending
<1> QED
  BY <1>5, <1>6, <1>8, <1>9

\* A read-back that passes, and one that fails or differs.
LEMMA VerifyStep ==
  ASSUME IInv, VerifyInvalid \/ VerifyBody \/ VerifyFails
  PROVE  IInv'
<1> USE DEF IInv
<1>1. UNCHANGED eeprom /\ UNCHANGED handles /\ count' = count
  BY DEF VerifyInvalid, VerifyBody, VerifyFails
<1>2. UNCHANGED <<target, NextSequence>>
  BY <1>1 DEF target, NextSequence, handles
<1>3. TypeOK'
  BY <1>1 DEF TypeOK, eeprom, handles, VerifyInvalid, VerifyBody, VerifyFails, Return
<1>4. RingKept' /\ (WriterKnows => WriterKnows')
  <2>1. head' = head /\ newest_slot' = newest_slot /\ sequence' = sequence
    BY <1>1 DEF eeprom, handles
  <2> QED
    BY <1>1, <2>1, SameRing DEF RingKept, WriterKnows
<1>5. token' = token /\ head' = head /\ tail' = tail /\ initialized' = initialized
  BY <1>1 DEF eeprom, handles
<1>6. CASE VerifyInvalid
  BY <1>2, <1>3, <1>4, <1>5, <1>6 DEF Appending, VerifyInvalid
<1>7. CASE VerifyBody
  BY <1>2, <1>3, <1>4, <1>5, <1>7 DEF Appending, VerifyBody, BodyWritten
<1>8. CASE VerifyFails
  BY <1>2, <1>3, <1>4, <1>5, <1>8 DEF Appending, VerifyFails, Return
<1> QED
  BY <1>6, <1>7, <1>8

\* The record is there: its slot and sequence number become the metadata.
LEMMA VerifyRecordStep ==
  ASSUME IInv, VerifyRecord
  PROVE  IInv'
<1> USE DEF IInv
<1>1. /\ UNCHANGED eeprom /\ count' = count /\ pc = "verify_record"
      /\ pc' = "idle" /\ body' = Junk
      /\ sequence' = Set(sequence, Writer, body[2])
      /\ newest_slot' = Set(newest_slot, Writer, target)
      /\ initialized' = Set(initialized, Writer, TRUE)
      /\ record_valid(target) /\ head[target] = body[2]
  BY DEF VerifyRecord, Return, BodyWritten
<1>2. target \in Slots /\ body[2] \in Seqs /\ IsNewest(target)
  BY <1>1, TargetIsOldest DEF Appending, TypeOK
<1>3. TypeOK'
  BY <1>1, <1>2 DEF TypeOK, Set, eeprom
<1>4. RingKept'
  BY <1>1, SameRing DEF RingKept
<1>5. newest_slot'[Writer] = target /\ sequence'[Writer] = head[target] /\ head' = head
  BY <1>1 DEF TypeOK, Set, Handles, eeprom
<1>6. WriterKnows'
  <2>1. PICK t : t = target
    OBVIOUS
  <2>2. IsNewest(t)' /\ t # NoSlot
    BY <1>1, <1>2, <2>1, SameRing, FaultLogAssumption DEF FaultLogAssumption, Slots
  <2> QED
    BY <1>5, <2>1, <2>2 DEF WriterKnows
<1>7. Appending'
  BY <1>1, <1>6 DEF Appending
<1> QED
  BY <1>3, <1>4, <1>7

\* Power goes and comes back.
LEMMA PowerCutStep ==
  ASSUME IInv, PowerCut
  PROVE  IInv'
<1> USE DEF IInv
<1>1. /\ UNCHANGED eeprom /\ count' = count /\ pc' = "idle" /\ body' = Junk
      /\ initialized' = [h \in Handles |-> FALSE]
  BY DEF PowerCut, Return
<1>2. 0 \in Seqs
  BY Bounds DEF Seqs
<1>3. TypeOK'
  BY <1>1, <1>2 DEF TypeOK, PowerCut, eeprom
<1>4. RingKept'
  BY <1>1, SameRing DEF RingKept
<1>5. Appending'
  BY <1>1 DEF Appending, Handles
<1> QED
  BY <1>3, <1>4, <1>5

\* A new EEPROM satisfies the invariant.
LEMMA InitIInv == Init => IInv
<1> SUFFICES ASSUME Init PROVE IInv
  OBVIOUS
<1>1. 0 \in Seqs /\ 0 \in 0..N
  BY Bounds DEF Seqs
<1>2. TypeOK
  BY <1>1 DEF Init, TypeOK
<1>3. RingKept
  BY DEF Init, RingKept, Empty, record_valid
<1>4. Appending
  BY DEF Init, Appending, Handles
<1> QED
  BY <1>2, <1>3, <1>4 DEF IInv

\* Every step preserves the invariant.
LEMMA NextIInv == IInv /\ [Next]_vars => IInv'
<1> SUFFICES ASSUME IInv, [Next]_vars PROVE IInv'
  OBVIOUS
<1>1. ASSUME UNCHANGED vars PROVE IInv'
  <2>1. UNCHANGED eeprom /\ UNCHANGED <<handles, append, count>>
    BY <1>1 DEF vars
  <2> USE <2>1 DEF IInv, eeprom, handles, append
  <2>2. TypeOK'
    BY DEF TypeOK
  <2>3. RingKept' /\ (WriterKnows => WriterKnows')
    BY SameRing DEF RingKept, WriterKnows
  <2>4. UNCHANGED <<target, NextSequence>> /\ (BodyWritten => BodyWritten')
    BY DEF target, NextSequence, BodyWritten
  <2>5. record_valid(target)' => record_valid(target)
    BY <2>4 DEF record_valid
  <2>6. IsNewest(target) => IsNewest(target)'
    BY <2>4, SameRing
  <2>7. Appending'
    BY <2>3, <2>4, <2>5, <2>6 DEF Appending
  <2> QED
    BY <2>2, <2>3, <2>7
<1> QED
  BY <1>1, InitLogStep, GiveUpStep, AppendCallStep, InvalidateStep, WriteBodyStep,
     PublishStep, VerifyStep, VerifyRecordStep, PowerCutStep
     DEF Next, AppendStep

\* The inductive invariant of the fault log.
THEOREM Invariance == Spec => []IInv
BY InitIInv, NextIInv, PTL DEF Spec

-----------------------------------------------------------------------------
(* What fault_log_init and fault_log_latest find. *)

\* Tokens, pages, handles and the call in progress keep their types.
THEOREM TypeCorrect == Spec => []TypeOK
<1>1. IInv => TypeOK
  BY DEF IInv
<1> QED
  BY <1>1, Invariance, PTL

\* The newest record, in terms of the ring.
LEMMA NewestOfRing ==
  IInv => \/ Empty /\ count = 0 /\ Newest = NoSlot
          \/ \E k \in 1..N : /\ Newest \in Slots /\ Newest # NoSlot
                             /\ Ring(Newest, k) /\ (count <= k \/ k = N - 1)
                             /\ record_valid(Newest) /\ head[Newest] \in Seqs
<1> SUFFICES ASSUME IInv
    PROVE  \/ Empty /\ count = 0 /\ Newest = NoSlot
           \/ \E k \in 1..N : /\ Newest \in Slots /\ Newest # NoSlot
                              /\ Ring(Newest, k) /\ (count <= k \/ k = N - 1)
                              /\ record_valid(Newest) /\ head[Newest] \in Seqs
  OBVIOUS
<1>1. HeadTyped /\ NoSlot \notin Slots
  BY FaultLogAssumption DEF IInv, TypeOK, HeadTyped, FaultLogAssumption, Slots
<1>2. CASE Empty /\ count = 0
  BY <1>1, <1>2, NewestSlot
<1>3. CASE \E p \in Slots, k \in 1..N : Ring(p, k) /\ (count <= k \/ k = N - 1)
  <2>1. PICK p \in Slots, k \in 1..N : Ring(p, k) /\ (count <= k \/ k = N - 1)
    BY <1>3
  <2>2. Newest = p
    BY <1>1, <2>1, NewestSlot DEF IsNewest
  <2>3. record_valid(p)
    <3>1. Age(p, p) = 0 /\ k > 0
      BY <2>1, Bounds DEF Age, Slots
    <3> QED
      BY <2>1, <3>1 DEF Ring
  <2>4. head[p] \in Seqs
    BY <2>1, <2>3 DEF record_valid, IInv, TypeOK
  <2> QED
    BY <1>1, <2>1, <2>2, <2>3, <2>4
<1> QED
  BY <1>2, <1>3 DEF IInv, RingKept

\* The distance of a record from the newest one, as the code computes it.
LEMMA DistanceIsAge ==
  ASSUME IInv, NEW k \in 1..N, Newest \in Slots, Ring(Newest, k), head[Newest] \in Seqs,
         NEW s \in Slots, record_valid(s)
  PROVE  /\ head[s] \in Seqs /\ (head[Newest] - head[s]) % M = Age(Newest, s)
         /\ Age(Newest, s) \in 0..(N - 1)
         /\ s # Newest => Age(Newest, s) # 0
<1>1. head[s] \in Seqs
  BY DEF record_valid, IInv, TypeOK
<1>2. Lag(head[Newest], head[s]) = Age(Newest, s) /\ Age(Newest, s) < k
  BY DEF Ring
<1>3. (head[Newest] - head[s]) % M = Lag(head[Newest], head[s])
  BY <1>1, LagIsDifference
<1>4. Age(Newest, s) \in Nat /\ (s # Newest => Age(Newest, s) # 0)
  BY Bounds DEF Age, Slots
<1> QED
  BY <1>1, <1>2, <1>3, <1>4, Bounds

\* fault_log_init never refuses an EEPROM that only fault_log_append has
\* written, whatever was torn, also where the sequence number wraps around.
THEOREM AlwaysRecoverable == Spec => []Recoverable
<1>1. ASSUME IInv PROVE Recoverable
  <2>1. CASE Empty
    BY <2>1 DEF Recoverable, AgesPlausible, Empty
  <2>2. CASE ~Empty
    <3>1. PICK k \in 1..N : Newest \in Slots /\ Ring(Newest, k) /\ head[Newest] \in Seqs
      BY <1>1, <2>2, NewestOfRing
    <3>2. ASSUME NEW s \in Slots, record_valid(s), s # Newest
          PROVE  (head[Newest] - head[s]) % M \in 1..(N - 1)
      BY <1>1, <3>1, <3>2, DistanceIsAge, Bounds
    <3> QED
      BY <3>2 DEF Recoverable, AgesPlausible
  <2> QED
    BY <2>1, <2>2
<1> QED
  BY <1>1, Invariance, PTL

\* The last N - 1 published records are intact at every instant.
THEOREM HistoryKept == Spec => []History
<1>1. ASSUME IInv, NEW d \in 0..(N - 2), d < count
      PROVE  /\ Newest # NoSlot
             /\ record_valid((Newest - d) % N)
             /\ head[(Newest - d) % N] = (head[Newest] - d) % M
  <2>1. count \in 0..N /\ d \in Nat /\ d <= N - 2
    BY <1>1, Bounds DEF IInv, TypeOK
  <2>2. PICK k \in 1..N : /\ Newest \in Slots /\ Newest # NoSlot /\ head[Newest] \in Seqs
                          /\ Ring(Newest, k) /\ (count <= k \/ k = N - 1)
    BY <1>1, <2>1, NewestOfRing
  <2>3. d < k
    BY <1>1, <2>1, <2>2, Bounds
  <2>4. PICK p \in Slots : p = Newest
    BY <2>2
  <2> DEFINE s == IF d <= p THEN p - d ELSE p - d + N
  <2>5. (p - d) % N = s /\ s \in Slots /\ Age(p, s) = d
    <3>1. p - d \in Int /\ -N <= p - d /\ p - d < N
      BY <2>1, <2>4, Bounds DEF Slots
    <3>2. (p - d) % N = s
      BY <2>1, <2>4, <3>1, Bounds, ModSmall DEF Slots
    <3>3. s \in Slots /\ Age(p, s) = d
      BY <2>1, <2>4, Bounds DEF Slots, Age
    <3> QED
      BY <3>2, <3>3
  <2> HIDE DEF s
  <2>6. record_valid(s) /\ Lag(head[p], head[s]) = d
    BY <2>2, <2>3, <2>4, <2>5 DEF Ring
  <2>7. head[s] \in Seqs /\ head[p] \in Seqs
    BY <1>1, <2>2, <2>4, <2>5, <2>6 DEF record_valid, IInv, TypeOK
  <2>8. head[s] = (head[p] - d) % M
    <3>1. head[p] - d \in Int /\ -M <= head[p] - d /\ head[p] - d < M
      BY <2>1, <2>7, Bounds DEF Seqs
    <3>2. head[s] = IF d <= head[p] THEN head[p] - d ELSE head[p] - d + M
      BY <2>1, <2>6, <2>7, Bounds DEF Lag, Seqs
    <3>3. CASE d <= head[p]
      <4>1. M \in Nat /\ M > 0 /\ 0 <= head[p] - d /\ head[p] - d < M
        BY <2>1, <2>7, <3>1, <3>3, Bounds DEF Seqs
      <4>2. (head[p] - d) % M = head[p] - d
        BY <3>1, <4>1, ModSmall, Zenon
      <4> QED
        BY <3>2, <3>3, <4>2
    <3>4. CASE ~(d <= head[p])
      <4>1. M \in Nat /\ M > 0 /\ -M <= head[p] - d /\ head[p] - d < 0
        BY <2>1, <2>7, <3>1, <3>4, Bounds DEF Seqs
      <4>2. (head[p] - d) % M = head[p] - d + M
        BY <3>1, <4>1, ModSmall, Zenon
      <4> QED
        BY <3>2, <3>4, <4>2
    <3> QED
      BY <3>3, <3>4
  <2> QED
    BY <2>2, <2>4, <2>5, <2>6, <2>8
<1>2. IInv => History
  BY <1>1 DEF History
<1> QED
  BY <1>2, Invariance, PTL

\* A usable writer knows the newest record, and fault_log_latest returns one of
\* the last N records on any handle or -EILSEQ, however long it was overtaken.
THEOREM MetadataCoherent == Spec => []HandlesCoherent
<1>1. ASSUME IInv, initialized[Writer]
      PROVE  /\ newest_slot[Writer] = Newest
             /\ Newest # NoSlot => sequence[Writer] = head[Newest]
  <2>1. HeadTyped /\ WriterKnows
    BY <1>1 DEF IInv, TypeOK, HeadTyped, Appending
  <2> QED
    BY <2>1, NewestSlot DEF WriterKnows
<1>2. ASSUME IInv, NEW h \in Handles, LatestRet(h) = "OK"
      PROVE  (head[Newest] - sequence[h]) % M \in 0..(N - 1)
  <2>1. /\ newest_slot[h] # NoSlot /\ record_valid(newest_slot[h])
        /\ head[newest_slot[h]] = sequence[h]
    BY <1>2 DEF LatestRet
  <2>2. newest_slot[h] \in Slots
    BY <1>2, <2>1 DEF IInv, TypeOK
  <2>3. PICK k \in 1..N : Newest \in Slots /\ Ring(Newest, k) /\ head[Newest] \in Seqs
    BY <1>2, <2>1, <2>2, NewestOfRing DEF Empty
  <2> QED
    BY <1>2, <2>1, <2>2, <2>3, DistanceIsAge
<1>3. IInv => HandlesCoherent
  BY <1>1, <1>2 DEF HandlesCoherent
<1> QED
  BY <1>3, Invariance, PTL

\* The scan finds the newest slot, or that there is none.
ScanCorrect ==
  /\ \A p : IsNewest(p) => Newest = p
  /\ Empty => Newest = NoSlot

\* The scan of the next state finds its newest record too.
LEMMA NextNewest == HeadTyped' => ScanCorrect'
<1>1. HeadTyped => ScanCorrect
  BY NewestSlot DEF ScanCorrect
<1> QED
  BY <1>1, PTL

\* What a reboot finds is the same after a step that leaves the newest slot
\* newest, and its record alone.
LEMMA SameRecovered ==
  ASSUME IInv, IInv',
         \/ Empty /\ Empty'
         \/ \E p : /\ IsNewest(p) /\ IsNewest(p)'
                   /\ head'[p] = head[p] /\ tail'[p] = tail[p]
  PROVE  Recovered' = Recovered
<1>1. HeadTyped /\ HeadTyped'
  BY DEF IInv, TypeOK, HeadTyped
<1>2. CASE Empty /\ Empty'
  <2>1. Newest = NoSlot /\ Newest' = NoSlot
    BY <1>1, <1>2, NewestSlot, NextNewest DEF ScanCorrect
  <2> QED
    BY <2>1 DEF Recovered
<1>3. CASE \E p : /\ IsNewest(p) /\ IsNewest(p)'
                  /\ head'[p] = head[p] /\ tail'[p] = tail[p]
  <2>1. PICK p : /\ IsNewest(p) /\ IsNewest(p)'
                 /\ head'[p] = head[p] /\ tail'[p] = tail[p]
    BY <1>3
  <2>2. Newest = p /\ Newest' = p
    BY <1>1, <2>1, NewestSlot, NextNewest DEF ScanCorrect
  <2>3. head'[Newest'] = head[Newest] /\ tail'[Newest'] = tail[Newest]
    BY <2>1, <2>2
  <2> QED
    BY <2>2, <2>3 DEF Recovered
<1> QED
  BY <1>2, <1>3

\* Only the write of the commit token changes what a reboot finds, and then to
\* the record being appended, whole: a torn or failed append is never seen.
THEOREM PublicationAtomic == Spec => PublishIsAtomic
<1> DEFINE Atomic == Recovered' # Recovered =>
                       pc = "publish" /\ Recovered' = <<target, body[2], body[1]>>
<1>1. ASSUME IInv, IInv', [Next]_vars PROVE Atomic
  <2>1. CASE UNCHANGED eeprom
    <3>1. Empty \/ \E p : IsNewest(p)
      BY <1>1 DEF IInv, RingKept, IsNewest
    <3>2. head' = head /\ tail' = tail
      BY <2>1 DEF eeprom
    <3> QED
      BY <1>1, <2>1, <3>1, <3>2, SameRing, SameRecovered
  <2>2. ASSUME WriterKnows, WriterKnows', newest_slot' = newest_slot,
               \A s \in Slots : s # target => head'[s] = head[s] /\ tail'[s] = tail[s]
        PROVE  Recovered' = Recovered
    <3>1. CASE newest_slot[Writer] = NoSlot
      BY <1>1, <2>2, <3>1, SameRecovered DEF WriterKnows
    <3>2. CASE newest_slot[Writer] # NoSlot
      <4>1. PICK p : p = newest_slot[Writer]
        OBVIOUS
      <4>2. IsNewest(p) /\ IsNewest(p)'
        BY <2>2, <3>2, <4>1 DEF WriterKnows
      <4>3. p \in Slots /\ p # target
        BY <1>1, <3>2, <4>1, TargetIsOldest DEF IInv
      <4> QED
        BY <1>1, <2>2, <4>2, <4>3, SameRecovered
    <3> QED
      BY <3>1, <3>2
  <2>3. CASE Invalidate
    <3>1. WriterKnows /\ WriterKnows'
      BY <1>1, <2>3, InvalidateStep
    <3> QED
      BY <2>2, <2>3, <3>1 DEF Invalidate, handles
  <2>4. CASE WriteBody
    <3>1. WriterKnows /\ WriterKnows'
      BY <1>1, <2>4, WriteBodyStep
    <3>2. \A s \in Slots : s # target => head'[s] = head[s] /\ tail'[s] = tail[s]
      BY <1>1, <2>4 DEF WriteBody, Set, IInv, TypeOK
    <3> QED
      BY <2>2, <2>4, <3>1, <3>2 DEF WriteBody, handles
  <2>5. CASE Publish
    <3>1. /\ pc = "publish" /\ head' = head /\ tail' = tail
          /\ newest_slot' = newest_slot /\ target' = target
      BY <2>5 DEF Publish, handles, target
    <3>2. /\ WriterKnows /\ BodyWritten
          /\ IF record_valid(target)' THEN IsNewest(target)' ELSE WriterKnows'
      BY <1>1, <2>5, PublishStep
    <3>3. CASE ~record_valid(target)'
      BY <2>2, <3>1, <3>2, <3>3
    <3>4. CASE record_valid(target)'
      <4>1. PICK t : t = target
        OBVIOUS
      <4>2. t \in Slots /\ t # NoSlot
        BY <1>1, <4>1, TargetIsOldest, FaultLogAssumption DEF IInv, FaultLogAssumption, Slots
      <4>3. IsNewest(t)'
        BY <3>1, <3>2, <3>4, <4>1
      <4>4. HeadTyped'
        BY <1>1 DEF IInv, TypeOK, HeadTyped
      <4>5. Newest' = t
        BY <4>3, <4>4, NextNewest DEF ScanCorrect
      <4>6. Recovered' = <<t, head'[t], tail'[t][1]>>
        BY <4>2, <4>5 DEF Recovered
      <4>7. head[t] = body[2] /\ tail[t] = body
        BY <3>2, <4>1 DEF BodyWritten
      <4> QED
        BY <3>1, <4>1, <4>6, <4>7
    <3> QED
      BY <3>3, <3>4
  <2>6. UNCHANGED eeprom \/ Invalidate \/ WriteBody \/ Publish
    BY <1>1 DEF Next, AppendStep, InitLog, InitFails, LatestStale, AppendCall, VerifyInvalid,
       VerifyBody, VerifyRecord, VerifyFails, PowerCut, vars
  <2> QED
    BY <2>1, <2>3, <2>4, <2>5, <2>6
<1>2. IInv /\ IInv' /\ [Next]_vars => Atomic
  BY <1>1
<1> QED
  BY <1>2, Invariance, PTL DEF Spec, PublishIsAtomic

-----------------------------------------------------------------------------
(* The device, as a function of what it was. *)

Hears(d) == d.st \in {"addr", "word", "data"}

\* What the device puts on SDA while the clock is low.
Out(d, m) ==
  IF Hears(d) /\ d.n = Width THEN (IF d.st = "addr" /\ d.sh \div 2 # TargetAddr THEN 1 ELSE 0)
  ELSE IF d.st = "read" /\ d.n < Width THEN Bit(m[d.ptr], d.n + 1)
  ELSE 1

\* What the device makes of a bit: of one of a byte, ...
BitHeard(d, bit) == [d EXCEPT !.n = @ + 1, !.sh = 2 * @ + bit]

\* ... of the clock of the acknowledgement it gives, ...
ByteTaken(d) ==
  LET next == [d EXCEPT !.n = Width + 1, !.sh = 0]
  IN IF d.st = "addr" /\ d.sh \div 2 = TargetAddr THEN
       (IF d.sh % 2 = 1 THEN [next EXCEPT !.st = "read"]
        ELSE [next EXCEPT !.st = "word", !.words = 0, !.ptr = 0])
     ELSE IF d.st = "word" THEN
       [next EXCEPT !.ptr = (d.ptr * 2 ^ Width + d.sh) % Cells, !.words = @ + 1,
                    !.st = IF d.words + 1 = AddressWidth THEN "data" ELSE "word"]
     ELSE IF d.st = "data" THEN [next EXCEPT !.page = Append(@, d.sh)]
     ELSE [d EXCEPT !.st = "idle"]

\* ... and of the one it waits for.
AckHeard(d, bit) ==
  IF bit = 1 THEN [d EXCEPT !.st = "idle"]
  ELSE [d EXCEPT !.n = Width + 1, !.ptr = (@ + 1) % Cells]

AtEdge(d, bit) ==
  IF Hears(d) /\ d.n < Width THEN BitHeard(d, bit)
  ELSE IF Hears(d) /\ d.n = Width THEN ByteTaken(d)
  ELSE IF d.st = "read" /\ d.n < Width THEN [d EXCEPT !.n = @ + 1]
  ELSE IF d.st = "read" /\ d.n = Width THEN AckHeard(d, bit)
  ELSE d

\* The device after a falling edge.
Fallen(d) == [d EXCEPT !.n = IF @ = Width + 1 THEN 0 ELSE @]

\* ... and after a START, unless it is busy.
Started(d) == [d EXCEPT !.st = "addr", !.n = 0, !.sh = 0, !.page = <<>>]

-----------------------------------------------------------------------------
(* Programs of line operations and what they lead to. *)

Ops == {"sda0", "sda1", "scl0", "scl1", "start", "stop", "poll", "pollstop", "free", "idle",
        "sample", "ack", "byte", "active", "boot", "quit", "break", "reject", "unsupported"}

\* A view of the master's lines follows an operation.  A line is let go or pulled
\* as the protocol has it, and where the driver may leave the call it has let both go
\* or will send a STOP first.
Let(s) == s.msda = 1 /\ s.mscl = 1

LineMove(o, s, t) ==
  \/ o = "sda0" /\ s.mscl = 0 /\ t = [s EXCEPT !.msda = 0]
  \/ o = "sda1" /\ (s.mscl = 0 \/ s.msda = 1) /\ t = [s EXCEPT !.msda = 1]
  \/ o = "start" /\ t = [s EXCEPT !.msda = 0]
  \/ o = "stop" /\ t = [s EXCEPT !.msda = 1]
  \/ o = "scl0" /\ t = [s EXCEPT !.mscl = 0]
  \/ o = "scl1" /\ t = [s EXCEPT !.mscl = 1]
  \/ o \in {"poll", "free"} /\ (s.armed = 1 \/ Let(s)) /\ t = s
  \/ o = "pollstop" /\ s.mscl = 1 /\ t = s
  \/ o \in {"idle", "boot", "quit", "break"} /\ Let(s) /\ t = s
  \/ o \in {"sample", "byte"} /\ t = s
  \/ o = "ack" /\ s.armed = 1 /\ t = s
  \/ o = "active" /\ t = [s EXCEPT !.armed = 1]

\* A view of a device that does not answer: what the master puts on SDA is what it reads,
\* until it misses an ACK.
DeafMove(o, s, t) ==
  \/ s.missed = 1 /\ t = s
  \/ s.missed = 0 /\ o = "sda0" /\ t = [s EXCEPT !.msda = 0]
  \/ s.missed = 0 /\ o = "sda1" /\ t = [s EXCEPT !.msda = 1]
  \/ s.missed = 0 /\ o \in {"scl0", "scl1", "poll", "active"} /\ t = s
  \/ s.missed = 0 /\ o = "sample" /\ t = [s EXCEPT !.in = Append(@, s.msda)]
  \/ s.missed = 0 /\ o = "ack" /\ Last(s.in) = 1 /\ t = [s EXCEPT !.missed = 1]

\* A view of a device d that answers, out of the memory m: wait is 1 when SCL may still be
\* held low.  The bit on the wire counts as heard once the master has let SCL go.
Talk(msda, mscl, dsda, wait, d, in_, got_) ==
  [msda |-> msda, mscl |-> mscl, dsda |-> dsda, wait |-> wait, d |-> d, in |-> in_, got |-> got_]

Both(s) == IF s.msda = 1 /\ s.dsda = 1 THEN 1 ELSE 0

DataMove(m, o, s, t) ==
  \/ /\ o = "sda0" /\ s.mscl = 0
     /\ t = Talk(0, 0, s.dsda, s.wait, s.d, s.in, s.got)
  \/ /\ o = "sda1" /\ s.mscl = 0
     /\ t = Talk(1, 0, s.dsda, s.wait, s.d, s.in, s.got)
  \/ /\ o = "scl1" /\ s.mscl = 0
     /\ t = Talk(s.msda, 1, s.dsda, 1, AtEdge(s.d, Both(s)), s.in, s.got)
  \/ o = "scl0" /\ s.mscl = 0 /\ t = s
  \/ /\ o = "scl0" /\ s.mscl = 1 /\ s.wait = 0
     /\ t = Talk(s.msda, 0, Out(Fallen(s.d), m), 0, Fallen(s.d), s.in, s.got)
  \/ /\ o \in {"poll", "pollstop"}
     /\ t = Talk(s.msda, s.mscl, s.dsda, 0, s.d, s.in, s.got)
  \/ o \in {"free", "active"} /\ t = s
  \/ /\ o = "start" /\ s.mscl = 1 /\ s.wait = 0 /\ s.msda = 1 /\ s.dsda = 1
     /\ t = Talk(0, 1, 1, 0, Started(s.d), s.in, s.got)
  \/ /\ o = "sample" /\ s.mscl = 1 /\ s.wait = 0
     /\ t = Talk(s.msda, 1, s.dsda, 0, s.d, Append(s.in, Both(s)), s.got)
  \/ o = "ack" /\ Last(s.in) = 0 /\ t = Talk(s.msda, s.mscl, s.dsda, s.wait, s.d, <<>>, s.got)
  \/ /\ o = "byte"
     /\ t = Talk(s.msda, s.mscl, s.dsda, s.wait, s.d, <<>>, Append(s.got, Received(s.in)))

\* A view of the device with the driver of lab 13, which waits for nothing.  What an idle
\* device remembers does not count.
Idle ==
  [st |-> "idle", n |-> 0, sh |-> 0, words |-> 0, ptr |-> 0, page |-> <<>>, busy |-> FALSE]
Seen(d) == IF d.st = "idle" THEN Idle ELSE d

\* The transfer fails whatever comes next; the device is to be read, which that driver
\* cannot do.
Gone == Talk(0, 0, 0, 1, Idle, <<>>, <<>>)
Asked == Talk(0, 0, 0, 2, Idle, <<>>, <<>>)

PlainMove(o, s, t) ==
  \/ s.wait = 1 /\ t = s
  \/ s.wait = 2 /\ o \in {"sample", "scl0", "ack"} /\ t = s
  \/ o = "unsupported" /\ t = Gone
  \/ /\ s.wait = 0 /\ o = "sda0" /\ s.mscl = 0
     /\ t = Talk(0, 0, s.dsda, 0, s.d, s.in, s.got)
  \/ /\ s.wait = 0 /\ o = "sda1" /\ s.mscl = 0
     /\ t = Talk(1, 0, s.dsda, 0, s.d, s.in, s.got)
  \/ s.wait = 0 /\ o = "scl1" /\ s.mscl = 0 /\ AtEdge(s.d, Both(s)).st = "read" /\ t = Asked
  \/ /\ s.wait = 0 /\ o = "scl1" /\ s.mscl = 0 /\ AtEdge(s.d, Both(s)).st # "read"
     /\ t = Talk(s.msda, 1, s.dsda, 0, Seen(AtEdge(s.d, Both(s))), s.in, s.got)
  \/ /\ s.wait = 0 /\ o = "scl0" /\ s.mscl = 1 /\ s.d.st # "read"
     /\ t = Talk(s.msda, 0, Out(Fallen(s.d), <<>>), 0, Seen(Fallen(s.d)), s.in, s.got)
  \/ /\ s.wait = 0 /\ o = "sample"
     /\ t = Talk(s.msda, s.mscl, s.dsda, 0, s.d, Append(s.in, Both(s)), s.got)
  \/ /\ s.wait = 0 /\ o = "ack" /\ Last(s.in) = 0
     /\ t = Talk(s.msda, s.mscl, s.dsda, 0, s.d, <<>>, s.got)
  \/ s.wait = 0 /\ o = "ack" /\ Last(s.in) # 0 /\ t = Gone

\* What kind of view it is.
Lines == [name |-> "lines"]
Deaf == [name |-> "deaf"]
Data(m) == [name |-> "data", mem |-> m]
Plain == [name |-> "plain"]

Move(kind, o, s, t) ==
  \/ kind.name = "lines" /\ LineMove(o, s, t)
  \/ kind.name = "deaf" /\ DeafMove(o, s, t)
  \/ kind.name = "data" /\ DataMove(kind.mem, o, s, t)
  \/ kind.name = "plain" /\ PlainMove(o, s, t)

\* Each kind of view moves in its own way.
LEMMA Kinds ==
  ASSUME NEW o, NEW s, NEW t, NEW m
  PROVE  /\ Move(Lines, o, s, t) <=> LineMove(o, s, t)
         /\ Move(Deaf, o, s, t) <=> DeafMove(o, s, t)
         /\ Move(Data(m), o, s, t) <=> DataMove(m, o, s, t)
         /\ Move(Plain, o, s, t) <=> PlainMove(o, s, t)
<1>1. /\ Lines.name = "lines" /\ Deaf.name = "deaf" /\ Data(m).name = "data"
      /\ Data(m).mem = m /\ Plain.name = "plain"
  BY DEF Lines, Deaf, Data, Plain
<1> QED
  BY <1>1 DEF Move

Trace(kind, f, s, ops, t) ==
  /\ f[0] = s /\ f[Len(ops)] = t
  /\ \A i \in 1 .. Len(ops) : Move(kind, ops[i], f[i - 1], f[i])

\* The operations take a view s to t.
Leads(kind, s, ops, t) == \E f : Trace(kind, f, s, ops, t)

\* No operation, no change.
LEMMA LeadsNone ==
  ASSUME NEW kind, NEW s, NEW t
  PROVE  /\ Leads(kind, s, <<>>, s)
         /\ Leads(kind, s, <<>>, t) => s = t
<1>1. Trace(kind, [i \in 0 .. 0 |-> s], s, <<>>, s)
  BY DEF Trace
<1>2. ASSUME NEW f, Trace(kind, f, s, <<>>, t) PROVE s = t
  BY <1>2 DEF Trace
<1> QED
  BY <1>1, <1>2 DEF Leads

\* One operation.
LEMMA LeadsOne ==
  ASSUME NEW kind, NEW s, NEW o, NEW t, Move(kind, o, s, t)
  PROVE  Leads(kind, s, <<o>>, t)
<1> DEFINE f == [i \in 0 .. 1 |-> IF i = 0 THEN s ELSE t]
<1>1. f[0] = s /\ f[1] = t /\ Len(<<o>>) = 1 /\ <<o>>[1] = o
  OBVIOUS
<1>2. \A i \in 1 .. 1 : i = 1 /\ i - 1 = 0
  OBVIOUS
<1> HIDE DEF f
<1>3. Trace(kind, f, s, <<o>>, t)
  BY <1>1, <1>2 DEF Trace
<1> QED
  BY <1>3 DEF Leads

\* One program after another.
LEMMA LeadsThen ==
  ASSUME NEW kind, NEW s, NEW a \in Seq(Ops), NEW t, NEW b \in Seq(Ops), NEW u,
         Leads(kind, s, a, t), Leads(kind, t, b, u)
  PROVE  Leads(kind, s, a \o b, u)
<1>1. PICK f : Trace(kind, f, s, a, t)
  BY DEF Leads
<1>2. PICK g : Trace(kind, g, t, b, u)
  BY DEF Leads
<1> DEFINE c == a \o b
           m == Len(a)
           h == [i \in 0 .. Len(c) |-> IF i <= m THEN f[i] ELSE g[i - m]]
<1>3. /\ m \in Nat /\ Len(b) \in Nat /\ Len(c) = m + Len(b) /\ c \in Seq(Ops)
      /\ \A i \in 1 .. m : c[i] = a[i]
      /\ \A i \in 1 .. Len(b) : c[m + i] = b[i]
  OBVIOUS
<1> HIDE DEF c
<1>4. \A i \in 0 .. Len(c) : h[i] = IF i <= m THEN f[i] ELSE g[i - m]
  OBVIOUS
<1>4a. 0 \in 0 .. Len(c) /\ Len(c) \in 0 .. Len(c) /\ m \in 0 .. Len(c)
  BY <1>3
<1> HIDE DEF h, m
<1>5. f[0] = s /\ f[m] = t /\ g[0] = t /\ g[Len(b)] = u
  BY <1>1, <1>2 DEF Trace, m
<1>6. h[0] = s
  BY <1>3, <1>4, <1>4a, <1>5
<1>7. h[Len(c)] = u
  <2>1. CASE Len(b) = 0
    BY <1>3, <1>4, <1>4a, <1>5, <2>1
  <2>2. CASE Len(b) # 0
    <3>1. ~(Len(c) <= m) /\ Len(c) - m = Len(b)
      BY <1>3, <2>2
    <3> QED
      BY <1>4, <1>4a, <1>5, <3>1
  <2> QED
    BY <2>1, <2>2
<1>8. ASSUME NEW i \in 1 .. Len(c) PROVE Move(kind, c[i], h[i - 1], h[i])
  <2>1. CASE i <= m
    <3>1. i \in 1 .. m /\ i \in 0 .. Len(c) /\ i - 1 \in 0 .. Len(c) /\ i - 1 <= m
      BY <1>3, <2>1
    <3>2. h[i] = f[i] /\ h[i - 1] = f[i - 1] /\ c[i] = a[i]
      BY <1>3, <1>4, <2>1, <3>1
    <3>3. Move(kind, a[i], f[i - 1], f[i])
      BY <1>1, <3>1 DEF Trace, m
    <3> QED
      BY <3>2, <3>3
  <2>2. CASE ~(i <= m)
    <3>1. i - m \in 1 .. Len(b) /\ i \in 0 .. Len(c) /\ i - 1 \in 0 .. Len(c) /\ m + (i - m) = i
          /\ (i - 1) - m = (i - m) - 1
      BY <1>3, <2>2
    <3>2. h[i] = g[i - m] /\ c[i] = b[i - m]
      BY <1>3, <1>4, <2>2, <3>1
    <3>3. h[i - 1] = g[(i - m) - 1]
      <4>1. CASE i - 1 <= m
        <5>1. i - 1 = m /\ (i - m) - 1 = 0
          BY <1>3, <2>2, <4>1
        <5> QED
          BY <1>4, <1>5, <3>1, <4>1, <5>1
      <4>2. CASE ~(i - 1 <= m)
        BY <1>4, <3>1, <4>2
      <4> QED
        BY <4>1, <4>2
    <3>4. Move(kind, b[i - m], g[(i - m) - 1], g[i - m])
      BY <1>2, <3>1 DEF Trace
    <3> QED
      BY <3>2, <3>3, <3>4
  <2> QED
    BY <2>1, <2>2
<1>9. Trace(kind, h, s, c, u)
  BY <1>6, <1>7, <1>8 DEF Trace
<1> QED
  BY <1>9 DEF Leads, c

\* The same, with the type of the whole.
LEMMA LeadsJoin ==
  ASSUME NEW kind, NEW s, NEW a \in Seq(Ops), NEW t, NEW b \in Seq(Ops), NEW u,
         Leads(kind, s, a, t), Leads(kind, t, b, u)
  PROVE  a \o b \in Seq(Ops) /\ Leads(kind, s, a \o b, u)
<1>1. a \o b \in Seq(Ops)
  BY ConcatProperties
<1> QED
  BY <1>1, LeadsThen

\* The first operation, and then the others.
LEMMA LeadsStep ==
  ASSUME NEW kind, NEW s, NEW ops \in Seq(Ops), NEW u, ops # <<>>, Leads(kind, s, ops, u)
  PROVE  \E t : Move(kind, Head(ops), s, t) /\ Leads(kind, t, Tail(ops), u)
<1>1. PICK f : Trace(kind, f, s, ops, u)
  BY DEF Leads
<1> DEFINE n == Len(ops)
           rest == Tail(ops)
           g == [i \in 0 .. n - 1 |-> f[i + 1]]
<1>2. /\ n \in Nat /\ n # 0 /\ rest \in Seq(Ops) /\ Len(rest) = n - 1 /\ Head(ops) = ops[1]
      /\ \A i \in 1 .. n - 1 : rest[i] = ops[i + 1]
  BY HeadTailProperties
<1>3. \A i \in 0 .. n - 1 : g[i] = f[i + 1]
  OBVIOUS
<1> HIDE DEF g, rest
<1>4. f[0] = s /\ f[n] = u /\ \A i \in 1 .. n : Move(kind, ops[i], f[i - 1], f[i])
  BY <1>1 DEF Trace
<1> HIDE DEF n
<1>5. Move(kind, Head(ops), s, f[1])
  <2>1. 1 \in 1 .. n /\ 1 - 1 = 0
    BY <1>2
  <2> QED
    BY <1>2, <1>4, <2>1
<1>6. Trace(kind, g, f[1], rest, u)
  <2>1. g[0] = f[1] /\ g[n - 1] = u
    <3>1. 0 \in 0 .. n - 1 /\ n - 1 \in 0 .. n - 1 /\ 0 + 1 = 1 /\ (n - 1) + 1 = n
      BY <1>2
    <3> QED
      BY <1>3, <1>4, <3>1
  <2>2. ASSUME NEW i \in 1 .. n - 1 PROVE Move(kind, rest[i], g[i - 1], g[i])
    <3>1. i + 1 \in 1 .. n /\ (i + 1) - 1 = i /\ i \in 0 .. n - 1 /\ i - 1 \in 0 .. n - 1
          /\ (i - 1) + 1 = i
      BY <1>2
    <3>2. Move(kind, ops[i + 1], f[i], f[i + 1])
      BY <1>4, <3>1
    <3>3. rest[i] = ops[i + 1] /\ g[i - 1] = f[i] /\ g[i] = f[i + 1]
      BY <1>2, <1>3, <3>1
    <3> QED
      BY <3>2, <3>3
  <2> QED
    BY <1>2, <2>1, <2>2 DEF Trace
<1> QED
  BY <1>5, <1>6 DEF Leads, rest

-----------------------------------------------------------------------------
(* Programs of many blocks. *)

\* What a loop keeps up holds after any number of its turns: T is closed under one more.
LEMMA StretchInduction ==
  ASSUME NEW n \in Nat, NEW T, 0 \in T, \A k \in 0 .. n - 1 : k \in T => k + 1 \in T
  PROVE  \A k \in 0 .. n : k \in T
<1> DEFINE Wrong == {k \in Nat : k <= n /\ k \notin T}
<1>1. Wrong = {}
  <2> SUFFICES ASSUME Wrong # {} PROVE FALSE
    OBVIOUS
  <2>1. PICK m \in Wrong : \A k \in Wrong : ~(<<k, m>> \in OpToRel(<, Nat))
    <3> HIDE DEF Wrong
    <3>1. Wrong \subseteq Nat
      BY DEF Wrong
    <3> QED
      BY <3>1, NatLessThanWellFounded, WFMin, Zenon
  <2>2. m \in Nat /\ m <= n /\ m \notin T /\ \A k \in Nat : k < m => k \notin Wrong
    BY <2>1 DEF OpToRel
  <2>3. m # 0 /\ m - 1 \in Nat /\ m - 1 < m /\ m - 1 \in 0 .. n - 1 /\ (m - 1) + 1 = m
    BY <2>2
  <2>4. m - 1 \in T
    BY <2>2, <2>3
  <2> QED
    BY <2>2, <2>3, <2>4
<1> QED
  BY <1>1

\* flat[i] is the first i blocks of ss, one after the other.
Flattens(flat, ss) ==
  \A i \in 1 .. Len(ss) : flat[i] = IF i = 1 THEN ss[i] ELSE flat[i - 1] \o ss[i]

\* There is such a flat, and its last value is what FlattenSeq returns.
LEMMA FlattenUnfolds ==
  ASSUME NEW ss, Len(ss) \in Nat \ {0}
  PROVE  \E flat : Flattens(flat, ss) /\ FlattenSeq(ss) = flat[Len(ss)]
<1> DEFINE n == Len(ss)
           Join(f, i) == IF i = 1 THEN ss[i] ELSE f[i - 1] \o ss[i]
           flat == CHOOSE f : f = [i \in 1 .. n |-> Join(f, i)]
           T == {m \in 0 .. n : \E f : f = [i \in 1 .. m |-> Join(f, i)]}
<1>1. 0 \in T
  <2> DEFINE e == [i \in 1 .. 0 |-> ss[i]]
  <2>1. e = [i \in 1 .. 0 |-> Join(e, i)]
    OBVIOUS
  <2>2. 0 \in 0 .. n
    OBVIOUS
  <2> HIDE DEF e
  <2> QED
    BY <2>1, <2>2
<1>2. ASSUME NEW m \in 0 .. n - 1, m \in T PROVE m + 1 \in T
  <2>1. PICK f : f = [i \in 1 .. m |-> Join(f, i)]
    BY <1>2
  <2> DEFINE g == [i \in 1 .. m + 1 |-> IF i = m + 1 THEN Join(f, m + 1) ELSE f[i]]
  <2>2. \A i \in 1 .. m + 1 : g[i] = Join(g, i)
    <3> TAKE i \in 1 .. m + 1
    <3>1. i # 1 => i - 1 \in 1 .. m + 1 /\ i - 1 # m + 1 /\ g[i - 1] = f[i - 1]
      OBVIOUS
    <3>2. i # m + 1 => f[i] = Join(f, i)
      <4>1. i # m + 1 => i \in 1 .. m
        OBVIOUS
      <4> QED
        BY <2>1, <4>1
    <3> QED
      BY <3>1, <3>2
  <2>3. g = [i \in 1 .. m + 1 |-> Join(g, i)]
    BY <2>2
  <2>4. m + 1 \in 0 .. n
    OBVIOUS
  <2> HIDE DEF g
  <2> QED
    BY <2>3, <2>4
<1>3. n \in T
  <2> HIDE DEF T
  <2>1. n \in Nat /\ n \in 0 .. n
    OBVIOUS
  <2> HIDE DEF n
  <2>2. \A k \in 0 .. n : k \in T
    BY <1>1, <1>2, <2>1, StretchInduction
  <2> QED
    BY <2>1, <2>2
<1>4. flat = [i \in 1 .. n |-> Join(flat, i)]
  BY <1>3
<1>5. FlattenSeq(ss) = flat[n]
  BY DEF FlattenSeq
<1> HIDE DEF flat
<1>6. \A i \in 1 .. n : flat[i] = Join(flat, i)
  BY <1>4
<1> QED
  BY <1>5, <1>6 DEF Flattens

\* Programs one after another are a program.
LEMMA FlattenType ==
  ASSUME NEW n \in Nat, NEW ss, Len(ss) = n, \A i \in 1 .. n : ss[i] \in Seq(Ops),
         n = 0 => ss = <<>>
  PROVE  FlattenSeq(ss) \in Seq(Ops)
<1>1. CASE n = 0
  BY <1>1 DEF FlattenSeq
<1>2. CASE n # 0
  <2>1. PICK flat : Flattens(flat, ss) /\ FlattenSeq(ss) = flat[n]
    BY <1>2, FlattenUnfolds
  <2> DEFINE T == {k \in 0 .. n : k # 0 => flat[k] \in Seq(Ops)}
  <2>2. 0 \in T
    OBVIOUS
  <2>3. ASSUME NEW k \in 0 .. n - 1, k \in T PROVE k + 1 \in T
    <3>1. k + 1 \in 1 .. n /\ (k + 1) - 1 = k /\ k + 1 \in 0 .. n /\ (k + 1 = 1 <=> k = 0)
      OBVIOUS
    <3>2. flat[k + 1] = IF k = 0 THEN ss[k + 1] ELSE flat[k] \o ss[k + 1]
      BY <2>1, <3>1 DEF Flattens
    <3>3. ss[k + 1] \in Seq(Ops)
      BY <3>1
    <3>4. flat[k + 1] \in Seq(Ops)
      BY <2>3, <3>2, <3>3, ConcatProperties
    <3> QED
      BY <3>1, <3>4
  <2>4. n \in T
    <3> HIDE DEF T
    <3>1. \A k \in 0 .. n : k \in T
      BY <2>2, <2>3, StretchInduction
    <3> QED
      BY <3>1
  <2> QED
    BY <1>2, <2>1, <2>4
<1> QED
  BY <1>1, <1>2

\* Blocks each of which takes a view to the next one.
LEMMA LeadsAll ==
  ASSUME NEW kind, NEW n \in Nat, NEW ss, Len(ss) = n, n = 0 => ss = <<>>,
         \A i \in 1 .. n : ss[i] \in Seq(Ops),
         NEW v, \A i \in 1 .. n : Leads(kind, v[i - 1], ss[i], v[i])
  PROVE  Leads(kind, v[0], FlattenSeq(ss), v[n])
<1>1. CASE n = 0
  BY <1>1, LeadsNone DEF FlattenSeq
<1>2. CASE n # 0
  <2>1. PICK flat : Flattens(flat, ss) /\ FlattenSeq(ss) = flat[n]
    BY <1>2, FlattenUnfolds
  <2> DEFINE T == {k \in 0 .. n : k # 0 => /\ flat[k] \in Seq(Ops)
                                           /\ Leads(kind, v[0], flat[k], v[k])}
  <2>2. 0 \in T
    OBVIOUS
  <2>3. ASSUME NEW k \in 0 .. n - 1, k \in T PROVE k + 1 \in T
    <3>1. k + 1 \in 1 .. n /\ (k + 1) - 1 = k /\ k + 1 \in 0 .. n /\ (k + 1 = 1 <=> k = 0)
      OBVIOUS
    <3>2. flat[k + 1] = IF k = 0 THEN ss[k + 1] ELSE flat[k] \o ss[k + 1]
      BY <2>1, <3>1 DEF Flattens
    <3>3. ss[k + 1] \in Seq(Ops) /\ Leads(kind, v[k], ss[k + 1], v[k + 1])
      BY <3>1
    <3>4. flat[k + 1] \in Seq(Ops)
      BY <2>3, <3>2, <3>3, ConcatProperties
    <3>5. Leads(kind, v[0], flat[k + 1], v[k + 1])
      <4>1. CASE k = 0
        BY <3>2, <3>3, <4>1
      <4>2. CASE k # 0
        <5>1. flat[k] \in Seq(Ops) /\ Leads(kind, v[0], flat[k], v[k])
          BY <2>3, <4>2
        <5> QED
          BY <3>2, <3>3, <4>2, <5>1, LeadsThen
      <4> QED
        BY <4>1, <4>2
    <3> QED
      BY <3>1, <3>4, <3>5
  <2>4. n \in T
    <3> HIDE DEF T
    <3>1. \A k \in 0 .. n : k \in T
      BY <2>2, <2>3, StretchInduction
    <3> QED
      BY <3>1
  <2> QED
    BY <1>2, <2>1, <2>4
<1> QED
  BY <1>1, <1>2

\* Where the operations of two programs are in the whole.
LEMMA ConcatIndex ==
  ASSUME NEW a \in Seq(Ops), NEW b \in Seq(Ops)
  PROVE  /\ a \o b \in Seq(Ops) /\ Len(a \o b) = Len(a) + Len(b)
         /\ \A i \in 1 .. Len(a) : (a \o b)[i] = a[i]
         /\ \A i \in 1 .. Len(b) : (a \o b)[Len(a) + i] = b[i]
OBVIOUS

\* One operation before two, ...
LEMMA OneAndTwo ==
  ASSUME NEW o \in Ops, NEW p \in Ops
  PROVE  <<o>> \o <<p>> = <<o, p>>
<1> DEFINE a == <<o>>
           b == <<p>>
           c == <<o, p>>
<1>1. /\ a \in Seq(Ops) /\ Len(a) = 1 /\ a[1] = o
      /\ b \in Seq(Ops) /\ Len(b) = 1 /\ b[1] = p
      /\ c \in Seq(Ops) /\ Len(c) = 2 /\ c[1] = o /\ c[2] = p
  OBVIOUS
<1> HIDE DEF a, b, c
<1>2. a \o b \in Seq(Ops) /\ Len(a \o b) = 2 /\ (a \o b)[1] = o /\ (a \o b)[2] = p
  <2>1. 1 \in 1 .. Len(a) /\ 1 \in 1 .. Len(b) /\ Len(a) + 1 = 2
    BY <1>1
  <2>2. /\ a \o b \in Seq(Ops) /\ Len(a \o b) = Len(a) + Len(b)
        /\ \A i \in 1 .. Len(a) : (a \o b)[i] = a[i]
        /\ \A i \in 1 .. Len(b) : (a \o b)[Len(a) + i] = b[i]
    BY <1>1, ConcatIndex
  <2>3. (a \o b)[1] = a[1] /\ (a \o b)[Len(a) + 1] = b[1]
    BY <2>1, <2>2
  <2> QED
    BY <1>1, <2>1, <2>2, <2>3
<1>3. \A i \in 1 .. Len(c) : (a \o b)[i] = c[i]
  <2>1. \A i \in 1 .. Len(c) : i = 1 \/ i = 2
    BY <1>1
  <2> QED
    BY <1>1, <1>2, <2>1
<1>4. a \o b = c
  BY <1>1, <1>2, <1>3, SeqEqual
<1> QED
  BY <1>4 DEF a, b, c

\* ... a program in front of one operation more.
LEMMA TwoAndOne ==
  ASSUME NEW o \in Ops, NEW p \in Ops, NEW q \in Ops
  PROVE  <<o, p>> \o <<q>> = <<o, p, q>> /\ <<o>> \o <<p, q>> = <<o, p, q>>
<1> DEFINE a == <<o, p>>
           b == <<q>>
           c == <<o, p, q>>
           d == <<o>>
           e == <<p, q>>
<1>1. /\ a \in Seq(Ops) /\ Len(a) = 2 /\ a[1] = o /\ a[2] = p
      /\ b \in Seq(Ops) /\ Len(b) = 1 /\ b[1] = q
      /\ d \in Seq(Ops) /\ Len(d) = 1 /\ d[1] = o
      /\ e \in Seq(Ops) /\ Len(e) = 2 /\ e[1] = p /\ e[2] = q
      /\ c \in Seq(Ops) /\ Len(c) = 3 /\ c[1] = o /\ c[2] = p /\ c[3] = q
  OBVIOUS
<1> HIDE DEF a, b, c, d, e
<1>2. \A i \in 1 .. Len(c) : i = 1 \/ i = 2 \/ i = 3
  BY <1>1
<1>3. a \o b = c
  <2>1. a \o b \in Seq(Ops) /\ Len(a \o b) = 3 /\ (a \o b)[1] = o /\ (a \o b)[2] = p
        /\ (a \o b)[3] = q
    <3>1. 1 \in 1 .. Len(a) /\ 2 \in 1 .. Len(a) /\ 1 \in 1 .. Len(b) /\ Len(a) + 1 = 3
      BY <1>1
    <3>2. /\ a \o b \in Seq(Ops) /\ Len(a \o b) = Len(a) + Len(b)
          /\ \A i \in 1 .. Len(a) : (a \o b)[i] = a[i]
          /\ \A i \in 1 .. Len(b) : (a \o b)[Len(a) + i] = b[i]
      BY <1>1, ConcatIndex
    <3>3. (a \o b)[1] = a[1] /\ (a \o b)[2] = a[2] /\ (a \o b)[Len(a) + 1] = b[1]
      BY <3>1, <3>2
    <3> QED
      BY <1>1, <3>1, <3>2, <3>3
  <2>2. \A i \in 1 .. Len(c) : (a \o b)[i] = c[i]
    BY <1>1, <1>2, <2>1
  <2> QED
    BY <1>1, <2>1, <2>2, SeqEqual
<1>4. d \o e = c
  <2>1. d \o e \in Seq(Ops) /\ Len(d \o e) = 3 /\ (d \o e)[1] = o /\ (d \o e)[2] = p
        /\ (d \o e)[3] = q
    <3>1. 1 \in 1 .. Len(d) /\ 1 \in 1 .. Len(e) /\ 2 \in 1 .. Len(e) /\ Len(d) + 1 = 2
          /\ Len(d) + 2 = 3
      BY <1>1
    <3>2. /\ d \o e \in Seq(Ops) /\ Len(d \o e) = Len(d) + Len(e)
          /\ \A i \in 1 .. Len(d) : (d \o e)[i] = d[i]
          /\ \A i \in 1 .. Len(e) : (d \o e)[Len(d) + i] = e[i]
      BY <1>1, ConcatIndex
    <3>3. (d \o e)[1] = d[1] /\ (d \o e)[Len(d) + 1] = e[1] /\ (d \o e)[Len(d) + 2] = e[2]
      BY <3>1, <3>2
    <3> QED
      BY <1>1, <3>1, <3>2, <3>3
  <2>2. \A i \in 1 .. Len(c) : (d \o e)[i] = c[i]
    BY <1>1, <1>2, <2>1
  <2> QED
    BY <1>1, <2>1, <2>2, SeqEqual
<1> QED
  BY <1>3, <1>4 DEF a, b, c, d, e

\* Three and three.
LEMMA ThreeAndThree ==
  ASSUME NEW o \in Ops, NEW p \in Ops, NEW q \in Ops, NEW x \in Ops, NEW y \in Ops,
         NEW z \in Ops
  PROVE  <<o, p, q>> \o <<x, y, z>> = <<o, p, q, x, y, z>>
<1> DEFINE a == <<o, p, q>>
           b == <<x, y, z>>
           c == <<o, p, q, x, y, z>>
<1>1. /\ a \in Seq(Ops) /\ Len(a) = 3 /\ a[1] = o /\ a[2] = p /\ a[3] = q
      /\ b \in Seq(Ops) /\ Len(b) = 3 /\ b[1] = x /\ b[2] = y /\ b[3] = z
      /\ c \in Seq(Ops) /\ Len(c) = 6 /\ c[1] = o /\ c[2] = p /\ c[3] = q
      /\ c[4] = x /\ c[5] = y /\ c[6] = z
  OBVIOUS
<1> HIDE DEF a, b, c
<1>2. /\ a \o b \in Seq(Ops) /\ Len(a \o b) = 6
      /\ (a \o b)[1] = o /\ (a \o b)[2] = p /\ (a \o b)[3] = q
      /\ (a \o b)[4] = x /\ (a \o b)[5] = y /\ (a \o b)[6] = z
  <2>1. /\ 1 \in 1 .. 3 /\ 2 \in 1 .. 3 /\ 3 \in 1 .. 3
        /\ 3 + 1 = 4 /\ 3 + 2 = 5 /\ 3 + 3 = 6
    OBVIOUS
  <2>2. /\ a \o b \in Seq(Ops) /\ Len(a \o b) = Len(a) + Len(b)
        /\ \A i \in 1 .. Len(a) : (a \o b)[i] = a[i]
        /\ \A i \in 1 .. Len(b) : (a \o b)[Len(a) + i] = b[i]
    BY <1>1, ConcatIndex
  <2>3. /\ (a \o b)[1] = a[1] /\ (a \o b)[2] = a[2] /\ (a \o b)[3] = a[3]
        /\ (a \o b)[3 + 1] = b[1] /\ (a \o b)[3 + 2] = b[2] /\ (a \o b)[3 + 3] = b[3]
    BY <1>1, <2>1, <2>2
  <2> QED
    BY <1>1, <2>1, <2>2, <2>3
<1>3. \A i \in 1 .. Len(c) : (a \o b)[i] = c[i]
  <2>1. \A i \in 1 .. Len(c) : i = 1 \/ i = 2 \/ i = 3 \/ i = 4 \/ i = 5 \/ i = 6
    BY <1>1
  <2> QED
    BY <1>1, <1>2, <2>1
<1>4. a \o b = c
  BY <1>1, <1>2, <1>3, SeqEqual
<1> QED
  BY <1>4 DEF a, b, c

\* Two operations, ...
LEMMA LeadsTwo ==
  ASSUME NEW kind, NEW s, NEW o \in Ops, NEW t, NEW p \in Ops, NEW u,
         Move(kind, o, s, t), Move(kind, p, t, u)
  PROVE  Leads(kind, s, <<o, p>>, u)
<1>1. Leads(kind, s, <<o>>, t) /\ Leads(kind, t, <<p>>, u)
  BY LeadsOne
<1>2. <<o>> \in Seq(Ops) /\ <<p>> \in Seq(Ops) /\ <<o>> \o <<p>> = <<o, p>>
  BY OneAndTwo
<1>3. Leads(kind, s, <<o>> \o <<p>>, u)
  BY <1>1, <1>2, LeadsThen
<1> QED
  BY <1>2, <1>3

\* ... three ...
LEMMA LeadsThree ==
  ASSUME NEW kind, NEW s, NEW o \in Ops, NEW t, NEW p \in Ops, NEW u, NEW q \in Ops, NEW v,
         Move(kind, o, s, t), Move(kind, p, t, u), Move(kind, q, u, v)
  PROVE  Leads(kind, s, <<o, p, q>>, v)
<1>1. Leads(kind, s, <<o, p>>, u) /\ Leads(kind, u, <<q>>, v)
  BY LeadsOne, LeadsTwo
<1>a. <<o, p>> \in Seq(Ops) /\ <<q>> \in Seq(Ops)
  OBVIOUS
<1>2. <<o, p>> \in Seq(Ops) /\ <<q>> \in Seq(Ops) /\ <<o, p>> \o <<q>> = <<o, p, q>>
  BY <1>a, TwoAndOne
<1>3. Leads(kind, s, <<o, p>> \o <<q>>, v)
  BY <1>1, <1>2, LeadsThen
<1> QED
  BY <1>2, <1>3

\* ... and three more.
LEMMA LeadsSix ==
  ASSUME NEW kind, NEW o \in Ops, NEW p \in Ops, NEW q \in Ops, NEW x \in Ops, NEW y \in Ops,
         NEW z \in Ops, NEW s, NEW u, NEW w,
         Leads(kind, s, <<o, p, q>>, u), Leads(kind, u, <<x, y, z>>, w)
  PROVE  Leads(kind, s, <<o, p, q, x, y, z>>, w)
<1>1. <<o, p, q>> \in Seq(Ops) /\ <<x, y, z>> \in Seq(Ops)
      /\ <<o, p, q>> \o <<x, y, z>> = <<o, p, q, x, y, z>>
  BY ThreeAndThree
<1>2. Leads(kind, s, <<o, p, q>> \o <<x, y, z>>, w)
  BY <1>1, LeadsThen
<1> QED
  BY <1>1, <1>2

\* The blocks of a call without loops, written out.
LEMMA Blocks ==
  /\ WaitSclHigh = <<"scl1", "poll">>
  /\ GenerateStart = <<"sda1", "scl1", "poll", "free", "start", "scl0">>
  /\ GenerateStop = <<"scl0", "sda0", "scl1", "pollstop", "stop", "idle">>
  /\ \A b : WriteBit(b) = <<IF b = 1 THEN "sda1" ELSE "sda0", "scl1", "poll">> \o <<"scl0">>
  /\ ReadBit = <<"sda1", "scl1", "poll">> \o <<"sample", "scl0">>
  /\ ReceiveAck = ReadBit \o <<"ack">>
<1>1. {"sda1", "sda0", "scl1", "poll", "free", "start", "scl0"} \subseteq Ops
  BY DEF Ops
<1>2. <<"sda1">> \o <<"scl1", "poll">> = <<"sda1", "scl1", "poll">>
  BY <1>1, TwoAndOne
<1>3. <<"sda0">> \o <<"scl1", "poll">> = <<"sda0", "scl1", "poll">>
  BY <1>1, TwoAndOne
<1>4. <<"sda1", "scl1", "poll">> \o <<"free", "start", "scl0">>
      = <<"sda1", "scl1", "poll", "free", "start", "scl0">>
  BY <1>1, ThreeAndThree
<1>5. GenerateStart = <<"sda1", "scl1", "poll", "free", "start", "scl0">>
  BY <1>2, <1>4 DEF GenerateStart, WaitSclHigh
<1>6. ASSUME NEW b
      PROVE  WriteBit(b) = <<IF b = 1 THEN "sda1" ELSE "sda0", "scl1", "poll">> \o <<"scl0">>
  <2>1. CASE b = 1
    BY <1>2, <2>1 DEF WriteBit, WaitSclHigh
  <2>2. CASE b # 1
    BY <1>3, <2>2 DEF WriteBit, WaitSclHigh
  <2> QED
    BY <2>1, <2>2
<1>7. ReadBit = <<"sda1", "scl1", "poll">> \o <<"sample", "scl0">>
  BY <1>2 DEF ReadBit, WaitSclHigh
<1> QED
  BY <1>5, <1>6, <1>7 DEF WaitSclHigh, GenerateStop, ReceiveAck

\* All of them are programs.
LEMMA BlockTypes ==
  /\ GenerateStart \in Seq(Ops) /\ GenerateStop \in Seq(Ops) /\ ReadBit \in Seq(Ops)
  /\ \A b : WriteBit(b) \in Seq(Ops)
  /\ ReceiveAck \in Seq(Ops)
  /\ \A v : WriteByte(v) \in Seq(Ops)
  /\ \A ack : ReadByte(ack) \in Seq(Ops)
  /\ \A dest, read : SendAddress(dest, read) \in Seq(Ops)
<1>1. GenerateStart \in Seq(Ops) /\ GenerateStop \in Seq(Ops)
  BY Blocks DEF Ops
<1>2. ReadBit \in Seq(Ops) /\ \A b : WriteBit(b) \in Seq(Ops)
  <2>1. /\ <<"scl0">> \in Seq(Ops) /\ <<"sample", "scl0">> \in Seq(Ops)
        /\ <<"sda1", "scl1", "poll">> \in Seq(Ops)
        /\ <<"sda0", "scl1", "poll">> \in Seq(Ops)
    BY DEF Ops
  <2>2. ReadBit \in Seq(Ops)
    BY <2>1, Blocks, ConcatProperties
  <2>3. ASSUME NEW b PROVE WriteBit(b) \in Seq(Ops)
    BY <2>1, Blocks, ConcatProperties
  <2> QED
    BY <2>2, <2>3
<1>3. ReceiveAck \in Seq(Ops)
  <2>1. <<"ack">> \in Seq(Ops)
    BY DEF Ops
  <2> QED
    BY <1>2, <2>1, Blocks, ConcatProperties
<1>4. Width \in Nat
  BY BusAssumption
<1>5. ASSUME NEW v PROVE WriteByte(v) \in Seq(Ops)
  <2> DEFINE ss == [i \in 1 .. Width |-> WriteBit(Bit(v, i))]
  <2>1. Len(ss) = Width /\ (Width = 0 => ss = <<>>) /\ \A i \in 1 .. Width : ss[i] \in Seq(Ops)
    BY <1>2, <1>4
  <2> HIDE DEF ss
  <2>2. FlattenSeq(ss) \in Seq(Ops)
    BY <1>4, <2>1, FlattenType
  <2> QED
    BY <1>3, <2>2, ConcatProperties DEF WriteByte, ss
<1>6. ASSUME NEW ack PROVE ReadByte(ack) \in Seq(Ops)
  <2> DEFINE ss == [i \in 1 .. Width |-> ReadBit]
             last == WriteBit(IF ack THEN 0 ELSE 1)
  <2>1. Len(ss) = Width /\ (Width = 0 => ss = <<>>) /\ \A i \in 1 .. Width : ss[i] \in Seq(Ops)
    BY <1>2, <1>4
  <2>2. <<"byte">> \in Seq(Ops)
    BY DEF Ops
  <2>3. last \in Seq(Ops)
    BY <1>2
  <2> HIDE DEF ss, last
  <2>4. FlattenSeq(ss) \in Seq(Ops)
    BY <1>4, <2>1, FlattenType
  <2>5. FlattenSeq(ss) \o last \o <<"byte">> \in Seq(Ops)
    BY <2>2, <2>3, <2>4, ConcatProperties
  <2> QED
    BY <2>5 DEF ReadByte, ss, last
<1> QED
  BY <1>1, <1>2, <1>3, <1>5, <1>6 DEF SendAddress

-----------------------------------------------------------------------------
(* What the blocks do to the lines. *)

View(msda, mscl, armed) == [msda |-> msda, mscl |-> mscl, armed |-> armed]

\* What each operation does to the lines.
LEMMA LineMoves ==
  ASSUME NEW a, NEW b, NEW c
  PROVE  /\ b = 0 => Move(Lines, "sda0", View(a, b, c), View(0, b, c))
         /\ b = 0 \/ a = 1 => Move(Lines, "sda1", View(a, b, c), View(1, b, c))
         /\ Move(Lines, "start", View(a, b, c), View(0, b, c))
         /\ Move(Lines, "stop", View(a, b, c), View(1, b, c))
         /\ Move(Lines, "scl0", View(a, b, c), View(a, 0, c))
         /\ Move(Lines, "scl1", View(a, b, c), View(a, 1, c))
         /\ c = 1 \/ (a = 1 /\ b = 1) => Move(Lines, "poll", View(a, b, c), View(a, b, c))
         /\ c = 1 \/ (a = 1 /\ b = 1) => Move(Lines, "free", View(a, b, c), View(a, b, c))
         /\ b = 1 => Move(Lines, "pollstop", View(a, b, c), View(a, b, c))
         /\ a = 1 /\ b = 1 => Move(Lines, "idle", View(a, b, c), View(a, b, c))
         /\ a = 1 /\ b = 1 => Move(Lines, "boot", View(a, b, c), View(a, b, c))
         /\ a = 1 /\ b = 1 => Move(Lines, "quit", View(a, b, c), View(a, b, c))
         /\ a = 1 /\ b = 1 => Move(Lines, "break", View(a, b, c), View(a, b, c))
         /\ Move(Lines, "sample", View(a, b, c), View(a, b, c))
         /\ Move(Lines, "byte", View(a, b, c), View(a, b, c))
         /\ c = 1 => Move(Lines, "ack", View(a, b, c), View(a, b, c))
         /\ Move(Lines, "active", View(a, b, c), View(a, b, 1))
<1> DEFINE s == View(a, b, c)
<1>1. s.msda = a /\ s.mscl = b /\ s.armed = c
  BY DEF View
<1>2. /\ [s EXCEPT !.msda = 0] = View(0, b, c) /\ [s EXCEPT !.msda = 1] = View(1, b, c)
      /\ [s EXCEPT !.mscl = 0] = View(a, 0, c) /\ [s EXCEPT !.mscl = 1] = View(a, 1, c)
      /\ [s EXCEPT !.armed = 1] = View(a, b, 1)
  BY DEF View
<1> HIDE DEF s
<1>3. Lines.name = "lines"
  BY DEF Lines
<1>4. /\ b = 0 => Move(Lines, "sda0", s, View(0, b, c))
      /\ b = 0 \/ a = 1 => Move(Lines, "sda1", s, View(1, b, c))
      /\ Move(Lines, "start", s, View(0, b, c))
      /\ Move(Lines, "stop", s, View(1, b, c))
      /\ Move(Lines, "scl0", s, View(a, 0, c))
      /\ Move(Lines, "scl1", s, View(a, 1, c))
  BY <1>1, <1>2, <1>3 DEF Move, LineMove
<1>5. c = 1 \/ (a = 1 /\ b = 1) => Move(Lines, "poll", s, s) /\ Move(Lines, "free", s, s)
  BY <1>1, <1>3 DEF Move, LineMove, Let
<1>6. /\ b = 1 => Move(Lines, "pollstop", s, s)
      /\ a = 1 /\ b = 1 => Move(Lines, "idle", s, s)
      /\ a = 1 /\ b = 1 => Move(Lines, "boot", s, s)
      /\ a = 1 /\ b = 1 => Move(Lines, "quit", s, s)
      /\ a = 1 /\ b = 1 => Move(Lines, "break", s, s)
  BY <1>1, <1>3 DEF Move, LineMove, Let
<1>7. Move(Lines, "sample", s, s) /\ Move(Lines, "byte", s, s)
  BY <1>3 DEF Move, LineMove
<1>8. c = 1 => Move(Lines, "ack", s, s)
  BY <1>1, <1>3 DEF Move, LineMove
<1>9. Move(Lines, "active", s, View(a, b, 1))
  BY <1>2, <1>3 DEF Move, LineMove
<1> QED
  BY <1>4, <1>5, <1>6, <1>7, <1>8, <1>9 DEF s

\* START, from a bus on which SDA may be let go.
LEMMA StartLines ==
  ASSUME NEW a \in {0, 1}, NEW b \in {0, 1}, NEW c, b = 0 \/ a = 1
  PROVE  Leads(Lines, View(a, b, c), GenerateStart, View(0, 0, c))
<1>1. /\ Move(Lines, "sda1", View(a, b, c), View(1, b, c))
      /\ Move(Lines, "scl1", View(1, b, c), View(1, 1, c))
      /\ Move(Lines, "poll", View(1, 1, c), View(1, 1, c))
      /\ Move(Lines, "free", View(1, 1, c), View(1, 1, c))
      /\ Move(Lines, "start", View(1, 1, c), View(0, 1, c))
      /\ Move(Lines, "scl0", View(0, 1, c), View(0, 0, c))
  BY LineMoves
<1>2. {"sda1", "scl1", "poll", "free", "start", "scl0"} \subseteq Ops
  BY DEF Ops
<1>3. Leads(Lines, View(a, b, c), <<"sda1", "scl1", "poll">>, View(1, 1, c))
  BY <1>1, <1>2, LeadsThree
<1>4. Leads(Lines, View(1, 1, c), <<"free", "start", "scl0">>, View(0, 0, c))
  BY <1>1, <1>2, LeadsThree
<1> QED
  BY <1>2, <1>3, <1>4, LeadsSix, Blocks

\* STOP, from anywhere.
LEMMA StopLines ==
  ASSUME NEW a, NEW b, NEW c
  PROVE  Leads(Lines, View(a, b, c), GenerateStop, View(1, 1, c))
<1>1. /\ Move(Lines, "scl0", View(a, b, c), View(a, 0, c))
      /\ Move(Lines, "sda0", View(a, 0, c), View(0, 0, c))
      /\ Move(Lines, "scl1", View(0, 0, c), View(0, 1, c))
      /\ Move(Lines, "pollstop", View(0, 1, c), View(0, 1, c))
      /\ Move(Lines, "stop", View(0, 1, c), View(1, 1, c))
      /\ Move(Lines, "idle", View(1, 1, c), View(1, 1, c))
  BY LineMoves
<1>2. {"scl0", "sda0", "scl1", "pollstop", "stop", "idle"} \subseteq Ops
  BY DEF Ops
<1>3. Leads(Lines, View(a, b, c), <<"scl0", "sda0", "scl1">>, View(0, 1, c))
  BY <1>1, <1>2, LeadsThree
<1>4. Leads(Lines, View(0, 1, c), <<"pollstop", "stop", "idle">>, View(1, 1, c))
  BY <1>1, <1>2, LeadsThree
<1> QED
  BY <1>2, <1>3, <1>4, LeadsSix, Blocks

\* A bit written, ...
LEMMA WriteBitLines ==
  ASSUME NEW a, NEW b
  PROVE  Leads(Lines, View(a, 0, 1), WriteBit(b), View(IF b = 1 THEN 1 ELSE 0, 0, 1))
<1> DEFINE d == IF b = 1 THEN 1 ELSE 0
           o == IF b = 1 THEN "sda1" ELSE "sda0"
<1>0. \/ d = 1 /\ o = "sda1"
      \/ d = 0 /\ o = "sda0"
  OBVIOUS
<1>a. WriteBit(b) = <<o, "scl1", "poll">> \o <<"scl0">>
  BY Blocks
<1> HIDE DEF d, o
<1>1. /\ Move(Lines, o, View(a, 0, 1), View(d, 0, 1))
      /\ Move(Lines, "scl1", View(d, 0, 1), View(d, 1, 1))
      /\ Move(Lines, "poll", View(d, 1, 1), View(d, 1, 1))
      /\ Move(Lines, "scl0", View(d, 1, 1), View(d, 0, 1))
  BY <1>0, LineMoves
<1>2. o \in Ops /\ {"scl1", "poll", "scl0"} \subseteq Ops
  BY <1>0 DEF Ops
<1>3. Leads(Lines, View(a, 0, 1), <<o, "scl1", "poll">>, View(d, 1, 1))
  BY <1>1, <1>2, LeadsThree
<1>4. Leads(Lines, View(d, 1, 1), <<"scl0">>, View(d, 0, 1))
  BY <1>1, LeadsOne
<1>5. <<o, "scl1", "poll">> \in Seq(Ops) /\ <<"scl0">> \in Seq(Ops)
  BY <1>2
<1>6. Leads(Lines, View(a, 0, 1), WriteBit(b), View(d, 0, 1))
  BY <1>3, <1>4, <1>5, <1>a, LeadsThen
<1> QED
  BY <1>6 DEF d

\* ... and one read.
LEMMA ReadBitLines ==
  ASSUME NEW a
  PROVE  /\ Leads(Lines, View(a, 0, 1), ReadBit, View(1, 0, 1))
         /\ Leads(Lines, View(a, 0, 1), ReceiveAck, View(1, 0, 1))
<1>1. /\ Move(Lines, "sda1", View(a, 0, 1), View(1, 0, 1))
      /\ Move(Lines, "scl1", View(1, 0, 1), View(1, 1, 1))
      /\ Move(Lines, "poll", View(1, 1, 1), View(1, 1, 1))
      /\ Move(Lines, "sample", View(1, 1, 1), View(1, 1, 1))
      /\ Move(Lines, "scl0", View(1, 1, 1), View(1, 0, 1))
      /\ Move(Lines, "ack", View(1, 0, 1), View(1, 0, 1))
  BY LineMoves
<1>2. {"sda1", "scl1", "poll", "sample", "scl0", "ack"} \subseteq Ops
  BY DEF Ops
<1>3. Leads(Lines, View(a, 0, 1), <<"sda1", "scl1", "poll">>, View(1, 1, 1))
  BY <1>1, <1>2, LeadsThree
<1>4. Leads(Lines, View(1, 1, 1), <<"sample", "scl0">>, View(1, 0, 1))
  BY <1>1, <1>2, LeadsTwo
<1>5. <<"sda1", "scl1", "poll">> \in Seq(Ops) /\ <<"sample", "scl0">> \in Seq(Ops)
      /\ <<"ack">> \in Seq(Ops)
  BY <1>2
<1>6. Leads(Lines, View(a, 0, 1), ReadBit, View(1, 0, 1))
  BY <1>3, <1>4, <1>5, Blocks, LeadsThen
<1>7. Leads(Lines, View(1, 0, 1), <<"ack">>, View(1, 0, 1))
  BY <1>1, LeadsOne
<1>8. Leads(Lines, View(a, 0, 1), ReceiveAck, View(1, 0, 1))
  BY <1>5, <1>6, <1>7, Blocks, BlockTypes, LeadsThen
<1> QED
  BY <1>6, <1>8

\* A byte written ...
LEMMA WriteByteLines ==
  ASSUME NEW a, NEW x
  PROVE  Leads(Lines, View(a, 0, 1), WriteByte(x), View(1, 0, 1))
<1> DEFINE ss == [i \in 1 .. Width |-> WriteBit(Bit(x, i))]
           v == [i \in 0 .. Width |->
                   IF i = 0 THEN View(a, 0, 1) ELSE View(IF Bit(x, i) = 1 THEN 1 ELSE 0, 0, 1)]
<1>1. Width \in Nat \ {0}
  BY BusAssumption
<1>2. Len(ss) = Width /\ (Width = 0 => ss = <<>>) /\ \A i \in 1 .. Width : ss[i] \in Seq(Ops)
  BY <1>1, BlockTypes
<1>3. ASSUME NEW i \in 1 .. Width PROVE Leads(Lines, v[i - 1], ss[i], v[i])
  <2> DEFINE e == IF i - 1 = 0 THEN a ELSE IF Bit(x, i - 1) = 1 THEN 1 ELSE 0
  <2>1. i - 1 \in 0 .. Width /\ i \in 0 .. Width /\ i # 0
    BY <1>1
  <2>2. v[i - 1] = View(e, 0, 1)
    BY <2>1
  <2>3. v[i] = View(IF Bit(x, i) = 1 THEN 1 ELSE 0, 0, 1) /\ ss[i] = WriteBit(Bit(x, i))
    BY <2>1
  <2> HIDE DEF v, ss, e
  <2> QED
    BY <2>2, <2>3, WriteBitLines
<1> DEFINE d == IF Bit(x, Width) = 1 THEN 1 ELSE 0
<1>4. v[0] = View(a, 0, 1) /\ v[Width] = View(d, 0, 1)
  BY <1>1
<1>5. WriteByte(x) = FlattenSeq(ss) \o ReceiveAck
  BY DEF WriteByte
<1> HIDE DEF v, ss, d
<1>6. FlattenSeq(ss) \in Seq(Ops)
  BY <1>1, <1>2, FlattenType
<1>7. Leads(Lines, v[0], FlattenSeq(ss), v[Width])
  BY <1>1, <1>2, <1>3, LeadsAll
<1>8. Leads(Lines, View(d, 0, 1), ReceiveAck, View(1, 0, 1))
  BY ReadBitLines
<1> QED
  BY <1>4, <1>5, <1>6, <1>7, <1>8, BlockTypes, LeadsThen

\* ... and one read.
LEMMA ReadByteLines ==
  ASSUME NEW a, NEW ack \in BOOLEAN
  PROVE  Leads(Lines, View(a, 0, 1), ReadByte(ack), View(IF ack THEN 0 ELSE 1, 0, 1))
<1> DEFINE ss == [i \in 1 .. Width |-> ReadBit]
           v == [i \in 0 .. Width |-> IF i = 0 THEN View(a, 0, 1) ELSE View(1, 0, 1)]
           b == IF ack THEN 0 ELSE 1
<1>1. Width \in Nat \ {0}
  BY BusAssumption
<1>2. Len(ss) = Width /\ (Width = 0 => ss = <<>>) /\ \A i \in 1 .. Width : ss[i] \in Seq(Ops)
  BY <1>1, BlockTypes
<1>3. ASSUME NEW i \in 1 .. Width PROVE Leads(Lines, v[i - 1], ss[i], v[i])
  <2> DEFINE e == IF i - 1 = 0 THEN a ELSE 1
  <2>1. i - 1 \in 0 .. Width /\ i \in 0 .. Width /\ i # 0
    BY <1>1
  <2>2. v[i - 1] = View(e, 0, 1)
    BY <2>1
  <2>3. v[i] = View(1, 0, 1) /\ ss[i] = ReadBit
    BY <2>1
  <2> HIDE DEF v, ss, e
  <2> QED
    BY <2>2, <2>3, ReadBitLines
<1>4. v[0] = View(a, 0, 1) /\ v[Width] = View(1, 0, 1)
  BY <1>1
<1>5. ReadByte(ack) = FlattenSeq(ss) \o WriteBit(b) \o <<"byte">>
  BY DEF ReadByte
<1>b. b \in {0, 1}
  OBVIOUS
<1> HIDE DEF v, ss, b
<1>6. FlattenSeq(ss) \in Seq(Ops) /\ WriteBit(b) \in Seq(Ops)
  BY <1>1, <1>2, FlattenType, BlockTypes
<1>7. Leads(Lines, v[0], FlattenSeq(ss), v[Width])
  BY <1>1, <1>2, <1>3, LeadsAll
<1>8. Leads(Lines, View(1, 0, 1), WriteBit(b), View(b, 0, 1))
  <2>1. b = IF b = 1 THEN 1 ELSE 0
    BY <1>b
  <2> QED
    BY <2>1, WriteBitLines
<1>9. <<"byte">> \in Seq(Ops) /\ Leads(Lines, View(b, 0, 1), <<"byte">>, View(b, 0, 1))
  <2>1. Move(Lines, "byte", View(b, 0, 1), View(b, 0, 1))
    BY LineMoves
  <2>2. <<"byte">> \in Seq(Ops)
    BY DEF Ops
  <2> QED
    BY <2>1, <2>2, LeadsOne
<1>10. Leads(Lines, View(a, 0, 1), FlattenSeq(ss) \o WriteBit(b), View(b, 0, 1))
       /\ FlattenSeq(ss) \o WriteBit(b) \in Seq(Ops)
  BY <1>4, <1>6, <1>7, <1>8, LeadsThen, ConcatProperties
<1>11. Leads(Lines, View(a, 0, 1), ReadByte(ack), View(b, 0, 1))
  BY <1>5, <1>9, <1>10, LeadsThen
<1> QED
  BY <1>11 DEF b

-----------------------------------------------------------------------------
(* The device. *)

\* While it is busy it listens to nobody, what it has received is on its way
\* into the memory or to come, and it pulls a line only in a transfer.
DeviceInv ==
  /\ BusTypeOK
  /\ Hears(dev) /\ dev.n <= Width => dev.sh < 2 ^ dev.n
  /\ Hears(dev) /\ dev.n = Width + 1 => dev.sh = 0
  /\ dev.st = "word" => dev.words < AddressWidth
  /\ dev.busy => dev.st = "idle"
  /\ dev.page # <<>> => dev.busy \/ dev.st = "data"
  /\ dev.st = "idle" => ~bus.hold /\ bus.dsda = 1
  /\ ~SCL(bus) => bus.dsda = Out(dev, mem) /\ dev.n <= Width

\* Powers of two, up to the width of a byte.
LEMMA PowerFacts ==
  /\ Width \in Nat \ {0, 1}
  /\ \A i \in 0 .. Width : 2 ^ i \in Nat \ {0} /\ 2 ^ i <= 2 ^ Width
  /\ \A i \in 0 .. Width - 1 : 2 ^ (i + 1) = 2 * 2 ^ i
<1>1. Width \in Nat \ {0, 1}
  BY BusAssumption
<1>2. 2 ^ 0 = 1 /\ \A i \in 0 .. Width : 2 ^ i \in Nat /\ 2 ^ (i + 1) = 2 * 2 ^ i
  BY PowerAssumption
<1> DEFINE T == {i \in 0 .. Width : 2 ^ i # 0}
           U == {i \in 0 .. Width : 2 ^ (Width - i) <= 2 ^ Width}
<1>3. 0 \in T /\ 0 \in U
  <2>1. 0 \in 0 .. Width /\ Width \in 0 .. Width /\ Width - 0 = Width
    BY <1>1
  <2> QED
    BY <1>2, <2>1
<1>4. ASSUME NEW k \in 0 .. Width - 1, k \in T PROVE k + 1 \in T
  <2>1. k \in 0 .. Width /\ k + 1 \in 0 .. Width
    BY <1>1
  <2>2. 2 ^ k \in Nat /\ 2 ^ k # 0 /\ 2 ^ (k + 1) = 2 * 2 ^ k
    BY <1>2, <1>4, <2>1
  <2> QED
    BY <2>1, <2>2
<1>5. ASSUME NEW k \in 0 .. Width - 1, k \in U PROVE k + 1 \in U
  <2> DEFINE j == Width - (k + 1)
  <2>1. j \in 0 .. Width /\ Width - k \in 0 .. Width /\ j + 1 = Width - k /\ k + 1 \in 0 .. Width
        /\ Width \in 0 .. Width
    BY <1>1
  <2> HIDE DEF j
  <2>2. 2 ^ j \in Nat /\ 2 ^ (j + 1) = 2 * 2 ^ j /\ 2 ^ Width \in Nat
    BY <1>2, <2>1
  <2>3. 2 ^ (Width - k) <= 2 ^ Width
    BY <1>5
  <2>4. 2 ^ j <= 2 ^ Width
    BY <2>1, <2>2, <2>3
  <2> QED
    BY <2>1, <2>4 DEF j
<1> HIDE DEF T, U
<1>6. \A i \in 0 .. Width : i \in T
  BY <1>1, <1>3, <1>4, StretchInduction
<1>7. \A i \in 0 .. Width : i \in U
  BY <1>1, <1>3, <1>5, StretchInduction
<1>8. ASSUME NEW i \in 0 .. Width PROVE 2 ^ i <= 2 ^ Width
  <2>1. Width - i \in 0 .. Width /\ Width - (Width - i) = i
    BY <1>1
  <2> QED
    BY <1>7, <2>1 DEF U
<1>9. \A i \in 0 .. Width - 1 : i \in 0 .. Width
  BY <1>1
<1> QED
  BY <1>1, <1>2, <1>6, <1>8, <1>9 DEF T

\* Quotients and remainders of natural numbers are natural numbers.
LEMMA Division ==
  ASSUME NEW v \in Nat, NEW d \in Nat \ {0}
  PROVE  v \div d \in Nat /\ v % d \in 0 .. d - 1
OBVIOUS

\* A bit is 0 or 1.
LEMMA BitRange ==
  ASSUME NEW v \in Nat, NEW i \in 1 .. Width
  PROVE  Bit(v, i) \in {0, 1}
<1>1. Width - i \in 0 .. Width
  BY PowerFacts
<1>2. 2 ^ (Width - i) \in Nat \ {0}
  BY <1>1, PowerFacts
<1>3. v \div 2 ^ (Width - i) \in Nat
  BY <1>2, Division
<1> QED
  BY <1>3 DEF Bit

\* The output of the device is a level.
LEMMA OutRange ==
  ASSUME NEW d, NEW m, d.n \in Nat, d.ptr \in 0 .. Cells - 1, m \in [0 .. Cells - 1 -> Byte]
  PROVE  Out(d, m) \in {0, 1}
<1>1. 2 ^ Width \in Nat
  BY PowerFacts
<1>2. m[d.ptr] \in Nat
  BY <1>1 DEF Byte
<1>3. d.n < Width => d.n + 1 \in 1 .. Width
  BY PowerFacts
<1>4. d.n < Width => Bit(m[d.ptr], d.n + 1) \in {0, 1}
  BY <1>2, <1>3, BitRange
<1> QED
  BY <1>4 DEF Out

Levels == [msda : {0, 1}, mscl : {0, 1}, dsda : {0, 1}, hold : BOOLEAN]

\* What the device is when a START, a STOP, or an edge of the clock has been seen.
LEMMA StartKeeps ==
  ASSUME DeviceInv, NEW b \in Levels, SCL(b), StartSeen(b)
  PROVE  DeviceInv'
<1>1. /\ bus' = [b EXCEPT !.dsda = 1] /\ mem' = mem /\ stretches' = stretches
      /\ dev' = [dev EXCEPT !.st = IF dev.busy THEN "idle" ELSE "addr", !.n = 0, !.sh = 0,
                            !.page = IF dev.busy THEN @ ELSE <<>>]
  BY DEF StartSeen
<1>2. 0 \in Byte /\ 0 \in 0 .. Width + 1 /\ 2 ^ 0 = 1 /\ <<>> \in Seq(Byte)
  BY PowerFacts, PowerAssumption DEF Byte
<1>3. BusTypeOK'
  BY <1>1, <1>2 DEF DeviceInv, BusTypeOK, Levels
<1>4. /\ dev'.st = (IF dev.busy THEN "idle" ELSE "addr") /\ dev'.n = 0 /\ dev'.sh = 0
      /\ dev'.page = (IF dev.busy THEN dev.page ELSE <<>>) /\ dev'.busy = dev.busy
  BY <1>1 DEF DeviceInv, BusTypeOK
<1>5. SCL(bus)' /\ ~bus'.hold /\ bus'.dsda = 1
  BY <1>1 DEF SCL, Levels
<1> QED
  BY <1>2, <1>3, <1>4, <1>5 DEF DeviceInv, Hears

\* A STOP.
LEMMA StopKeeps ==
  ASSUME DeviceInv, NEW b \in Levels, SCL(b), StopSeen(b)
  PROVE  DeviceInv'
<1>1. /\ bus' = [b EXCEPT !.dsda = 1] /\ mem' = mem /\ stretches' = stretches
      /\ dev' = [dev EXCEPT !.st = "idle", !.n = 0, !.busy = @ \/ dev.page # <<>>]
  BY DEF StopSeen
<1>2. 0 \in 0 .. Width + 1
  BY PowerFacts
<1>3. BusTypeOK'
  BY <1>1, <1>2 DEF DeviceInv, BusTypeOK, Levels
<1>4. /\ dev'.st = "idle" /\ dev'.page = dev.page /\ dev'.busy = (dev.busy \/ dev.page # <<>>)
  BY <1>1 DEF DeviceInv, BusTypeOK
<1>5. SCL(bus)' /\ ~bus'.hold /\ bus'.dsda = 1
  BY <1>1 DEF SCL, Levels
<1> QED
  BY <1>3, <1>4, <1>5 DEF DeviceInv, Hears

\* The level of SDA.
Level(b) == IF SDA(b) THEN 1 ELSE 0

\* The cases of Clocked, as a function of the device and the level of SDA.
LEMMA EdgeCases ==
  ASSUME NEW b, Clocked(b)
  PROVE  bus' = b /\ mem' = mem /\ stretches' = stretches /\ dev' = AtEdge(dev, Level(b))
<1>1. Receiving <=> Hears(dev)
  BY DEF Receiving, Hears
<1>2. Matches <=> dev.sh \div 2 = TargetAddr
  BY DEF Matches
<1>3. SDA(b) <=> Level(b) = 1
  BY DEF Level
<1>4. Taken = ByteTaken(dev)
  BY <1>2 DEF Taken, ByteTaken
<1>5. /\ bus' = b /\ UNCHANGED <<mem, stretches>>
      /\ dev' = CASE Receiving /\ dev.n < Width ->
                      [dev EXCEPT !.n = @ + 1, !.sh = 2 * @ + (IF SDA(b) THEN 1 ELSE 0)]
                 [] Receiving /\ dev.n = Width -> Taken
                 [] dev.st = "read" /\ dev.n < Width -> [dev EXCEPT !.n = @ + 1]
                 [] dev.st = "read" /\ dev.n = Width ->
                      IF SDA(b) THEN [dev EXCEPT !.st = "idle"]
                      ELSE [dev EXCEPT !.n = Width + 1, !.ptr = (@ + 1) % Cells]
                 [] OTHER -> dev
  BY DEF Clocked
<1>6. Hears(dev) => dev.st # "read"
  BY DEF Hears
<1> DEFINE taken == Taken
           receiving == Receiving
           hears == Hears(dev)
<1>7. dev.n < Width => dev.n # Width
  BY PowerFacts
<1>8. /\ hears /\ dev.n < Width => dev' = BitHeard(dev, Level(b))
      /\ hears /\ dev.n = Width => dev' = ByteTaken(dev)
      /\ ~hears /\ dev.st = "read" /\ dev.n < Width => dev' = [dev EXCEPT !.n = @ + 1]
      /\ ~hears /\ dev.st = "read" /\ dev.n = Width => dev' = AckHeard(dev, Level(b))
      /\ ~(hears /\ dev.n < Width) /\ ~(hears /\ dev.n = Width)
         /\ ~(dev.st = "read" /\ dev.n < Width) /\ ~(dev.st = "read" /\ dev.n = Width)
           => dev' = dev
  <2>1. taken = ByteTaken(dev) /\ (receiving <=> hears) /\ (hears => dev.st # "read")
    BY <1>1, <1>4, <1>6
  <2>2. dev' = CASE receiving /\ dev.n < Width ->
                      [dev EXCEPT !.n = @ + 1, !.sh = 2 * @ + (IF SDA(b) THEN 1 ELSE 0)]
                 [] receiving /\ dev.n = Width -> taken
                 [] dev.st = "read" /\ dev.n < Width -> [dev EXCEPT !.n = @ + 1]
                 [] dev.st = "read" /\ dev.n = Width ->
                      IF SDA(b) THEN [dev EXCEPT !.st = "idle"]
                      ELSE [dev EXCEPT !.n = Width + 1, !.ptr = (@ + 1) % Cells]
                 [] OTHER -> dev
    BY <1>5
  <2> HIDE DEF taken, receiving, hears
  <2>3. CASE hears /\ dev.n < Width
    BY <1>7, <2>1, <2>2, <2>3 DEF BitHeard, Level
  <2>4. CASE hears /\ dev.n = Width
    BY <1>7, <2>1, <2>2, <2>4
  <2>5. CASE ~hears /\ dev.st = "read" /\ dev.n < Width
    BY <1>7, <2>1, <2>2, <2>5
  <2>6. CASE ~hears /\ dev.st = "read" /\ dev.n = Width
    BY <1>3, <1>7, <2>1, <2>2, <2>6 DEF AckHeard
  <2>7. CASE ~(hears /\ dev.n < Width) /\ ~(hears /\ dev.n = Width)
             /\ ~(dev.st = "read" /\ dev.n < Width) /\ ~(dev.st = "read" /\ dev.n = Width)
    BY <2>1, <2>2, <2>7
  <2> QED
    BY <2>1, <2>3, <2>4, <2>5, <2>6, <2>7
<1> QED
  BY <1>5, <1>6, <1>8 DEF AtEdge

\* What an edge leaves of the device: the facts of DeviceInv for a device d whose clock
\* is high.
Sound(d, b) ==
  /\ d \in [st : {"idle", "addr", "word", "data", "read"}, n : 0 .. Width + 1, sh : Byte,
            words : 0 .. AddressWidth, ptr : 0 .. Cells - 1, page : Seq(Byte), busy : BOOLEAN]
  /\ Hears(d) /\ d.n <= Width => d.sh < 2 ^ d.n
  /\ Hears(d) /\ d.n = Width + 1 => d.sh = 0
  /\ d.st = "word" => d.words < AddressWidth
  /\ d.busy => d.st = "idle"
  /\ d.page # <<>> => d.busy \/ d.st = "data"
  /\ d.st = "idle" => b.dsda = 1

\* The device at an edge, with SDA as it and the master hold it.
LEMMA EdgeSound ==
  ASSUME NEW d, NEW b \in Levels, Sound(d, b), NEW m, b.dsda = Out(d, m)
  PROVE  Sound(AtEdge(d, Level(b)), b)
<1> DEFINE e == AtEdge(d, Level(b))
<1>1. /\ Width \in Nat \ {0, 1} /\ 2 ^ Width \in Nat \ {0} /\ AddressWidth \in {1, 2}
      /\ Cells \in Nat \ {0}
  BY PowerFacts, BusAssumption
<1>2. /\ d.n \in 0 .. Width + 1 /\ d.sh \in Byte /\ d.words \in 0 .. AddressWidth
      /\ d.ptr \in 0 .. Cells - 1 /\ d.page \in Seq(Byte) /\ d.busy \in BOOLEAN
      /\ d.st \in {"idle", "addr", "word", "data", "read"}
  BY DEF Sound
<1>3. Level(b) \in {0, 1} /\ (Level(b) = 1 => b.dsda = 1)
  BY DEF Level, SDA
<1>4. 0 \in Byte /\ Width + 1 \in 0 .. Width + 1 /\ 0 \in 0 .. AddressWidth /\ 0 \in 0 .. Cells - 1
      /\ 0 < AddressWidth /\ ~(Width + 1 <= Width)
  BY <1>1 DEF Byte
<1>5. CASE Hears(d) /\ d.n < Width
  <2>1. e = BitHeard(d, Level(b))
    BY <1>5 DEF AtEdge
  <2> DEFINE n == d.n + 1
             sh == 2 * d.sh + Level(b)
  <2>2. n \in 0 .. Width /\ n \in 0 .. Width + 1 /\ n <= Width /\ d.n \in 0 .. Width - 1
        /\ d.n \in 0 .. Width
    BY <1>1, <1>2, <1>5
  <2>3. 2 ^ n = 2 * 2 ^ d.n /\ 2 ^ n <= 2 ^ Width /\ 2 ^ d.n \in Nat
    BY <2>2, PowerFacts
  <2>4. d.sh \in Nat /\ d.sh < 2 ^ d.n
    BY <1>1, <1>2, <1>5, <2>2 DEF Byte, Sound
  <2>5. sh \in Nat /\ sh < 2 ^ n
    <3> HIDE DEF n
    <3> QED
      BY <1>3, <2>3, <2>4
  <2>6. sh \in Byte
    <3> HIDE DEF n, sh
    <3> QED
      BY <1>1, <2>2, <2>3, <2>5 DEF Byte
  <2>7. e = [d EXCEPT !.n = n, !.sh = sh]
    BY <2>1 DEF BitHeard
  <2> HIDE DEF n, sh, e
  <2>8. e.st = d.st /\ e.n = n /\ e.sh = sh /\ e.words = d.words /\ e.page = d.page
        /\ e.busy = d.busy /\ n # Width + 1
    BY <1>1, <2>2, <2>7 DEF Sound
  <2>9. e \in [st : {"idle", "addr", "word", "data", "read"}, n : 0 .. Width + 1, sh : Byte,
               words : 0 .. AddressWidth, ptr : 0 .. Cells - 1, page : Seq(Byte), busy : BOOLEAN]
    BY <2>2, <2>6, <2>7 DEF Sound
  <2> QED
    BY <2>5, <2>8, <2>9 DEF Sound, Hears, e
<1>6. CASE Hears(d) /\ d.n = Width
  <2>1. e = ByteTaken(d)
    BY <1>1, <1>6 DEF AtEdge
  <2>2. CASE d.st = "addr" /\ d.sh \div 2 = TargetAddr
    <3>1. \/ e = [d EXCEPT !.n = Width + 1, !.sh = 0, !.st = "read"]
          \/ e = [d EXCEPT !.n = Width + 1, !.sh = 0, !.st = "word", !.words = 0, !.ptr = 0]
      BY <2>1, <2>2 DEF ByteTaken
    <3> HIDE DEF e
    <3>2. e.st \in {"read", "word"} /\ e.n = Width + 1 /\ e.sh = 0 /\ e.page = d.page
          /\ e.busy = d.busy
          /\ (e.st = "word" => e.words = 0)
      BY <3>1 DEF Sound
    <3>3. e \in [st : {"idle", "addr", "word", "data", "read"}, n : 0 .. Width + 1, sh : Byte,
                 words : 0 .. AddressWidth, ptr : 0 .. Cells - 1, page : Seq(Byte), busy : BOOLEAN]
      BY <1>4, <3>1 DEF Sound
    <3>4. d.page = <<>> /\ ~d.busy
      BY <2>2 DEF Sound
    <3> QED
      BY <1>4, <3>2, <3>3, <3>4 DEF Sound, Hears, e
  <2>3. CASE d.st = "word"
    <3> DEFINE ptr == (d.ptr * 2 ^ Width + d.sh) % Cells
               words == d.words + 1
               st == IF words = AddressWidth THEN "data" ELSE "word"
    <3>1. e = [d EXCEPT !.n = Width + 1, !.sh = 0, !.ptr = ptr, !.words = words, !.st = st]
      BY <2>1, <2>3 DEF ByteTaken
    <3>2. ptr \in 0 .. Cells - 1
      <4>1. d.ptr \in Nat /\ d.sh \in Nat
        BY <1>1, <1>2 DEF Byte
      <4>2. d.ptr * 2 ^ Width \in Nat
        BY <1>1, <4>1
      <4>3. d.ptr * 2 ^ Width + d.sh \in Nat
        BY <4>1, <4>2
      <4> QED
        BY <1>1, <4>3, Division
    <3>3. words \in 0 .. AddressWidth /\ (st = "word" => words < AddressWidth)
          /\ st \in {"word", "data"}
      BY <1>1, <1>2, <2>3 DEF Sound
    <3> HIDE DEF ptr, words, st, e
    <3>4. e.st = st /\ e.n = Width + 1 /\ e.sh = 0 /\ e.page = d.page
          /\ e.busy = d.busy /\ e.words = words
      BY <3>1 DEF Sound
    <3>5. e \in [st : {"idle", "addr", "word", "data", "read"}, n : 0 .. Width + 1, sh : Byte,
                 words : 0 .. AddressWidth, ptr : 0 .. Cells - 1, page : Seq(Byte), busy : BOOLEAN]
      BY <1>4, <3>1, <3>2, <3>3 DEF Sound
    <3>6. d.page = <<>> /\ ~d.busy
      BY <2>3 DEF Sound
    <3> QED
      BY <1>4, <3>3, <3>4, <3>5, <3>6 DEF Sound, Hears, e
  <2>4. CASE d.st = "data"
    <3> DEFINE page == Append(d.page, d.sh)
    <3>1. e = [d EXCEPT !.n = Width + 1, !.sh = 0, !.page = page]
      BY <2>1, <2>4 DEF ByteTaken
    <3>2. page \in Seq(Byte)
      BY <1>2
    <3> HIDE DEF page, e
    <3>4. e.st = "data" /\ e.n = Width + 1 /\ e.sh = 0 /\ e.busy = d.busy /\ ~d.busy
      BY <2>4, <3>1 DEF Sound
    <3>5. e \in [st : {"idle", "addr", "word", "data", "read"}, n : 0 .. Width + 1, sh : Byte,
                 words : 0 .. AddressWidth, ptr : 0 .. Cells - 1, page : Seq(Byte), busy : BOOLEAN]
      BY <1>4, <3>1, <3>2 DEF Sound
    <3> QED
      BY <1>4, <3>4, <3>5 DEF Sound, Hears, e
  <2>5. CASE d.st = "addr" /\ d.sh \div 2 # TargetAddr
    <3>1. e = [d EXCEPT !.st = "idle"] /\ b.dsda = 1
      BY <1>6, <2>1, <2>5 DEF ByteTaken, Out
    <3> HIDE DEF e
    <3>2. e.st = "idle" /\ e.page = d.page /\ e.busy = d.busy
      BY <3>1 DEF Sound
    <3>3. e \in [st : {"idle", "addr", "word", "data", "read"}, n : 0 .. Width + 1, sh : Byte,
                 words : 0 .. AddressWidth, ptr : 0 .. Cells - 1, page : Seq(Byte), busy : BOOLEAN]
      BY <3>1 DEF Sound
    <3>4. d.page = <<>>
      BY <2>5 DEF Sound
    <3> QED
      BY <3>1, <3>2, <3>3, <3>4 DEF Sound, Hears, e
  <2> QED
    BY <1>6, <2>2, <2>3, <2>4, <2>5 DEF Hears
<1>7. CASE ~Hears(d) /\ d.st = "read" /\ d.n < Width
  <2>1. e = [d EXCEPT !.n = d.n + 1]
    BY <1>7 DEF AtEdge
  <2>2. d.n + 1 \in 0 .. Width + 1
    BY <1>1, <1>2, <1>7
  <2> HIDE DEF e
  <2>3. e.st = "read" /\ e.page = d.page /\ e.busy = d.busy
    BY <1>7, <2>1 DEF Sound
  <2>4. e \in [st : {"idle", "addr", "word", "data", "read"}, n : 0 .. Width + 1, sh : Byte,
               words : 0 .. AddressWidth, ptr : 0 .. Cells - 1, page : Seq(Byte), busy : BOOLEAN]
    BY <2>1, <2>2 DEF Sound
  <2> QED
    BY <1>7, <2>3, <2>4 DEF Sound, Hears, e
<1>8. CASE ~Hears(d) /\ d.st = "read" /\ d.n = Width
  <2> DEFINE ptr == (d.ptr + 1) % Cells
  <2>0. e = AckHeard(d, Level(b))
    BY <1>1, <1>8 DEF AtEdge
  <2>1. \/ e = [d EXCEPT !.st = "idle"] /\ b.dsda = 1
        \/ e = [d EXCEPT !.n = Width + 1, !.ptr = ptr]
    BY <1>3, <2>0 DEF AckHeard
  <2>2. ptr \in 0 .. Cells - 1
    <3>1. d.ptr + 1 \in Nat
      BY <1>1, <1>2
    <3> QED
      BY <1>1, <3>1, Division
  <2> HIDE DEF e, ptr
  <2>3. /\ e.st = "read" \/ (e.st = "idle" /\ b.dsda = 1)
        /\ e.page = d.page /\ e.busy = d.busy
    <3>1. CASE e = [d EXCEPT !.st = "idle"] /\ b.dsda = 1
      BY <3>1 DEF Sound
    <3>2. CASE e = [d EXCEPT !.n = Width + 1, !.ptr = ptr]
      BY <1>8, <3>2 DEF Sound
    <3> QED
      BY <2>1, <3>1, <3>2
  <2>4. e \in [st : {"idle", "addr", "word", "data", "read"}, n : 0 .. Width + 1, sh : Byte,
               words : 0 .. AddressWidth, ptr : 0 .. Cells - 1, page : Seq(Byte), busy : BOOLEAN]
    BY <1>4, <2>1, <2>2 DEF Sound
  <2>5. d.page = <<>> /\ ~d.busy
    BY <1>8 DEF Sound
  <2> QED
    BY <2>3, <2>4, <2>5 DEF Sound, Hears, e
<1>9. CASE ~(Hears(d) /\ d.n < Width) /\ ~(Hears(d) /\ d.n = Width)
           /\ ~(d.st = "read" /\ d.n < Width) /\ ~(d.st = "read" /\ d.n = Width)
  <2>1. e = d
    BY <1>9 DEF AtEdge
  <2> QED
    BY <2>1 DEF e
<1>10. Hears(d) => d.st # "read"
  BY DEF Hears
<1> QED
  BY <1>5, <1>6, <1>7, <1>8, <1>9, <1>10

\* A rising edge.
LEMMA RiseKeeps ==
  ASSUME DeviceInv, NEW b \in Levels, b.dsda = bus.dsda, ~SCL(bus), SCL(b), Clocked(b)
  PROVE  DeviceInv'
<1>1. bus' = b /\ mem' = mem /\ stretches' = stretches /\ dev' = AtEdge(dev, Level(b))
  BY EdgeCases
<1>2. Sound(dev, b) /\ b.dsda = Out(dev, mem)
  BY DEF DeviceInv, BusTypeOK, Sound
<1>3. Sound(dev', b)
  BY <1>1, <1>2, EdgeSound
<1>4. SCL(bus)' /\ ~bus'.hold
  BY <1>1 DEF SCL
<1>5. BusTypeOK'
  BY <1>1, <1>3 DEF BusTypeOK, DeviceInv, Levels, Sound
<1>6. Sound(dev, bus)'
  BY <1>1, <1>3
<1> QED
  BY <1>4, <1>5, <1>6 DEF DeviceInv, Sound

\* The cases of Shifted.
LEMMA FallCases ==
  ASSUME DeviceInv, NEW b \in Levels, Shifted(b)
  PROVE  /\ dev' = Fallen(dev) /\ mem' = mem
         /\ \E h \in BOOLEAN :
              /\ h => stretches > 0 /\ dev.st # "idle"
              /\ bus' = [b EXCEPT !.dsda = Out(dev', mem), !.hold = h]
              /\ stretches' = IF h THEN stretches - 1 ELSE stretches
<1> DEFINE n == IF dev.n = Width + 1 THEN 0 ELSE dev.n
           out == CASE Receiving /\ n = Width -> IF dev.st = "addr" /\ ~Matches THEN 1 ELSE 0
                    [] dev.st = "read" /\ n < Width -> Bit(mem[dev.ptr], n + 1)
                    [] OTHER -> 1
<1>1. /\ dev' = [dev EXCEPT !.n = n] /\ mem' = mem
      /\ \E h \in BOOLEAN :
           /\ h => stretches > 0 /\ dev.st # "idle"
           /\ bus' = [b EXCEPT !.dsda = out, !.hold = h]
           /\ stretches' = IF h THEN stretches - 1 ELSE stretches
  BY DEF Shifted
<1>2. dev' = Fallen(dev)
  BY <1>1 DEF Fallen
<1>3. dev'.st = dev.st /\ dev'.n = n /\ dev'.sh = dev.sh /\ dev'.ptr = dev.ptr
  BY <1>1 DEF DeviceInv, BusTypeOK
<1> DEFINE receiving == Receiving
           matches == Matches
           bit == Bit(mem[dev.ptr], n + 1)
<1>4. /\ receiving <=> Hears(dev')
      /\ matches <=> ~(dev'.sh \div 2 # TargetAddr)
      /\ bit = Bit(mem[dev'.ptr], dev'.n + 1)
      /\ receiving => dev.st # "read"
      /\ out = CASE receiving /\ n = Width -> IF dev.st = "addr" /\ ~matches THEN 1 ELSE 0
                 [] dev.st = "read" /\ n < Width -> bit
                 [] OTHER -> 1
  BY <1>3 DEF Receiving, Matches, Hears
<1>5. out = Out(dev', mem)
  <2> HIDE DEF receiving, matches, bit, n, out
  <2>1. CASE receiving /\ n = Width
    BY <1>3, <1>4, <2>1 DEF Out
  <2>2. CASE dev.st = "read" /\ n < Width
    BY <1>3, <1>4, <2>2 DEF Out
  <2>3. CASE ~(receiving /\ n = Width) /\ ~(dev.st = "read" /\ n < Width)
    BY <1>3, <1>4, <2>3 DEF Out
  <2> QED
    BY <2>1, <2>2, <2>3
<1> QED
  BY <1>1, <1>2, <1>5

\* A falling edge.
LEMMA FallKeeps ==
  ASSUME DeviceInv, NEW b \in Levels, ~SCL(b), Shifted(b)
  PROVE  DeviceInv'
<1>1. Width \in Nat \ {0, 1} /\ 2 ^ 0 = 1
  BY PowerFacts, PowerAssumption
<1>2. PICK h \in BOOLEAN :
        /\ h => stretches > 0 /\ dev.st # "idle"
        /\ bus' = [b EXCEPT !.dsda = Out(dev', mem), !.hold = h]
        /\ stretches' = IF h THEN stretches - 1 ELSE stretches
  BY FallCases
<1>3. dev' = Fallen(dev) /\ mem' = mem
  BY FallCases
<1> DEFINE n == IF dev.n = Width + 1 THEN 0 ELSE dev.n
<1>4. n \in 0 .. Width /\ n \in 0 .. Width + 1 /\ n <= Width
  BY <1>1 DEF DeviceInv, BusTypeOK
<1>5. dev' = [dev EXCEPT !.n = n]
  BY <1>3 DEF Fallen
<1> HIDE DEF n
<1>6. /\ dev'.st = dev.st /\ dev'.n = n /\ dev'.sh = dev.sh /\ dev'.ptr = dev.ptr
      /\ dev'.words = dev.words /\ dev'.page = dev.page /\ dev'.busy = dev.busy
      /\ dev' \in [st : {"idle", "addr", "word", "data", "read"}, n : 0 .. Width + 1, sh : Byte,
                   words : 0 .. AddressWidth, ptr : 0 .. Cells - 1, page : Seq(Byte),
                   busy : BOOLEAN]
  BY <1>4, <1>5 DEF DeviceInv, BusTypeOK
<1>7. Out(dev', mem) \in {0, 1}
  <2>1. dev'.n \in Nat /\ dev'.ptr \in 0 .. Cells - 1 /\ mem \in [0 .. Cells - 1 -> Byte]
    BY <1>1, <1>4, <1>6 DEF DeviceInv, BusTypeOK
  <2> QED
    BY <2>1, OutRange
<1> DEFINE out == Out(dev', mem)
<1>8. /\ bus' \in Levels /\ bus'.dsda = Out(dev', mem) /\ bus'.hold = h
      /\ stretches' \in Nat
  <2>1. bus' = [b EXCEPT !.dsda = out, !.hold = h] /\ out \in {0, 1}
    BY <1>2, <1>7
  <2> HIDE DEF out
  <2>2. bus' \in Levels /\ bus'.dsda = out /\ bus'.hold = h
    BY <2>1 DEF Levels
  <2>3. stretches' \in Nat
    BY <1>2 DEF DeviceInv, BusTypeOK
  <2> QED
    BY <2>2, <2>3 DEF out
<1>9. dev'.st = "idle" => ~bus'.hold /\ bus'.dsda = 1
  <2>1. dev'.st = "idle" => Out(dev', mem) = 1
    BY DEF Out, Hears
  <2> QED
    BY <1>2, <1>6, <1>8, <2>1
<1>10. Hears(dev') => dev'.sh < 2 ^ dev'.n
  <2>1. ASSUME Hears(dev') PROVE dev.sh < 2 ^ n
    <3>1. Hears(dev)
      BY <1>6, <2>1 DEF Hears
    <3>2. CASE dev.n = Width + 1
      BY <1>1, <3>1, <3>2 DEF DeviceInv, n
    <3>3. CASE dev.n # Width + 1
      BY <1>4, <3>1, <3>3 DEF DeviceInv, n
    <3> QED
      BY <3>2, <3>3
  <2> QED
    BY <1>6, <2>1
<1>11. BusTypeOK'
  BY <1>3, <1>6, <1>8 DEF BusTypeOK, DeviceInv, Levels
<1>12. /\ dev'.st = "word" => dev'.words < AddressWidth
       /\ dev'.busy => dev'.st = "idle"
       /\ dev'.page # <<>> => dev'.busy \/ dev'.st = "data"
       /\ dev'.n # Width + 1
  BY <1>1, <1>4, <1>6 DEF DeviceInv
<1>13. ~SCL(bus)' => (bus.dsda = Out(dev, mem))' /\ dev'.n <= Width
  BY <1>3, <1>4, <1>6, <1>8
<1> QED
  BY <1>9, <1>10, <1>11, <1>12, <1>13 DEF DeviceInv

\* Whatever the master does to the lines.
LEMMA DriveKeeps ==
  ASSUME DeviceInv, NEW b \in Levels, b.dsda = bus.dsda, b.hold => bus.hold, Drive(b)
  PROVE  DeviceInv'
<1>1. CASE SCL(bus) /\ SCL(b) /\ SDA(bus) /\ ~SDA(b) /\ StartSeen(b)
  BY <1>1, StartKeeps
<1>2. CASE SCL(bus) /\ SCL(b) /\ ~SDA(bus) /\ SDA(b) /\ StopSeen(b)
  BY <1>2, StopKeeps
<1>3. CASE ~SCL(bus) /\ SCL(b) /\ Clocked(b)
  BY <1>3, RiseKeeps
<1>4. CASE SCL(bus) /\ ~SCL(b) /\ Shifted(b)
  BY <1>4, FallKeeps
<1>5. CASE /\ SCL(bus) = SCL(b) /\ (SCL(b) => SDA(bus) = SDA(b)) /\ bus' = b
           /\ UNCHANGED <<dev, mem, stretches>>
  <2>1. BusTypeOK'
    BY <1>5 DEF DeviceInv, BusTypeOK, Levels
  <2>2. SCL(bus)' = SCL(bus) /\ bus'.dsda = bus.dsda /\ (bus'.hold => bus.hold)
    BY <1>5 DEF SCL
  <2> QED
    BY <1>5, <2>1, <2>2 DEF DeviceInv, Hears
<1> QED
  BY <1>1, <1>2, <1>3, <1>4, <1>5 DEF Drive

\* The clock let go by the device.
LEMMA UnstretchKeeps ==
  ASSUME DeviceInv, Unstretch
  PROVE  DeviceInv'
<1> DEFINE b == [bus EXCEPT !.hold = FALSE]
<1>1. b \in Levels /\ b.dsda = bus.dsda /\ ~b.hold /\ Drive(b)
  BY DEF DeviceInv, BusTypeOK, Levels, Unstretch
<1> HIDE DEF b
<1> QED
  BY <1>1, DriveKeeps

\* The page in the memory.
LEMMA WriteCycleKeeps ==
  ASSUME DeviceInv, WriteCycleDone
  PROVE  DeviceInv'
<1>1. /\ dev.busy /\ dev' = [dev EXCEPT !.busy = FALSE, !.page = <<>>]
      /\ bus' = bus /\ stretches' = stretches
      /\ mem' = [a \in DOMAIN mem |->
                   LET i == ((a - dev.ptr) % PageSize) + 1
                   IN IF a \div PageSize = dev.ptr \div PageSize /\ i \in DOMAIN dev.page
                      THEN dev.page[i] ELSE mem[a]]
  BY DEF WriteCycleDone
<1>2. mem' \in [0 .. Cells - 1 -> Byte]
  <2>1. mem \in [0 .. Cells - 1 -> Byte] /\ \A i \in DOMAIN dev.page : dev.page[i] \in Byte
    BY DEF DeviceInv, BusTypeOK
  <2>2. DOMAIN mem = 0 .. Cells - 1 /\ \A a \in 0 .. Cells - 1 : mem[a] \in Byte
    BY <2>1
  <2> QED
    BY <1>1, <2>1, <2>2
<1>3. dev' \in [st : {"idle", "addr", "word", "data", "read"}, n : 0 .. Width + 1, sh : Byte,
                words : 0 .. AddressWidth, ptr : 0 .. Cells - 1, page : Seq(Byte), busy : BOOLEAN]
      /\ dev'.st = dev.st /\ dev'.n = dev.n /\ dev'.page = <<>> /\ ~dev'.busy
  <2>1. dev \in [st : {"idle", "addr", "word", "data", "read"}, n : 0 .. Width + 1, sh : Byte,
                 words : 0 .. AddressWidth, ptr : 0 .. Cells - 1, page : Seq(Byte),
                 busy : BOOLEAN]
    BY DEF DeviceInv, BusTypeOK
  <2>2. <<>> \in Seq(Byte) /\ dev' = [dev EXCEPT !.busy = FALSE, !.page = <<>>]
    BY <1>1
  <2> QED
    BY <2>1, <2>2
<1>4. dev'.st = "idle"
  BY <1>1, <1>3 DEF DeviceInv
<1>5. BusTypeOK'
  BY <1>1, <1>2, <1>3 DEF DeviceInv, BusTypeOK
<1>6. Out(dev, mem) = 1 /\ Out(dev', mem') = 1
  BY <1>1, <1>3, <1>4 DEF Out, Hears
<1>7. SCL(bus)' = SCL(bus)
  BY <1>1
<1>8. /\ dev.st = "idle" /\ ~bus.hold /\ bus.dsda = 1 /\ (~SCL(bus) => dev.n <= Width)
  BY <1>3, <1>4 DEF DeviceInv
<1>9. ~Hears(dev')
  BY <1>4 DEF Hears
<1> QED
  BY <1>1, <1>3, <1>4, <1>5, <1>6, <1>7, <1>8, <1>9 DEF DeviceInv

\* The levels the master drives with an operation.
LEMMA WriteControlLevels ==
  ASSUME DeviceInv, WriteControl
  PROVE  \E b \in Levels :
           /\ Drive(b) /\ b.dsda = bus.dsda /\ b.hold = bus.hold
           /\ b = CASE Op \in {"sda0", "start"} -> [bus EXCEPT !.msda = 0]
                    [] Op \in {"sda1", "stop"}  -> [bus EXCEPT !.msda = 1]
                    [] Op = "scl0" -> [bus EXCEPT !.mscl = 0]
                    [] Op = "scl1" -> [bus EXCEPT !.mscl = 1]
<1> DEFINE o == Op
           b == CASE o \in {"sda0", "start"} -> [bus EXCEPT !.msda = 0]
                  [] o \in {"sda1", "stop"}  -> [bus EXCEPT !.msda = 1]
                  [] o = "scl0" -> [bus EXCEPT !.mscl = 0]
                  [] o = "scl1" -> [bus EXCEPT !.mscl = 1]
<1>1. Drive(b) /\ o \in {"sda0", "sda1", "scl0", "scl1", "start", "stop"} /\ bus \in Levels
  BY DEF WriteControl, DeviceInv, BusTypeOK, Levels
<1>2. b \in Levels /\ b.dsda = bus.dsda /\ b.hold = bus.hold
  <2> HIDE DEF o
  <2>1. CASE o \in {"sda0", "start"}
    BY <1>1, <2>1 DEF Levels
  <2>2. CASE o \in {"sda1", "stop"}
    BY <1>1, <2>2 DEF Levels
  <2>3. CASE o = "scl0"
    BY <1>1, <2>3 DEF Levels
  <2>4. CASE o = "scl1"
    BY <1>1, <2>4 DEF Levels
  <2> QED
    BY <1>1, <2>1, <2>2, <2>3, <2>4
<1> QED
  BY <1>1, <1>2

\* The device stays sound.
LEMMA DeviceStep ==
  ASSUME DeviceInv, [BoardNext]_i2cVars
  PROVE  DeviceInv'
<1>1. CASE UNCHANGED busVars
  <2>1. bus' = bus /\ dev' = dev /\ mem' = mem /\ stretches' = stretches
    BY <1>1 DEF busVars
  <2> QED
    BY <2>1 DEF DeviceInv, BusTypeOK, SCL
<1>2. CASE LineStep
  <2>1. CASE WriteControl
    <3>1. PICK b \in Levels : Drive(b) /\ b.dsda = bus.dsda /\ b.hold = bus.hold
      BY <2>1, WriteControlLevels
    <3> QED
      BY <3>1, DriveKeeps
  <2>2. CASE ~WriteControl
    <3>1. UNCHANGED busVars
      BY <1>2, <2>2 DEF LineStep, PollSucceeds, PollTimeout, StopTimeout, BusFree, StopChecked,
           Sample, CheckAck, ByteRead, BusActive, Booted, BusRecovered, PulseChecked, Rejected,
           Advance, LeaveFor, Fail
    <3> QED
      BY <1>1, <3>1
  <2> QED
    BY <2>1, <2>2
<1>3. CASE Unstretch
  BY <1>3, UnstretchKeeps
<1>4. CASE WriteCycleDone
  BY <1>4, WriteCycleKeeps
<1>5. CASE Boot
  <2>1. bus' = bus /\ dev' = dev /\ mem' = mem /\ stretches' \in Nat
    BY <1>5, BoardAssumption DEF Boot
  <2> QED
    BY <2>1 DEF DeviceInv, BusTypeOK, SCL
<1>6. CASE Reset
  <2> DEFINE b == [bus EXCEPT !.msda = 1, !.mscl = 1]
  <2>1. b \in Levels /\ b.dsda = bus.dsda /\ b.hold = bus.hold /\ Drive(b)
    BY <1>6 DEF Reset, DeviceInv, BusTypeOK, Levels
  <2> HIDE DEF b
  <2> QED
    BY <2>1, DriveKeeps
<1>7. CASE TransferDone \/ WaitReady \/ NextCall \/ Stopped \/ UNCHANGED i2cVars
  <2>1. UNCHANGED busVars
    BY <1>7 DEF TransferDone, WaitReady, NextCall, Stopped, CallReturns, i2cVars
  <2> QED
    BY <1>1, <2>1
<1> QED
  BY <1>2, <1>3, <1>4, <1>5, <1>6, <1>7 DEF BoardNext

\* The device starts idle.
LEMMA DeviceStart ==
  ASSUME BoardInit
  PROVE  DeviceInv
<1>1. /\ bus = [msda |-> 1, mscl |-> 1, dsda |-> 1, hold |-> FALSE]
      /\ dev = [st |-> "idle", n |-> 0, sh |-> 0, words |-> 0, ptr |-> 0,
                page |-> <<>>, busy |-> FALSE]
      /\ mem = [a \in 0 .. Cells - 1 |-> 0] /\ stretches = 0
  BY DEF BoardInit, BusInit
<1>2. /\ 0 \in 0 .. Width + 1 /\ 0 \in Byte /\ 0 \in 0 .. AddressWidth /\ 0 \in 0 .. Cells - 1
      /\ <<>> \in Seq(Byte)
  BY PowerFacts, BusAssumption DEF Byte
<1>3. BusTypeOK
  BY <1>1, <1>2 DEF BusTypeOK
<1>4. SCL(bus) /\ ~bus.hold /\ bus.dsda = 1 /\ dev.st = "idle" /\ dev.page = <<>> /\ ~dev.busy
  BY <1>1 DEF SCL
<1> QED
  BY <1>3, <1>4 DEF DeviceInv, Hears

-----------------------------------------------------------------------------
(* What the programs of whole calls do to the lines. *)

Active == <<"active">>

\* The bus is noted as ours.
LEMMA ActiveLines ==
  ASSUME NEW a, NEW b, NEW c
  PROVE  Active \in Seq(Ops) /\ Leads(Lines, View(a, b, c), Active, View(a, b, 1))
<1>1. Active \in Seq(Ops)
  BY DEF Active, Ops
<1>2. Move(Lines, "active", View(a, b, c), View(a, b, 1))
  BY LineMoves
<1> QED
  BY <1>1, <1>2, LeadsOne DEF Active

\* START and the address.
Opening(dest, read) == GenerateStart \o Active \o SendAddress(dest, read)

\* It is a START and a byte.
LEMMA OpeningLines ==
  ASSUME NEW a \in {0, 1}, NEW b \in {0, 1}, NEW c, b = 0 \/ a = 1, NEW dest, NEW read
  PROVE  /\ Opening(dest, read) \in Seq(Ops)
         /\ Leads(Lines, View(a, b, c), Opening(dest, read), View(1, 0, 1))
<1>1. GenerateStart \in Seq(Ops) /\ SendAddress(dest, read) \in Seq(Ops)
  BY BlockTypes
<1>2. Leads(Lines, View(a, b, c), GenerateStart, View(0, 0, c))
  BY StartLines
<1>3. Active \in Seq(Ops) /\ Leads(Lines, View(0, 0, c), Active, View(0, 0, 1))
  BY ActiveLines
<1>4. Leads(Lines, View(0, 0, 1), SendAddress(dest, read), View(1, 0, 1))
  BY WriteByteLines DEF SendAddress
<1>5. GenerateStart \o Active \in Seq(Ops)
      /\ Leads(Lines, View(a, b, c), GenerateStart \o Active, View(0, 0, 1))
  BY <1>1, <1>2, <1>3, LeadsJoin
<1> DEFINE first == GenerateStart \o Active
           rest == SendAddress(dest, read)
<1>6. Opening(dest, read) = first \o rest
  BY DEF Opening
<1> HIDE DEF first, rest
<1>7. first \in Seq(Ops) /\ rest \in Seq(Ops) /\ Leads(Lines, View(a, b, c), first, View(0, 0, 1))
      /\ Leads(Lines, View(0, 0, 1), rest, View(1, 0, 1))
  BY <1>1, <1>4, <1>5 DEF first, rest
<1> QED
  BY <1>6, <1>7, LeadsJoin

ProbeOps(dest) == Opening(dest, FALSE) \o GenerateStop

\* A probe.
LEMMA ProbeLines ==
  ASSUME NEW a \in {0, 1}, NEW b \in {0, 1}, NEW c, b = 0 \/ a = 1, NEW dest
  PROVE  /\ ProbeOps(dest) \in Seq(Ops)
         /\ Leads(Lines, View(a, b, c), ProbeOps(dest), View(1, 1, 1))
<1>1. /\ Opening(dest, FALSE) \in Seq(Ops)
      /\ Leads(Lines, View(a, b, c), Opening(dest, FALSE), View(1, 0, 1))
  BY OpeningLines
<1>2. GenerateStop \in Seq(Ops) /\ Leads(Lines, View(1, 0, 1), GenerateStop, View(1, 1, 1))
  BY BlockTypes, StopLines
<1> QED
  BY <1>1, <1>2, LeadsJoin DEF ProbeOps

Msgs == [buf : Seq(Byte), read : BOOLEAN, stop : BOOLEAN, restart : BOOLEAN]

\* The bytes of a message.
LEMMA BodyLines ==
  ASSUME NEW m \in Msgs, m.buf # <<>>
  PROVE  /\ MessageBody(m) \in Seq(Ops)
         /\ Leads(Lines, View(1, 0, 1), MessageBody(m), View(1, 0, 1))
<1> DEFINE n == Len(m.buf)
           block(i) == IF m.read THEN ReadByte(i < n) ELSE WriteByte(m.buf[i])
           ss == [i \in 1 .. n |-> block(i)]
           level(i) == IF m.read /\ i # 0 /\ i < n THEN 0 ELSE 1
           v == [i \in 0 .. n |-> View(level(i), 0, 1)]
<1>1. n \in Nat /\ n # 0
  BY DEF Msgs
<1>2. \A i \in 1 .. n : ss[i] = block(i)
  OBVIOUS
<1>3. \A i \in 0 .. n : v[i] = View(level(i), 0, 1)
  OBVIOUS
<1>4. Len(ss) = n /\ (n = 0 => ss = <<>>)
  BY <1>1
<1>5. MessageBody(m) = FlattenSeq(ss)
  BY DEF MessageBody
<1> HIDE DEF n, ss, v
<1>6. ASSUME NEW i \in 1 .. n PROVE ss[i] \in Seq(Ops)
  BY <1>2, BlockTypes
<1>7. ASSUME NEW i \in 1 .. n PROVE Leads(Lines, v[i - 1], ss[i], v[i])
  <2>1. i \in 0 .. n /\ i - 1 \in 0 .. n /\ i # 0
    BY <1>1
  <2>2. CASE m.read
    <3>1. ss[i] = ReadByte(i < n) /\ v[i - 1] = View(level(i - 1), 0, 1)
          /\ v[i] = View(IF i < n THEN 0 ELSE 1, 0, 1)
      BY <1>2, <1>3, <2>1, <2>2
    <3>2. (i < n) \in BOOLEAN
      OBVIOUS
    <3>3. Leads(Lines, View(level(i - 1), 0, 1), ReadByte(i < n),
                View(IF i < n THEN 0 ELSE 1, 0, 1))
      BY <3>2, ReadByteLines
    <3> QED
      BY <3>1, <3>3
  <2>3. CASE ~m.read
    <3>1. ss[i] = WriteByte(m.buf[i]) /\ v[i - 1] = View(1, 0, 1) /\ v[i] = View(1, 0, 1)
      BY <1>2, <1>3, <2>1, <2>3
    <3>2. Leads(Lines, View(1, 0, 1), WriteByte(m.buf[i]), View(1, 0, 1))
      BY WriteByteLines
    <3> QED
      BY <3>1, <3>2
  <2> QED
    BY <2>2, <2>3
<1>8. v[0] = View(1, 0, 1) /\ v[n] = View(1, 0, 1)
  <2>1. 0 \in 0 .. n /\ n \in 0 .. n
    BY <1>1
  <2> QED
    BY <1>1, <1>3, <2>1
<1>9. FlattenSeq(ss) \in Seq(Ops)
  BY <1>1, <1>4, <1>6, FlattenType
<1>10. Leads(Lines, v[0], FlattenSeq(ss), v[n])
  BY <1>1, <1>4, <1>6, <1>7, LeadsAll
<1> QED
  BY <1>5, <1>8, <1>9, <1>10

\* A message; without a STOP the clock stays low.
LEMMA MessageLines ==
  ASSUME NEW a \in {0, 1}, NEW b \in {0, 1}, NEW c, b = 0 \/ a = 1,
         NEW dest, NEW m \in Msgs, m.buf # <<>>
  PROVE  /\ MessageOps(dest, m) \in Seq(Ops)
         /\ Leads(Lines, View(a, b, c), MessageOps(dest, m), View(1, IF m.stop THEN 1 ELSE 0, 1))
<1> DEFINE stop == IF m.stop THEN GenerateStop ELSE <<>>
<1>1. /\ Opening(dest, m.read) \in Seq(Ops)
      /\ Leads(Lines, View(a, b, c), Opening(dest, m.read), View(1, 0, 1))
  BY OpeningLines
<1>2. MessageBody(m) \in Seq(Ops) /\ Leads(Lines, View(1, 0, 1), MessageBody(m), View(1, 0, 1))
  BY BodyLines
<1>3. stop \in Seq(Ops) /\ Leads(Lines, View(1, 0, 1), stop, View(1, IF m.stop THEN 1 ELSE 0, 1))
  <2>1. CASE m.stop
    BY <2>1, BlockTypes, StopLines
  <2>2. CASE ~m.stop
    <3>1. <<>> \in Seq(Ops) /\ Leads(Lines, View(1, 0, 1), <<>>, View(1, 0, 1))
      BY LeadsNone
    <3> QED
      BY <2>2, <3>1
  <2> QED
    BY <2>1, <2>2
<1>4. MessageOps(dest, m) = Opening(dest, m.read) \o MessageBody(m) \o stop
  BY DEF MessageOps, Opening, Active
<1> HIDE DEF stop
<1>5. /\ Opening(dest, m.read) \o MessageBody(m) \in Seq(Ops)
      /\ Leads(Lines, View(a, b, c), Opening(dest, m.read) \o MessageBody(m), View(1, 0, 1))
  BY <1>1, <1>2, LeadsJoin
<1> DEFINE first == Opening(dest, m.read) \o MessageBody(m)
           e == IF m.stop THEN 1 ELSE 0
<1>6. MessageOps(dest, m) = first \o stop
  BY <1>4
<1>7. first \in Seq(Ops) /\ Leads(Lines, View(a, b, c), first, View(1, 0, 1))
      /\ Leads(Lines, View(1, 0, 1), stop, View(1, e, 1))
  BY <1>3, <1>5
<1> HIDE DEF first, e
<1>8. MessageOps(dest, m) \in Seq(Ops)
      /\ Leads(Lines, View(a, b, c), MessageOps(dest, m), View(1, e, 1))
  BY <1>3, <1>6, <1>7, LeadsJoin
<1> QED
  BY <1>8 DEF e

\* A transfer whose last message stops.
LEMMA MessagesLines ==
  ASSUME NEW dest, NEW msgs \in Seq(Msgs), msgs # <<>>, ValidMessages(msgs),
         msgs[Len(msgs)].stop, NEW c
  PROVE  /\ Messages(dest, msgs) \in Seq(Ops)
         /\ Leads(Lines, View(1, 1, c), Messages(dest, msgs), View(1, 1, 1))
<1> DEFINE n == Len(msgs)
           ss == [k \in 1 .. n |-> MessageOps(dest, msgs[k])]
           v == [k \in 0 .. n |-> IF k = 0 THEN View(1, 1, c)
                                  ELSE View(1, IF msgs[k].stop THEN 1 ELSE 0, 1)]
<1>1. n \in Nat \ {0} /\ \A k \in 1 .. n : msgs[k] \in Msgs /\ msgs[k].buf # <<>>
  BY DEF ValidMessages
<1>2. Len(ss) = n /\ (n = 0 => ss = <<>>) /\ \A k \in 1 .. n : ss[k] = MessageOps(dest, msgs[k])
  BY <1>1
<1>3. \A k \in 0 .. n : v[k] = IF k = 0 THEN View(1, 1, c)
                               ELSE View(1, IF msgs[k].stop THEN 1 ELSE 0, 1)
  OBVIOUS
<1>4. Messages(dest, msgs) = FlattenSeq(ss)
  BY DEF Messages
<1>a. msgs[n].stop
  OBVIOUS
<1> HIDE DEF n, ss, v
<1>5. ASSUME NEW k \in 1 .. n PROVE ss[k] \in Seq(Ops) /\ Leads(Lines, v[k - 1], ss[k], v[k])
  <2> DEFINE b == IF k = 1 THEN 1 ELSE IF msgs[k - 1].stop THEN 1 ELSE 0
             d == IF k = 1 THEN c ELSE 1
  <2>1. k \in 0 .. n /\ k - 1 \in 0 .. n /\ k # 0 /\ (k - 1 = 0 <=> k = 1)
    BY <1>1
  <2>2. v[k - 1] = View(1, b, d) /\ v[k] = View(1, IF msgs[k].stop THEN 1 ELSE 0, 1)
    BY <1>3, <2>1
  <2>3. b \in {0, 1} /\ 1 \in {0, 1}
    OBVIOUS
  <2> HIDE DEF b, d
  <2> DEFINE m == msgs[k]
  <2>4. m \in Msgs /\ m.buf # <<>>
    BY <1>1
  <2>5. ss[k] = MessageOps(dest, m) /\ v[k] = View(1, IF m.stop THEN 1 ELSE 0, 1)
    BY <1>2, <2>2
  <2> HIDE DEF m
  <2>6. /\ MessageOps(dest, m) \in Seq(Ops)
        /\ Leads(Lines, View(1, b, d), MessageOps(dest, m), View(1, IF m.stop THEN 1 ELSE 0, 1))
    BY <2>3, <2>4, MessageLines
  <2> QED
    BY <2>2, <2>5, <2>6
<1>6. v[0] = View(1, 1, c) /\ v[n] = View(1, 1, 1)
  <2>1. 0 \in 0 .. n /\ n \in 0 .. n /\ n # 0
    BY <1>1
  <2> QED
    BY <1>3, <1>a, <2>1
<1>7. FlattenSeq(ss) \in Seq(Ops)
  BY <1>1, <1>2, <1>5, FlattenType
<1>8. Leads(Lines, v[0], FlattenSeq(ss), v[n])
  BY <1>1, <1>2, <1>5, LeadsAll
<1> QED
  BY <1>4, <1>6, <1>7, <1>8

\* The pulses that free a bus, and the set-up of the driver.
LEMMA RecoverLines ==
  ASSUME NEW c
  PROVE  /\ RecoverBus \in Seq(Ops) /\ Leads(Lines, View(1, 1, c), RecoverBus, View(1, 1, c))
         /\ <<"sda1", "scl1", "boot">> \in Seq(Ops)
         /\ Leads(Lines, View(1, 1, c), <<"sda1", "scl1", "boot">>, View(1, 1, c))
<1> DEFINE pulse == <<"scl0">> \o WaitSclHigh \o <<"break">>
           ss == [i \in 1 .. Width + 1 |-> pulse]
           v == [i \in 0 .. Width + 1 |-> View(1, 1, c)]
           first == <<"sda1", "scl1", "poll">> \o <<"quit">>
<1>1. Width + 1 \in Nat /\ Width + 1 # 0
  BY PowerFacts
<1>2. /\ Move(Lines, "sda1", View(1, 1, c), View(1, 1, c))
      /\ Move(Lines, "scl1", View(1, 1, c), View(1, 1, c))
      /\ Move(Lines, "poll", View(1, 1, c), View(1, 1, c))
      /\ Move(Lines, "quit", View(1, 1, c), View(1, 1, c))
      /\ Move(Lines, "boot", View(1, 1, c), View(1, 1, c))
      /\ Move(Lines, "scl0", View(1, 1, c), View(1, 0, c))
      /\ Move(Lines, "scl1", View(1, 0, c), View(1, 1, c))
      /\ Move(Lines, "break", View(1, 1, c), View(1, 1, c))
  BY LineMoves
<1>3. {"sda1", "scl1", "poll", "quit", "boot", "scl0", "break"} \subseteq Ops
  BY DEF Ops
<1>4. /\ <<"scl0", "scl1", "poll">> \in Seq(Ops) /\ <<"break">> \in Seq(Ops)
      /\ <<"sda1", "scl1", "poll">> \in Seq(Ops) /\ <<"quit">> \in Seq(Ops)
      /\ <<"sda1", "scl1", "boot">> \in Seq(Ops)
  BY <1>3
<1>5. /\ Leads(Lines, View(1, 1, c), <<"scl0", "scl1", "poll">>, View(1, 1, c))
      /\ Leads(Lines, View(1, 1, c), <<"sda1", "scl1", "poll">>, View(1, 1, c))
      /\ Leads(Lines, View(1, 1, c), <<"sda1", "scl1", "boot">>, View(1, 1, c))
  BY <1>2, <1>3, LeadsThree
<1>6. /\ Leads(Lines, View(1, 1, c), <<"break">>, View(1, 1, c))
      /\ Leads(Lines, View(1, 1, c), <<"quit">>, View(1, 1, c))
  BY <1>2, LeadsOne
<1>7. pulse = <<"scl0", "scl1", "poll">> \o <<"break">>
  <2>1. <<"scl0">> \o <<"scl1", "poll">> = <<"scl0", "scl1", "poll">>
    BY <1>3, TwoAndOne
  <2> QED
    BY <2>1 DEF WaitSclHigh
<1>8. <<"sda1">> \o WaitSclHigh \o <<"quit">> = first
  <2>1. <<"sda1">> \o <<"scl1", "poll">> = <<"sda1", "scl1", "poll">>
    BY <1>3, TwoAndOne
  <2> QED
    BY <2>1 DEF WaitSclHigh
<1>9. RecoverBus = first \o FlattenSeq(ss) \o GenerateStop
  BY <1>8 DEF RecoverBus
<1>10. /\ Len(ss) = Width + 1 /\ (Width + 1 = 0 => ss = <<>>)
       /\ \A i \in 1 .. Width + 1 : ss[i] = pulse
  BY <1>1
<1>11. \A i \in 0 .. Width + 1 : v[i] = View(1, 1, c)
  OBVIOUS
<1> HIDE DEF ss, v
<1>a. /\ <<"scl0", "scl1", "poll">> \o <<"break">> \in Seq(Ops)
      /\ Leads(Lines, View(1, 1, c), <<"scl0", "scl1", "poll">> \o <<"break">>, View(1, 1, c))
  BY <1>4, <1>5, <1>6, LeadsJoin
<1>12. pulse \in Seq(Ops) /\ Leads(Lines, View(1, 1, c), pulse, View(1, 1, c))
  BY <1>7, <1>a
<1>13. first \in Seq(Ops) /\ Leads(Lines, View(1, 1, c), first, View(1, 1, c))
  BY <1>4, <1>5, <1>6, LeadsJoin
<1> DEFINE w == View(1, 1, c)
           flat == FlattenSeq(ss)
           both == first \o flat
<1> HIDE DEF pulse, first
<1>14. ASSUME NEW i \in 1 .. Width + 1
       PROVE  ss[i] \in Seq(Ops) /\ Leads(Lines, v[i - 1], ss[i], v[i])
  <2>1. i \in 0 .. Width + 1 /\ i - 1 \in 0 .. Width + 1
    BY <1>1
  <2> QED
    BY <1>10, <1>11, <1>12, <2>1
<1>15. FlattenSeq(ss) \in Seq(Ops)
  BY <1>1, <1>10, <1>14, FlattenType
<1>16. Leads(Lines, v[0], FlattenSeq(ss), v[Width + 1])
  BY <1>1, <1>10, <1>14, LeadsAll
<1>17. v[0] = View(1, 1, c) /\ v[Width + 1] = View(1, 1, c)
  <2>1. 0 \in 0 .. Width + 1 /\ Width + 1 \in 0 .. Width + 1
    BY <1>1
  <2> QED
    BY <1>11, <2>1
<1>18. /\ first \in Seq(Ops) /\ Leads(Lines, w, first, w)
       /\ flat \in Seq(Ops) /\ Leads(Lines, w, flat, w)
  BY <1>13, <1>15, <1>16, <1>17
<1>19. GenerateStop \in Seq(Ops) /\ Leads(Lines, w, GenerateStop, w)
  BY BlockTypes, StopLines
<1>20. RecoverBus = both \o GenerateStop
  BY <1>9
<1>21. <<"sda1", "scl1", "boot">> \in Seq(Ops)
       /\ Leads(Lines, w, <<"sda1", "scl1", "boot">>, w)
  BY <1>4, <1>5
<1>22. /\ Leads(Lines, w, RecoverBus, w) => Leads(Lines, View(1, 1, c), RecoverBus, View(1, 1, c))
       /\ Leads(Lines, View(1, 1, c), <<"sda1", "scl1", "boot">>, View(1, 1, c))
  BY <1>5
<1> HIDE DEF w, flat
<1>23. both \in Seq(Ops) /\ Leads(Lines, w, both, w)
  BY <1>18, LeadsJoin
<1> HIDE DEF both
<1>24. RecoverBus \in Seq(Ops) /\ Leads(Lines, w, RecoverBus, w)
  BY <1>19, <1>20, <1>23, LeadsJoin
<1> QED
  BY <1>21, <1>22, <1>24

-----------------------------------------------------------------------------
(* The lines of a call of lab 14. *)

\* The operations let both lines go in the end.
Heading(s, ops) ==
  /\ ops \in Seq(Ops)
  /\ \E u : Leads(Lines, s, ops, u) /\ u.msda = 1 /\ u.mscl = 1

\* Programs that do.
LEMMA Headings ==
  ASSUME NEW a, NEW b, NEW c
  PROVE  /\ Heading(View(1, 1, c), <<>>)
         /\ Heading(View(a, 1, c), <<"stop">>)
         /\ Heading(View(a, b, c), GenerateStop)
         /\ Heading(View(1, 1, c), RecoverBus)
         /\ Heading(View(1, 1, c), <<"sda1", "scl1", "boot">>)
<1>1. \A d : View(1, 1, d).msda = 1 /\ View(1, 1, d).mscl = 1
  BY DEF View
<1>2. Heading(View(1, 1, c), <<>>)
  <2>1. <<>> \in Seq(Ops) /\ Leads(Lines, View(1, 1, c), <<>>, View(1, 1, c))
    BY LeadsNone
  <2> QED
    BY <1>1, <2>1 DEF Heading
<1>3. Heading(View(a, 1, c), <<"stop">>)
  <2>1. <<"stop">> \in Seq(Ops)
    BY DEF Ops
  <2>2. Leads(Lines, View(a, 1, c), <<"stop">>, View(1, 1, c))
    BY LineMoves, LeadsOne
  <2> QED
    BY <1>1, <2>1, <2>2 DEF Heading
<1>4. Heading(View(a, b, c), GenerateStop)
  BY <1>1, StopLines, BlockTypes DEF Heading
<1>5. /\ Heading(View(1, 1, c), RecoverBus)
      /\ Heading(View(1, 1, c), <<"sda1", "scl1", "boot">>)
  BY <1>1, RecoverLines DEF Heading
<1> QED
  BY <1>2, <1>3, <1>4, <1>5

\* Calls that start with both lines let go.
LEMMA CallHeadings ==
  ASSUME NEW c, NEW dest
  PROVE  /\ Heading(View(1, 1, c), ProbeOps(dest))
         /\ \A msgs \in Seq(Msgs) :
              msgs # <<>> /\ ValidMessages(msgs) /\ msgs[Len(msgs)].stop =>
                Heading(View(1, 1, c), Messages(dest, msgs))
<1>1. View(1, 1, 1).msda = 1 /\ View(1, 1, 1).mscl = 1
  BY DEF View
<1>2. Heading(View(1, 1, c), ProbeOps(dest))
  BY <1>1, ProbeLines DEF Heading
<1>3. ASSUME NEW msgs \in Seq(Msgs), msgs # <<>>, ValidMessages(msgs), msgs[Len(msgs)].stop
      PROVE  Heading(View(1, 1, c), Messages(dest, msgs))
  BY <1>1, <1>3, MessagesLines DEF Heading
<1> QED
  BY <1>2, <1>3

LineView == View(bus.msda, bus.mscl, IF cleanup = "stop" THEN 1 ELSE 0)

\* What the master drives is what the bus shows of it.
LEMMA DriveLines ==
  ASSUME DeviceInv, NEW b \in Levels, Drive(b)
  PROVE  bus'.msda = b.msda /\ bus'.mscl = b.mscl
<1>1. CASE StartSeen(b)
  BY <1>1 DEF StartSeen, Levels
<1>2. CASE StopSeen(b)
  BY <1>2 DEF StopSeen, Levels
<1>3. CASE Clocked(b)
  BY <1>3 DEF Clocked
<1>4. CASE Shifted(b)
  <2>1. PICK h \in BOOLEAN : bus' = [b EXCEPT !.dsda = Out(dev', mem), !.hold = h]
    BY <1>4, FallCases
  <2> DEFINE d == Out(dev', mem)
  <2>2. bus' = [b EXCEPT !.dsda = d, !.hold = h]
    BY <2>1
  <2> HIDE DEF d
  <2> QED
    BY <2>2 DEF Levels
<1>5. CASE bus' = b
  BY <1>5
<1> QED
  BY <1>1, <1>2, <1>3, <1>4, <1>5 DEF Drive

\* What the head of a program asks of the lines.
LEMMA HeadMoves ==
  ASSUME NEW s, NEW ops, Heading(s, ops), ops # <<>>
  PROVE  \E t : LineMove(Head(ops), s, t) /\ Heading(t, Tail(ops))
<1>1. ops \in Seq(Ops) /\ Tail(ops) \in Seq(Ops)
  BY DEF Heading
<1>2. PICK u : Leads(Lines, s, ops, u) /\ u.msda = 1 /\ u.mscl = 1
  BY DEF Heading
<1>3. PICK t : Move(Lines, Head(ops), s, t) /\ Leads(Lines, t, Tail(ops), u)
  BY <1>1, <1>2, LeadsStep
<1>4. LineMove(Head(ops), s, t)
  BY <1>3, Kinds
<1> QED
  BY <1>1, <1>2, <1>3, <1>4 DEF Heading

\* A step that writes CONTROL.
LEMMA ControlLines ==
  ASSUME DeviceInv, WriteControl, NEW t, LineMove(Op, LineView, t)
  PROVE  t = LineView'
<1> DEFINE c == IF cleanup = "stop" THEN 1 ELSE 0
           x == bus.msda
           y == bus.mscl
           s == View(x, y, c)
<1>1. PICK b \in Levels :
        /\ Drive(b)
        /\ b = CASE Op \in {"sda0", "start"} -> [bus EXCEPT !.msda = 0]
                 [] Op \in {"sda1", "stop"}  -> [bus EXCEPT !.msda = 1]
                 [] Op = "scl0" -> [bus EXCEPT !.mscl = 0]
                 [] Op = "scl1" -> [bus EXCEPT !.mscl = 1]
  BY WriteControlLevels
<1>2. /\ bus'.msda = b.msda /\ bus'.mscl = b.mscl
  BY <1>1, DriveLines
<1>3. LineView = s /\ LineView' = View(bus'.msda, bus'.mscl, c)
  BY DEF LineView, WriteControl
<1>4. Op \in {"sda0", "sda1", "scl0", "scl1", "start", "stop"} /\ bus \in Levels
  BY DEF WriteControl, DeviceInv, BusTypeOK, Levels
<1>5. /\ [s EXCEPT !.msda = 0] = View(0, y, c) /\ [s EXCEPT !.msda = 1] = View(1, y, c)
      /\ [s EXCEPT !.mscl = 0] = View(x, 0, c) /\ [s EXCEPT !.mscl = 1] = View(x, 1, c)
  BY DEF View
<1> DEFINE o == Op
<1>6. o = Op
  OBVIOUS
<1>7. LineMove(o, s, t)
  BY <1>3
<1> HIDE DEF o, s
<1>8. CASE o \in {"sda0", "start"}
  <2>1. t = [s EXCEPT !.msda = 0]
    BY <1>7, <1>8 DEF LineMove
  <2>2. b = [bus EXCEPT !.msda = 0]
    BY <1>1, <1>6, <1>8
  <2>3. b.msda = 0 /\ b.mscl = y
    BY <1>4, <2>2 DEF Levels
  <2> QED
    BY <1>2, <1>3, <1>5, <2>1, <2>3
<1>9. CASE o \in {"sda1", "stop"}
  <2>1. t = [s EXCEPT !.msda = 1]
    BY <1>7, <1>9 DEF LineMove
  <2>2. b = [bus EXCEPT !.msda = 1]
    BY <1>1, <1>6, <1>9
  <2>3. b.msda = 1 /\ b.mscl = y
    BY <1>4, <2>2 DEF Levels
  <2> QED
    BY <1>2, <1>3, <1>5, <2>1, <2>3
<1>10. CASE o = "scl0"
  <2>1. t = [s EXCEPT !.mscl = 0]
    BY <1>7, <1>10 DEF LineMove
  <2>2. b = [bus EXCEPT !.mscl = 0]
    BY <1>1, <1>6, <1>10
  <2>3. b.msda = x /\ b.mscl = 0
    BY <1>4, <2>2 DEF Levels
  <2> QED
    BY <1>2, <1>3, <1>5, <2>1, <2>3
<1>11. CASE o = "scl1"
  <2>1. t = [s EXCEPT !.mscl = 1]
    BY <1>7, <1>11 DEF LineMove
  <2>2. b = [bus EXCEPT !.mscl = 1]
    BY <1>1, <1>6, <1>11
  <2>3. b.msda = x /\ b.mscl = 1
    BY <1>4, <2>2 DEF Levels
  <2> QED
    BY <1>2, <1>3, <1>5, <2>1, <2>3
<1> QED
  BY <1>4, <1>6, <1>8, <1>9, <1>10, <1>11

\* A step that leaves with an error, ...
LEMMA FailLines ==
  ASSUME DeviceInv, cleanup \in {"return", "stop"}, NEW e, Fail(e),
         cleanup = "stop" \/ Let(LineView)
  PROVE  cleanup' = "return" /\ Heading(LineView', todo')
<1>1. /\ cleanup' = "return" /\ bus' = bus
      /\ todo' = CASE cleanup = "stop" -> GenerateStop
                   [] cleanup = "message" -> MsgStop
                   [] OTHER -> <<>>
  BY DEF Fail, busVars
<1>2. LineView' = View(bus.msda, bus.mscl, 0)
  BY <1>1 DEF LineView
<1>3. CASE cleanup = "stop"
  BY <1>1, <1>2, <1>3, Headings
<1>4. CASE cleanup = "return"
  <2>1. bus.msda = 1 /\ bus.mscl = 1
    BY <1>4 DEF Let, LineView, View
  <2>2. todo' = <<>>
    BY <1>1, <1>4
  <2> QED
    BY <1>1, <1>2, <2>1, <2>2, Headings
<1> QED
  BY <1>1, <1>3, <1>4

\* ... and one that leaves for other operations.
LEMMA LeaveLines ==
  ASSUME Let(LineView), UNCHANGED <<busVars, cleanup>>,
         todo' \in {<<>>, GenerateStop, RecoverBus}
  PROVE  Heading(LineView', todo')
<1> DEFINE c == IF cleanup = "stop" THEN 1 ELSE 0
<1>1. LineView = View(1, 1, c) /\ LineView' = View(1, 1, c)
  BY DEF Let, LineView, View, busVars
<1> QED
  BY <1>1, Headings

\* Whatever the driver does next, the lines are let go in the end.
LEMMA LineStepLines ==
  ASSUME DeviceInv, cleanup \in {"return", "stop"}, Heading(LineView, todo), LineStep
  PROVE  cleanup' \in {"return", "stop"} /\ Heading(LineView', todo')
<1>1. todo # <<>> /\ Op = Head(todo)
  BY DEF LineStep, Op, WriteControl, PollSucceeds, PollTimeout, StopTimeout, BusFree, StopChecked,
     Sample, CheckAck, ByteRead, BusActive, Booted, BusRecovered, PulseChecked, Rejected
<1>2. PICK t : LineMove(Op, LineView, t) /\ Heading(t, Tail(todo))
  BY <1>1, HeadMoves
<1>a. \A o \in {"poll", "pollstop", "free", "idle", "boot", "quit", "break", "sample", "byte",
                "ack"} : Op = o => t = LineView
  BY <1>2 DEF LineMove
<1>b. /\ Op \in {"poll", "free", "ack"} => cleanup = "stop" \/ Let(LineView)
      /\ Op \in {"idle", "boot", "quit", "break"} => Let(LineView)
      /\ Op = "pollstop" => bus.mscl = 1
  <2>1. LineView.armed = 1 => cleanup = "stop"
    BY DEF LineView, View
  <2>2. LineView.mscl = bus.mscl
    BY DEF LineView, View
  <2>3. /\ Op \in {"poll", "free"} => LineView.armed = 1 \/ Let(LineView)
        /\ Op = "ack" => LineView.armed = 1
        /\ Op \in {"idle", "boot", "quit", "break"} => Let(LineView)
        /\ Op = "pollstop" => LineView.mscl = 1
    BY <1>2 DEF LineMove
  <2> QED
    BY <2>1, <2>2, <2>3
<1>c. UNCHANGED <<busVars, cleanup>> => LineView' = LineView
  BY DEF LineView, busVars
<1>4. CASE WriteControl
  <2>1. t = LineView' /\ todo' = Tail(todo) /\ cleanup' = cleanup
    BY <1>2, <1>4, ControlLines DEF WriteControl, Pop
  <2> QED
    BY <1>2, <2>1
<1>5. CASE Advance /\ Op \in {"poll", "pollstop", "free", "idle", "quit", "break"}
  <2>1. todo' = Tail(todo) /\ UNCHANGED <<busVars, cleanup>>
    BY <1>5 DEF Advance, Pop
  <2>2. t = LineView
    BY <1>5, <1>a
  <2> QED
    BY <1>2, <1>c, <2>1, <2>2
<1>6. CASE Sample \/ ByteRead
  <2>1. todo' = Tail(todo) /\ UNCHANGED <<busVars, cleanup>> /\ Op \in {"sample", "byte"}
    BY <1>6 DEF Sample, ByteRead, Pop
  <2>2. t = LineView
    BY <1>a, <2>1
  <2> QED
    BY <1>2, <1>c, <2>1, <2>2
<1>7. CASE PollSucceeds
  BY <1>5, <1>7 DEF PollSucceeds
<1>8. CASE PollTimeout
  BY <1>8, <1>b, FailLines DEF PollTimeout
<1>9. CASE StopTimeout
  <2>1. bus' = bus /\ cleanup' = cleanup /\ todo' = <<"stop">> /\ bus.mscl = 1
    BY <1>9, <1>b DEF StopTimeout, busVars
  <2>2. LineView' = View(bus.msda, 1, IF cleanup = "stop" THEN 1 ELSE 0)
    BY <2>1 DEF LineView
  <2> QED
    BY <2>1, <2>2, Headings
<1>10. CASE BusFree
  BY <1>5, <1>10, <1>b, FailLines DEF BusFree
<1>11. CASE StopChecked
  <2>1. CASE Advance
    BY <1>5, <1>11, <2>1 DEF StopChecked
  <2>2. CASE ~Advance
    <3>1. Op = "idle" /\ UNCHANGED <<busVars, cleanup>> /\ todo' = <<>>
      BY <1>11, <2>2 DEF StopChecked
    <3> QED
      BY <1>b, <3>1, LeaveLines
  <2> QED
    BY <2>1, <2>2
<1>12. CASE CheckAck
  <2>1. CASE Last(in) = 0
    <3>1. todo' = Tail(todo) /\ UNCHANGED <<busVars, cleanup>> /\ Op = "ack"
      BY <1>12, <2>1 DEF CheckAck, Pop
    <3>2. t = LineView
      BY <1>a, <3>1
    <3> QED
      BY <1>2, <1>c, <3>1, <3>2
  <2>2. CASE Last(in) # 0
    BY <1>12, <1>b, <2>2, FailLines DEF CheckAck
  <2> QED
    BY <2>1, <2>2
<1>13. CASE BusActive
  <2>1. todo' = Tail(todo) /\ cleanup' = "stop" /\ bus' = bus /\ Op = "active"
    BY <1>13 DEF BusActive, Pop, busVars
  <2>2. t = [LineView EXCEPT !.armed = 1]
    BY <1>2, <2>1 DEF LineMove
  <2>3. LineView' = View(bus.msda, bus.mscl, 1)
    BY <2>1 DEF LineView
  <2>4. t = View(bus.msda, bus.mscl, 1)
    BY <2>2 DEF LineView, View
  <2> QED
    BY <1>2, <2>1, <2>3, <2>4
<1>14. CASE Booted
  <2>1. Op = "boot" /\ UNCHANGED <<busVars, cleanup>> /\ todo' \in {<<>>, RecoverBus}
    BY <1>14 DEF Booted, LeaveFor
  <2> QED
    BY <1>b, <2>1, LeaveLines
<1>15. CASE BusRecovered \/ PulseChecked
  <2>1. CASE Advance
    BY <1>5, <1>15, <2>1 DEF BusRecovered, PulseChecked
  <2>2. CASE ~Advance
    <3>1. Op \in {"quit", "break"} /\ UNCHANGED <<busVars, cleanup>>
          /\ todo' \in {<<>>, GenerateStop}
      BY <1>15, <2>2 DEF BusRecovered, PulseChecked, LeaveFor
    <3> QED
      BY <1>b, <3>1, LeaveLines
  <2> QED
    BY <2>1, <2>2
<1>16. CASE Rejected
  BY <1>2, <1>16 DEF Rejected, LineMove
<1> QED
  BY <1>4, <1>6, <1>7, <1>8, <1>9, <1>10, <1>11, <1>12, <1>13, <1>14, <1>15, <1>16 DEF LineStep

-----------------------------------------------------------------------------
(* The script. *)

Stops(c) == c.op = "transfer" /\ c.msgs # <<>> => c.msgs[Len(c.msgs)].stop

\* What is left of the script belongs to the same lab as the call in progress,
\* and a call that has returned has nothing more to do.
ScriptInv ==
  /\ script \in Seq(Calls)
  /\ \A i \in 1 .. Len(script) : Stops(script[i])
  /\ \A i, j \in 1 .. Len(script) : script[i].op = "message" => script[j].op = "message"
  /\ call # NoCall =>
       /\ call \in Calls
       /\ \A i \in 1 .. Len(script) : call.op = "message" <=> script[i].op = "message"
  /\ call = NoCall => todo = <<>> /\ ret = "none" /\ attempt = 0
  /\ ret # "none" => todo = <<>>
  /\ attempt \in Nat

LinesInv == call.op # "message" => cleanup \in {"return", "stop"} /\ Heading(LineView, todo)

BoardInv == DeviceInv /\ ScriptInv /\ LinesInv

\* What a call is made of.
LEMMA CallFields ==
  ASSUME NEW c \in Calls
  PROVE  /\ c.op \in {"init", "probe", "write", "read", "transfer", "message"}
         /\ c.op = "write" => c.addr \in Nat /\ c.data \in Seq(Byte)
         /\ c.op = "read" => c.addr \in Nat /\ c.len \in Nat
         /\ c.op \in {"transfer", "message"} => c.msgs \in Seq(Msgs)
  BY DEF Calls, Msgs

\* An address of the memory, most significant byte first.
LEMMA AddressBytes ==
  ASSUME NEW a \in Nat, a < Limit
  PROVE  /\ MemoryAddress(a) \in Seq(Byte) /\ Len(MemoryAddress(a)) = AddressWidth
         /\ MemoryAddress(a) # <<>>
<1> DEFINE B == 2 ^ Width
<1>1. B \in Nat \ {0} /\ AddressWidth \in {1, 2}
  BY PowerFacts, BusAssumption
<1>2. Byte = 0 .. B - 1 /\ (AddressWidth = 2 => a < B * B)
  BY DEF Byte, Limit
<1>3. MemoryAddress(a) = IF AddressWidth = 1 THEN <<a % B>> ELSE <<a \div B, a % B>>
  BY DEF MemoryAddress
<1> HIDE DEF B
<1>4. a % B \in Byte
  BY <1>1, <1>2, Division
<1>5. AddressWidth = 2 => a \div B \in Byte
  BY <1>1, <1>2
<1> QED
  BY <1>1, <1>3, <1>4, <1>5

\* With both lines let go, a probe ...
LEMMA ProbeStarts ==
  ASSUME bus' = bus, bus.msda = 1, bus.mscl = 1, NEW dest, Probe(dest)
  PROVE  cleanup' \in {"return", "stop"} /\ Heading(LineView', todo')
<1>1. LineView' = View(1, 1, 0) /\ cleanup' = "return"
  BY DEF Probe, Perform, LineView
<1>2. todo' = ProbeOps(dest)
  BY DEF Probe, Perform, ProbeOps, Opening, Active
<1> QED
  BY <1>1, <1>2, CallHeadings

\* ... and a transfer begin well.
LEMMA TransferStarts ==
  ASSUME bus' = bus, bus.msda = 1, bus.mscl = 1, NEW dest, NEW msgs \in Seq(Msgs),
         msgs # <<>> => msgs[Len(msgs)].stop, Transfer(dest, msgs)
  PROVE  cleanup' \in {"return", "stop"} /\ Heading(LineView', todo')
<1>1. LineView' = View(1, 1, 0) /\ cleanup' = "return"
  BY DEF Transfer, Perform, LineView
<1>2. CASE todo' = <<>>
  BY <1>1, <1>2, Headings
<1>3. CASE ValidMessages(msgs) /\ todo' = Messages(dest, msgs)
  <2>1. msgs # <<>>
    BY <1>3 DEF ValidMessages
  <2> QED
    BY <1>1, <1>3, <2>1, CallHeadings
<1> QED
  BY <1>2, <1>3 DEF Transfer, Perform

\* The messages of eeprom.c.
LEMMA EepromMessages ==
  ASSUME NEW addr \in Nat, addr < Limit, NEW data \in Seq(Byte), NEW len \in Nat
  PROVE  LET w == <<Message(MemoryAddress(addr) \o data, FALSE, TRUE, FALSE)>>
             r == <<Message(MemoryAddress(addr), FALSE, FALSE, FALSE),
                    Message([i \in 1 .. len |-> 0], TRUE, TRUE, TRUE)>>
         IN /\ w \in Seq(Msgs) /\ Len(w) = 1 /\ w[1].stop
            /\ r \in Seq(Msgs) /\ Len(r) = 2 /\ r[2].stop
<1> DEFINE x == MemoryAddress(addr) \o data
           y == MemoryAddress(addr)
           z == [i \in 1 .. len |-> 0]
<1>1. y \in Seq(Byte) /\ x \in Seq(Byte)
  BY AddressBytes, ConcatProperties
<1>2. z \in Seq(Byte)
  <2>1. 0 \in Byte
    BY PowerFacts DEF Byte
  <2> QED
    BY <2>1
<1> HIDE DEF x, y, z
<1>3. /\ Message(x, FALSE, TRUE, FALSE) \in Msgs /\ Message(x, FALSE, TRUE, FALSE).stop
      /\ Message(y, FALSE, FALSE, FALSE) \in Msgs
      /\ Message(z, TRUE, TRUE, TRUE) \in Msgs /\ Message(z, TRUE, TRUE, TRUE).stop
  BY <1>1, <1>2 DEF Message, Msgs
<1>4. /\ <<Message(x, FALSE, TRUE, FALSE)>> \in Seq(Msgs)
      /\ <<Message(y, FALSE, FALSE, FALSE), Message(z, TRUE, TRUE, TRUE)>> \in Seq(Msgs)
  <2>1. ASSUME NEW a \in Msgs, NEW b \in Msgs PROVE <<a>> \in Seq(Msgs) /\ <<a, b>> \in Seq(Msgs)
    OBVIOUS
  <2> QED
    BY <1>3, <2>1
<1> QED
  BY <1>3, <1>4 DEF x, y, z

\* A call of main.
LEMMA NextCallLines ==
  ASSUME BoardInv, NextCall
  PROVE  LinesInv'
<1> DEFINE c == Head(script)
<1>1. /\ script # <<>> /\ todo = <<>> /\ call' = c /\ bus' = bus
      /\ CASE c.op = "init" -> BusSetup
           [] c.op = "probe" -> Probe(c.target)
           [] c.op = "write" -> WriteEeprom(c)
           [] c.op = "read" -> ReadEeprom(c)
           [] c.op = "transfer" -> Transfer(c.target, c.msgs)
           [] c.op = "message" -> MsgTransfer(c.target, c.msgs)
  BY DEF NextCall, busVars
<1>2. Len(script) \in Nat \ {0} /\ c = script[1]
  BY <1>1 DEF BoardInv, ScriptInv
<1>a. 1 \in 1 .. Len(script)
  BY <1>2
<1>3. c \in Calls /\ Stops(c)
  BY <1>2, <1>a DEF BoardInv, ScriptInv
<1>4. SUFFICES ASSUME c.op # "message"
               PROVE  cleanup' \in {"return", "stop"} /\ Heading(LineView', todo')
  BY <1>1 DEF LinesInv
<1>5. call.op # "message"
  <2>1. CASE call = NoCall
    BY <2>1 DEF NoCall
  <2>2. CASE call # NoCall
    BY <1>2, <1>4, <1>a, <2>2 DEF BoardInv, ScriptInv
  <2> QED
    BY <2>1, <2>2
<1>6. bus.msda = 1 /\ bus.mscl = 1
  <2>1. Heading(LineView, <<>>)
    BY <1>1, <1>5 DEF BoardInv, LinesInv
  <2>2. PICK u : Leads(Lines, LineView, <<>>, u) /\ u.msda = 1 /\ u.mscl = 1
    BY <2>1 DEF Heading
  <2>3. LineView = u
    BY <2>2, LeadsNone
  <2> QED
    BY <2>2, <2>3 DEF LineView, View
<1>b. c.op = "transfer" => (c.msgs # <<>> => c.msgs[Len(c.msgs)].stop)
  BY <1>3 DEF Stops
<1> HIDE DEF c
<1>7. CASE c.op = "init"
  <2>1. BusSetup
    BY <1>1, <1>7
  <2>2. LineView' = View(1, 1, 0) /\ cleanup' = "return" /\ todo' = <<"sda1", "scl1", "boot">>
    BY <1>1, <1>6, <2>1 DEF BusSetup, Perform, LineView
  <2> QED
    BY <2>2, Headings
<1>8. CASE c.op = "probe"
  <2>1. Probe(c.target)
    BY <1>1, <1>8
  <2> QED
    BY <1>1, <1>6, <2>1, ProbeStarts
<1>e. ASSUME NEW r, Perform(<<>>, r, "return")
      PROVE  cleanup' \in {"return", "stop"} /\ Heading(LineView', todo')
  <2>2. LineView' = View(1, 1, 0) /\ cleanup' = "return" /\ todo' = <<>>
    BY <1>1, <1>6, <1>e DEF Perform, LineView
  <2> QED
    BY <2>2, Headings
<1>9. CASE c.op = "write"
  <2>1. WriteEeprom(c) /\ c.addr \in Nat /\ c.data \in Seq(Byte)
    BY <1>1, <1>3, <1>9, CallFields
  <2>2. CASE WriteResult(c.addr, c.data) # "OK"
    BY <1>e, <2>1, <2>2 DEF WriteEeprom
  <2>3. CASE WriteResult(c.addr, c.data) = "OK"
    <3> DEFINE w == <<Message(MemoryAddress(c.addr) \o c.data, FALSE, TRUE, FALSE)>>
    <3>1. c.addr < Limit
      BY <2>3 DEF WriteResult, ValidRange
    <3>2. w \in Seq(Msgs) /\ Len(w) = 1 /\ w[1].stop
      BY <2>1, <3>1, EepromMessages
    <3>3. Transfer(TargetAddr, w)
      BY <2>1, <2>3 DEF WriteEeprom
    <3> HIDE DEF w
    <3> QED
      BY <1>1, <1>6, <3>2, <3>3, TransferStarts
  <2> QED
    BY <2>2, <2>3
<1>10. CASE c.op = "read"
  <2>1. ReadEeprom(c) /\ c.addr \in Nat /\ c.len \in Nat
    BY <1>1, <1>3, <1>10, CallFields
  <2>2. CASE ReadResult(c.addr, c.len) # "OK"
    BY <1>e, <2>1, <2>2 DEF ReadEeprom
  <2>3. CASE ReadResult(c.addr, c.len) = "OK"
    <3> DEFINE r == <<Message(MemoryAddress(c.addr), FALSE, FALSE, FALSE),
                      Message([i \in 1 .. c.len |-> 0], TRUE, TRUE, TRUE)>>
    <3>1. c.addr < Limit
      BY <2>3 DEF ReadResult, ValidRange
    <3>a. <<>> \in Seq(Byte)
      OBVIOUS
    <3>2. r \in Seq(Msgs) /\ Len(r) = 2 /\ r[2].stop
      BY <2>1, <3>1, <3>a, EepromMessages
    <3>3. Transfer(TargetAddr, r)
      BY <2>1, <2>3 DEF ReadEeprom
    <3> HIDE DEF r
    <3> QED
      BY <1>1, <1>6, <3>2, <3>3, TransferStarts
  <2> QED
    BY <2>2, <2>3
<1>11. CASE c.op = "transfer"
  <2>1. Transfer(c.target, c.msgs) /\ c.msgs \in Seq(Msgs)
    BY <1>1, <1>3, <1>11, CallFields
  <2> QED
    BY <1>1, <1>6, <1>11, <1>b, <2>1, TransferStarts
<1> QED
  BY <1>3, <1>4, <1>7, <1>8, <1>9, <1>10, <1>11, CallFields

\* The script keeps.
LEMMA ScriptStep ==
  ASSUME ScriptInv, [BoardNext]_i2cVars
  PROVE  ScriptInv'
<1> USE DEF ScriptInv
<1>n. NoCall.op # "message" /\ NoCall.op # "write"
  BY DEF NoCall
<1>1. CASE UNCHANGED <<script, call, ret, attempt>> /\ (ret = "none" \/ todo' = todo)
           /\ (call # NoCall \/ todo' = todo)
  <2>1. script' = script /\ call' = call /\ ret' = ret /\ attempt' = attempt
    BY <1>1
  <2>2. /\ ret # "none" => todo' = <<>>
        /\ call = NoCall => todo' = <<>>
    BY <1>1
  <2> QED
    BY <2>1, <2>2 DEF Stops
<1>2. CASE LineStep /\ UNCHANGED boardVars
  <2>1. todo # <<>>
    BY <1>2 DEF LineStep, Op, WriteControl, PollSucceeds, PollTimeout, StopTimeout, BusFree,
       StopChecked, Sample, CheckAck, ByteRead, BusActive, Booted, BusRecovered, PulseChecked,
       Rejected
  <2>2. ret = "none" /\ call # NoCall
    BY <2>1
  <2>3. UNCHANGED <<script, call, ret, attempt>>
    BY <1>2 DEF boardVars
  <2> QED
    BY <1>1, <2>2, <2>3
<1>3. CASE (Unstretch \/ WriteCycleDone) /\ UNCHANGED <<masterVars, boardVars>>
  BY <1>1, <1>3 DEF boardVars, masterVars
<1>4. CASE todo = <<>> /\ call # NoCall /\ \E r : CallReturns(r)
  <2>1. PICK r : CallReturns(r)
    BY <1>4
  <2>2. /\ call' = call /\ todo' = todo /\ attempt' = 0 /\ script' \in {script, <<>>}
    BY <2>1 DEF CallReturns, masterVars
  <2>3. CASE script' = script
    BY <1>4, <2>2, <2>3 DEF Stops
  <2>4. CASE script' = <<>>
    <3>1. Len(script') = 0
      BY <2>4
    <3> QED
      BY <1>4, <2>2, <2>4, <3>1
  <2> QED
    BY <2>2, <2>3, <2>4
<1>5. CASE /\ call # NoCall /\ ret = "none" /\ attempt' \in Nat
           /\ UNCHANGED <<script, call, ret>>
  <2>1. script' = script /\ call' = call /\ ret' = ret
    BY <1>5
  <2> QED
    BY <1>5, <2>1 DEF Stops
<1>6. CASE TransferDone
  BY <1>4, <1>5, <1>6 DEF TransferDone
<1>7. CASE WaitReady
  <2>1. call # NoCall
    BY <1>7 DEF WaitReady
  <2> QED
    BY <1>4, <1>5, <1>7, <2>1 DEF WaitReady
<1>8. CASE Boot
  <2>1. script' \in Scripts /\ call = NoCall /\ call' = NoCall /\ todo' = todo /\ ret' = ret
        /\ attempt' = attempt
    BY <1>8 DEF Boot, masterVars
  <2>2. /\ script' \in Seq(Calls)
        /\ \A i \in 1 .. Len(script') : Stops(script'[i])
        /\ \A i, j \in 1 .. Len(script') : script'[i].op = "message" => script'[j].op = "message"
    BY <2>1, ScriptAssumption DEF Stops
  <2> QED
    BY <2>1, <2>2 DEF Stops
<1>9. CASE NextCall
  <2>1. /\ script # <<>> /\ call' = Head(script) /\ script' = Tail(script) /\ ret' = "none"
        /\ attempt' = 0
    BY <1>9 DEF NextCall
  <2>2. /\ Len(script) \in Nat \ {0} /\ Head(script) = script[1] /\ Tail(script) \in Seq(Calls)
        /\ Len(Tail(script)) = Len(script) - 1
        /\ \A i \in 1 .. Len(Tail(script)) : Tail(script)[i] = script[i + 1]
    BY <2>1, HeadTailProperties
  <2>3. /\ 1 \in 1 .. Len(script)
        /\ \A i \in 1 .. Len(Tail(script)) : i + 1 \in 1 .. Len(script)
    BY <2>2
  <2>4. call' \in Calls /\ call' # NoCall
    <3>1. call' \in Calls
      BY <2>1, <2>2, <2>3
    <3> QED
      BY <3>1, CallFields DEF NoCall
  <2>5. \A i \in 1 .. Len(script') :
          /\ Stops(script'[i])
          /\ call'.op = "message" <=> script'[i].op = "message"
    BY <2>1, <2>2, <2>3
  <2>6. \A i, j \in 1 .. Len(script') : script'[i].op = "message" => script'[j].op = "message"
    BY <2>1, <2>2, <2>3
  <2>7. script' \in Seq(Calls) /\ 0 \in Nat
    BY <2>1, <2>2
  <2> QED
    BY <2>1, <2>4, <2>5, <2>6, <2>7 DEF Stops
<1>10. CASE Reset
  <2>1. script' = <<>> /\ call' = NoCall /\ todo' = <<>> /\ ret' = "none" /\ attempt' = 0
    BY <1>10 DEF Reset, Perform
  <2>2. Len(script') = 0
    BY <2>1
  <2> QED
    BY <2>1, <2>2
<1>11. CASE Stopped \/ UNCHANGED i2cVars
  BY <1>1, <1>11 DEF Stopped, i2cVars, boardVars, masterVars
<1> QED
  BY <1>2, <1>3, <1>6, <1>7, <1>8, <1>9, <1>10, <1>11 DEF BoardNext

\* So do the lines.
LEMMA LinesStep ==
  ASSUME BoardInv, [BoardNext]_i2cVars
  PROVE  LinesInv'
<1>0. DeviceInv /\ ScriptInv /\ LinesInv
  BY DEF BoardInv
<1>n. NoCall.op # "message"
  BY DEF NoCall
<1>1. CASE call' = call /\ bus'.msda = bus.msda /\ bus'.mscl = bus.mscl
           /\ UNCHANGED <<todo, cleanup>>
  BY <1>0, <1>1 DEF LinesInv, LineView
<1>2. CASE LineStep /\ UNCHANGED boardVars
  <2>1. call' = call
    BY <1>2 DEF boardVars
  <2> QED
    BY <1>0, <1>2, <2>1, LineStepLines DEF LinesInv
<1>3. CASE Unstretch /\ UNCHANGED <<masterVars, boardVars>>
  <2> DEFINE b == [bus EXCEPT !.hold = FALSE]
  <2>1. b \in Levels /\ Drive(b) /\ b.msda = bus.msda /\ b.mscl = bus.mscl
    BY <1>0, <1>3 DEF DeviceInv, BusTypeOK, Levels, Unstretch
  <2> HIDE DEF b
  <2>2. bus'.msda = bus.msda /\ bus'.mscl = bus.mscl
    BY <1>0, <2>1, DriveLines
  <2> QED
    BY <1>1, <1>3, <2>2 DEF masterVars, boardVars
<1>4. CASE WriteCycleDone /\ UNCHANGED <<masterVars, boardVars>>
  BY <1>1, <1>4 DEF WriteCycleDone, masterVars, boardVars
<1>5. CASE UNCHANGED <<busVars, masterVars, call>>
  BY <1>1, <1>5 DEF busVars, masterVars
<1>6. CASE /\ todo = <<>> /\ call.op # "message" /\ call' = call /\ bus' = bus
           /\ Probe(TargetAddr)
  <2>1. Heading(LineView, <<>>)
    BY <1>0, <1>6 DEF LinesInv
  <2>2. PICK u : Leads(Lines, LineView, <<>>, u) /\ u.msda = 1 /\ u.mscl = 1
    BY <2>1 DEF Heading
  <2>3. LineView = u
    BY <2>2, LeadsNone
  <2>4. bus.msda = 1 /\ bus.mscl = 1
    BY <2>2, <2>3 DEF LineView, View
  <2> QED
    BY <1>6, <2>4, ProbeStarts DEF LinesInv
<1>7. CASE TransferDone
  <2>1. CASE \E r : CallReturns(r)
    BY <1>5, <2>1 DEF CallReturns
  <2>2. CASE /\ call.op = "write" /\ Probe(TargetAddr)
             /\ UNCHANGED <<busVars, script, call, ret, resets>>
    BY <1>6, <1>7, <2>2 DEF TransferDone, busVars
  <2> QED
    BY <1>7, <2>1, <2>2 DEF TransferDone
<1>8. CASE WaitReady
  <2>1. CASE \E r : CallReturns(r)
    BY <1>5, <2>1 DEF CallReturns
  <2>2. CASE Probe(TargetAddr) /\ UNCHANGED <<busVars, script, call, ret, resets>>
    <3>1. CASE call.op = "message"
      BY <2>2, <3>1 DEF LinesInv
    <3>2. CASE call.op # "message"
      BY <1>6, <1>8, <2>2, <3>2 DEF WaitReady, busVars
    <3> QED
      BY <3>1, <3>2
  <2> QED
    BY <1>8, <2>1, <2>2 DEF WaitReady
<1>9. CASE Boot
  BY <1>1, <1>9 DEF Boot, masterVars
<1>10. CASE NextCall
  BY <1>10, NextCallLines
<1>11. CASE Reset
  <2> DEFINE b == [bus EXCEPT !.msda = 1, !.mscl = 1]
  <2>1. b \in Levels /\ Drive(b) /\ b.msda = 1 /\ b.mscl = 1
    BY <1>0, <1>11 DEF DeviceInv, BusTypeOK, Levels, Reset
  <2> HIDE DEF b
  <2>2. bus'.msda = 1 /\ bus'.mscl = 1
    BY <1>0, <2>1, DriveLines
  <2>3. cleanup' = "return" /\ todo' = <<>>
    BY <1>11 DEF Reset, Perform
  <2>4. LineView' = View(1, 1, 0)
    BY <2>2, <2>3 DEF LineView
  <2> QED
    BY <2>3, <2>4, Headings DEF LinesInv
<1>12. CASE Stopped \/ UNCHANGED i2cVars
  BY <1>5, <1>12 DEF Stopped, i2cVars, boardVars
<1> QED
  BY <1>2, <1>3, <1>4, <1>7, <1>8, <1>9, <1>10, <1>11, <1>12 DEF BoardNext

\* The invariant of the board, from the start.
LEMMA BoardStart ==
  ASSUME BoardInit
  PROVE  BoardInv
<1>1. /\ bus.msda = 1 /\ bus.mscl = 1 /\ todo = <<>> /\ cleanup = "return"
      /\ script = <<>> /\ call = NoCall /\ attempt = 0 /\ ret = "none"
  BY DEF BoardInit, BusInit, MasterInit
<1>2. ScriptInv
  <2>1. Len(script) = 0 /\ script \in Seq(Calls)
    BY <1>1
  <2> QED
    BY <1>1, <2>1 DEF ScriptInv
<1>3. LinesInv
  <2>1. LineView = View(1, 1, 0)
    BY <1>1 DEF LineView
  <2> QED
    BY <1>1, <2>1, Headings DEF LinesInv
<1> QED
  BY <1>2, <1>3, DeviceStart DEF BoardInv

\* Every step keeps it, ...
LEMMA BoardStep ==
  ASSUME BoardInv, [BoardNext]_i2cVars
  PROVE  BoardInv'
<1>1. DeviceInv'
  BY DeviceStep DEF BoardInv
<1>2. ScriptInv'
  BY ScriptStep DEF BoardInv
<1>3. LinesInv'
  BY LinesStep
<1> QED
  BY <1>1, <1>2, <1>3 DEF BoardInv

\* ... so it holds always.
LEMMA BoardInvariance == BoardSpec => []BoardInv
<1>1. BoardInit => BoardInv
  BY BoardStart
<1>2. BoardInv /\ [BoardNext]_i2cVars => BoardInv'
  BY BoardStep
<1> QED
  BY <1>1, <1>2, PTL DEF BoardSpec

\* The board stays well typed, and the device sound.
THEOREM BusTypeCorrect == BoardSpec => []BusTypeOK
<1>1. BoardInv => BusTypeOK
  BY DEF BoardInv, DeviceInv
<1> QED
  BY <1>1, BoardInvariance, PTL

\* When a call of lab 14 has returned, the master pulls no line.
LEMMA Released ==
  ASSUME BoardInv, ret # "none", call.op # "message"
  PROVE  bus.msda = 1 /\ bus.mscl = 1
<1>1. Heading(LineView, <<>>)
  BY DEF BoardInv, LinesInv, ScriptInv
<1>2. PICK u : Leads(Lines, LineView, <<>>, u) /\ u.msda = 1 /\ u.mscl = 1
  BY <1>1 DEF Heading
<1>3. LineView = u
  BY <1>2, LeadsNone
<1> QED
  BY <1>2, <1>3 DEF LineView, View

\* An operation that moves SDA while the clock is high is a START or a STOP.
LEMMA StraySteps ==
  ASSUME BoardInv, [BoardNext]_i2cVars, SCL(bus), SCL(bus'), SDA(bus) # SDA(bus'), call' # NoCall,
         call.op # "message"
  PROVE  Op \in {"start", "stop"}
<1>0. DeviceInv /\ ScriptInv /\ LinesInv
  BY DEF BoardInv
<1>1. CASE WriteControl
  <2> DEFINE o == Op
             s == LineView
  <2>1. todo # <<>> /\ o = Head(todo)
    BY <1>1 DEF WriteControl, Op
  <2>2. PICK t : LineMove(o, s, t)
    BY <1>0, <2>1, HeadMoves DEF LinesInv
  <2>3. s.msda = bus.msda /\ s.mscl = bus.mscl
    BY DEF LineView, View
  <2>4. PICK b \in Levels :
          /\ Drive(b)
          /\ b = CASE o \in {"sda0", "start"} -> [bus EXCEPT !.msda = 0]
                   [] o \in {"sda1", "stop"}  -> [bus EXCEPT !.msda = 1]
                   [] o = "scl0" -> [bus EXCEPT !.mscl = 0]
                   [] o = "scl1" -> [bus EXCEPT !.mscl = 1]
    BY <1>0, <1>1, WriteControlLevels
  <2>5. bus.mscl = 1 /\ bus'.mscl = 1 /\ bus \in Levels
    BY <1>0 DEF SCL, DeviceInv, BusTypeOK, Levels
  <2>6. bus'.mscl = b.mscl
    BY <1>0, <2>4, DriveLines
  <2>7. o \in {"sda0", "sda1", "scl0", "scl1", "start", "stop"}
    BY <1>1 DEF WriteControl
  <2>8. b = bus => bus' = bus
    <3>1. SUFFICES ASSUME b = bus PROVE bus' = bus
      OBVIOUS
    <3> QED
      BY <2>4, <3>1 DEF Drive, SDA, SCL
  <2>9. bus' # bus
    BY DEF SDA
  <2> HIDE DEF o, s
  <2>10. CASE o = "sda0"
    BY <2>2, <2>3, <2>5, <2>10 DEF LineMove
  <2>11. CASE o = "sda1"
    <3>1. bus.msda = 1
      BY <2>2, <2>3, <2>5, <2>11 DEF LineMove
    <3>2. b = [bus EXCEPT !.msda = 1]
      BY <2>4, <2>11
    <3>3. b = bus
      BY <2>5, <3>1, <3>2 DEF Levels
    <3> QED
      BY <2>8, <2>9, <3>3
  <2>12. CASE o = "scl0"
    <3>1. b = [bus EXCEPT !.mscl = 0]
      BY <2>4, <2>12
    <3>2. b.mscl = 0
      BY <2>5, <3>1 DEF Levels
    <3> QED
      BY <2>5, <2>6, <3>2
  <2>13. CASE o = "scl1"
    <3>1. b = [bus EXCEPT !.mscl = 1]
      BY <2>4, <2>13
    <3>2. b = bus
      BY <2>5, <3>1 DEF Levels
    <3> QED
      BY <2>8, <2>9, <3>2
  <2> QED
    BY <2>7, <2>10, <2>11, <2>12, <2>13 DEF o
<1>2. CASE bus' = bus
  BY <1>2
<1>3. CASE LineStep /\ ~WriteControl
  <2>1. bus' = bus
    BY <1>3 DEF LineStep, PollSucceeds, PollTimeout, StopTimeout, BusFree, StopChecked,
       Sample, CheckAck, ByteRead, BusActive, Booted, BusRecovered, PulseChecked, Rejected,
       Advance, LeaveFor, Fail, busVars
  <2> QED
    BY <1>2, <2>1
<1>4. CASE Unstretch
  BY <1>4 DEF Unstretch, SCL
<1>5. CASE Reset
  BY <1>5 DEF Reset
<1>6. CASE \/ WriteCycleDone \/ TransferDone \/ WaitReady \/ Boot \/ NextCall \/ Stopped
           \/ UNCHANGED i2cVars
  <2>1. bus' = bus
    BY <1>6 DEF WriteCycleDone, TransferDone, WaitReady, Boot, NextCall, Stopped, CallReturns,
       i2cVars, busVars
  <2> QED
    BY <1>2, <2>1
<1> QED
  BY <1>1, <1>3, <1>4, <1>5, <1>6 DEF BoardNext

\* SDA moves while SCL is high only in START and STOP: no data bit is taken for one.
THEOREM NoStray == BoardSpec => NoStrayCondition
<1>1. BoardInv /\ [BoardNext]_i2cVars =>
        [SCL(bus) /\ SCL(bus') /\ SDA(bus) # SDA(bus') /\ call' # NoCall /\ call.op # "message"
           => Op \in {"start", "stop"}]_i2cVars
  BY StraySteps
<1> QED
  BY <1>1, BoardInvariance, PTL DEF BoardSpec, NoStrayCondition
=============================================================================
