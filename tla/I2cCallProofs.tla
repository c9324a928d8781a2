---------------------------- MODULE I2cCallProofs ----------------------------
(***************************************************************************)
(* Proofs about the calls of labs 13 and 14, for bytes of any width, any   *)
(* memory, scripts and resets: a call of eeprom.c that succeeds has told   *)
(* the truth about the memory, however the clock was stretched; and what   *)
(* lab 13 reports as sent has arrived, when nothing stretches the clock    *)
(* and the data stay on a page.                                            *)
(*                                                                         *)
(* Three views of a device are followed through the programs of the calls: *)
(* one that is busy and so does not answer, whose silence the driver       *)
(* notices at the first ACK (Deaf); one that answers, with what it makes   *)
(* of every edge (Data); and either of the two under lab 13's driver       *)
(* (Plain). DataInv says which of them holds of a call of eeprom.c: the    *)
(* START is still to come (Ahead), it was not heard (Doomed), it was heard *)
(* and the rest of the program leads to the end of the call (Tracking), or *)
(* the STOP has been seen (Closing). Lab13Inv says the same of each        *)
(* message of a call of lab 13 (MsgAhead, MsgTracking, MsgClosing).        *)
(***************************************************************************)
EXTENDS EepromProofs

-----------------------------------------------------------------------------
(* What the blocks do to a device that answers. *)

NotBusy == FALSE

\* A device that is not busy.
Dev(st, n, sh, words, ptr, page) ==
  [st |-> st, n |-> n, sh |-> sh, words |-> words, ptr |-> ptr, page |-> page,
   busy |-> NotBusy]

\* Its fields, ...
LEMMA DevFields ==
  ASSUME NEW st, NEW n, NEW sh, NEW words, NEW ptr, NEW page
  PROVE  LET d == Dev(st, n, sh, words, ptr, page) IN
         /\ d.st = st /\ d.n = n /\ d.sh = sh /\ d.words = words /\ d.ptr = ptr /\ d.page = page
         /\ d.busy = NotBusy
  BY DEF Dev

\* ... and some of them changed.
ByteBits(d, x, y) == [d EXCEPT !.n = x, !.sh = y]
NextCell(d, x, y) == [d EXCEPT !.n = x, !.ptr = y]
WordTaken(d, x, y, z) == [d EXCEPT !.ptr = x, !.words = y, !.st = z]
WriteCalled(d, x, y, z) == [d EXCEPT !.st = x, !.words = y, !.ptr = z]
Called(d, x, y, z, w) == [d EXCEPT !.st = x, !.n = y, !.sh = z, !.page = w]
ToState(d, x) == [d EXCEPT !.st = x]
ToClock(d, x) == [d EXCEPT !.n = x]
ToPage(d, x) == [d EXCEPT !.page = x]

\* That makes another such device.
LEMMA DevChanges ==
  ASSUME NEW st, NEW n, NEW sh, NEW words, NEW ptr, NEW page
  PROVE  LET d == Dev(st, n, sh, words, ptr, page) IN
         /\ \A x, y : ByteBits(d, x, y) = Dev(st, x, y, words, ptr, page)
         /\ \A x, y : NextCell(d, x, y) = Dev(st, x, sh, words, y, page)
         /\ \A x, y, z : WordTaken(d, x, y, z) = Dev(z, n, sh, y, x, page)
         /\ \A x, y, z : WriteCalled(d, x, y, z) = Dev(x, n, sh, y, z, page)
         /\ \A x, y, z, w : Called(d, x, y, z, w) = Dev(x, y, z, words, ptr, w)
         /\ \A x : ToState(d, x) = Dev(x, n, sh, words, ptr, page)
         /\ \A x : ToClock(d, x) = Dev(st, x, sh, words, ptr, page)
         /\ \A x : ToPage(d, x) = Dev(st, n, sh, words, ptr, x)
<1> DEFINE d == Dev(st, n, sh, words, ptr, page)
<1>1. ASSUME NEW x, NEW y
      PROVE  ByteBits(d, x, y) = Dev(st, x, y, words, ptr, page)
  <2> DEFINE d1 == Dev(st, x, sh, words, ptr, page)
             d2 == Dev(st, x, y, words, ptr, page)
  <2>1. [d EXCEPT !.n = x] = d1
    BY DEF Dev
  <2>2. [d1 EXCEPT !.sh = y] = d2
    BY DEF Dev
  <2> HIDE DEF d, d1, d2
  <2>3. ByteBits(d, x, y) = [[d EXCEPT !.n = x] EXCEPT !.sh = y]
    BY DEF ByteBits
  <2>4. ByteBits(d, x, y) = [d1 EXCEPT !.sh = y]
    BY <2>1, <2>3
  <2>5. ByteBits(d, x, y) = d2
    BY <2>2, <2>4
  <2> QED
    BY <2>5 DEF d2, d
<1>2. ASSUME NEW x, NEW y
      PROVE  NextCell(d, x, y) = Dev(st, x, sh, words, y, page)
  <2> DEFINE d1 == Dev(st, x, sh, words, ptr, page)
             d2 == Dev(st, x, sh, words, y, page)
  <2>1. [d EXCEPT !.n = x] = d1
    BY DEF Dev
  <2>2. [d1 EXCEPT !.ptr = y] = d2
    BY DEF Dev
  <2> HIDE DEF d, d1, d2
  <2>3. NextCell(d, x, y) = [[d EXCEPT !.n = x] EXCEPT !.ptr = y]
    BY DEF NextCell
  <2>4. NextCell(d, x, y) = [d1 EXCEPT !.ptr = y]
    BY <2>1, <2>3
  <2>5. NextCell(d, x, y) = d2
    BY <2>2, <2>4
  <2> QED
    BY <2>5 DEF d2, d
<1>3. ASSUME NEW x, NEW y, NEW z
      PROVE  WordTaken(d, x, y, z) = Dev(z, n, sh, y, x, page)
  <2> DEFINE d1 == Dev(st, n, sh, words, x, page)
             d2 == Dev(st, n, sh, y, x, page)
             d3 == Dev(z, n, sh, y, x, page)
  <2>1. [d EXCEPT !.ptr = x] = d1
    BY DEF Dev
  <2>2. [d1 EXCEPT !.words = y] = d2
    BY DEF Dev
  <2>3. [d2 EXCEPT !.st = z] = d3
    BY DEF Dev
  <2> HIDE DEF d, d1, d2, d3
  <2>4. WordTaken(d, x, y, z) = [[[d EXCEPT !.ptr = x] EXCEPT !.words = y] EXCEPT !.st = z]
    BY DEF WordTaken
  <2>5. WordTaken(d, x, y, z) = [[d1 EXCEPT !.words = y] EXCEPT !.st = z]
    BY <2>1, <2>4
  <2>6. WordTaken(d, x, y, z) = [d2 EXCEPT !.st = z]
    BY <2>2, <2>5
  <2>7. WordTaken(d, x, y, z) = d3
    BY <2>3, <2>6
  <2> QED
    BY <2>7 DEF d3, d
<1>4. ASSUME NEW x, NEW y, NEW z
      PROVE  WriteCalled(d, x, y, z) = Dev(x, n, sh, y, z, page)
  <2> DEFINE d1 == Dev(x, n, sh, words, ptr, page)
             d2 == Dev(x, n, sh, y, ptr, page)
             d3 == Dev(x, n, sh, y, z, page)
  <2>1. [d EXCEPT !.st = x] = d1
    BY DEF Dev
  <2>2. [d1 EXCEPT !.words = y] = d2
    BY DEF Dev
  <2>3. [d2 EXCEPT !.ptr = z] = d3
    BY DEF Dev
  <2> HIDE DEF d, d1, d2, d3
  <2>4. WriteCalled(d, x, y, z) = [[[d EXCEPT !.st = x] EXCEPT !.words = y] EXCEPT !.ptr = z]
    BY DEF WriteCalled
  <2>5. WriteCalled(d, x, y, z) = [[d1 EXCEPT !.words = y] EXCEPT !.ptr = z]
    BY <2>1, <2>4
  <2>6. WriteCalled(d, x, y, z) = [d2 EXCEPT !.ptr = z]
    BY <2>2, <2>5
  <2>7. WriteCalled(d, x, y, z) = d3
    BY <2>3, <2>6
  <2> QED
    BY <2>7 DEF d3, d
<1>5. ASSUME NEW x, NEW y, NEW z, NEW w
      PROVE  Called(d, x, y, z, w) = Dev(x, y, z, words, ptr, w)
  <2> DEFINE d1 == Dev(x, n, sh, words, ptr, page)
             d2 == Dev(x, y, sh, words, ptr, page)
             d3 == Dev(x, y, z, words, ptr, page)
             d4 == Dev(x, y, z, words, ptr, w)
  <2>1. [d EXCEPT !.st = x] = d1
    BY DEF Dev
  <2>2. [d1 EXCEPT !.n = y] = d2
    BY DEF Dev
  <2>3. [d2 EXCEPT !.sh = z] = d3
    BY DEF Dev
  <2>4. [d3 EXCEPT !.page = w] = d4
    BY DEF Dev
  <2> HIDE DEF d, d1, d2, d3, d4
  <2>5. Called(d, x, y, z, w)
        = [[[[d EXCEPT !.st = x] EXCEPT !.n = y] EXCEPT !.sh = z] EXCEPT !.page = w]
    BY DEF Called
  <2>6. Called(d, x, y, z, w) = [[[d1 EXCEPT !.n = y] EXCEPT !.sh = z] EXCEPT !.page = w]
    BY <2>1, <2>5
  <2>7. Called(d, x, y, z, w) = [[d2 EXCEPT !.sh = z] EXCEPT !.page = w]
    BY <2>2, <2>6
  <2>8. Called(d, x, y, z, w) = [d3 EXCEPT !.page = w]
    BY <2>3, <2>7
  <2>9. Called(d, x, y, z, w) = d4
    BY <2>4, <2>8
  <2> QED
    BY <2>9 DEF d4, d
<1>6. ASSUME NEW x
      PROVE  ToState(d, x) = Dev(x, n, sh, words, ptr, page)
  BY DEF Dev, ToState
<1>7. ASSUME NEW x
      PROVE  ToClock(d, x) = Dev(st, x, sh, words, ptr, page)
  BY DEF Dev, ToClock
<1>8. ASSUME NEW x
      PROVE  ToPage(d, x) = Dev(st, n, sh, words, ptr, x)
  BY DEF Dev, ToPage
<1> QED
  BY <1>1, <1>2, <1>3, <1>4, <1>5, <1>6, <1>7, <1>8

\* What hears a byte.
Ears == {"addr", "word", "data"}

\* A rising edge of the clock: a bit heard, ...
LEMMA EdgeBit ==
  ASSUME NEW st \in Ears, NEW n \in Nat, n < Width, NEW sh, NEW words, NEW ptr, NEW page, NEW bit
  PROVE  AtEdge(Dev(st, n, sh, words, ptr, page), bit)
         = Dev(st, n + 1, 2 * sh + bit, words, ptr, page)
<1> DEFINE d == Dev(st, n, sh, words, ptr, page)
           x == n + 1
           y == 2 * sh + bit
<1>1. d.st = st /\ d.n = n /\ d.sh = sh
  BY DevFields
<1>2. ByteBits(d, x, y) = Dev(st, x, y, words, ptr, page)
  BY DevChanges
<1>3. st \in {"addr", "word", "data"}
  BY DEF Ears
<1> HIDE DEF d
<1>4. Hears(d)
  BY <1>1, <1>3 DEF Hears
<1>5. AtEdge(d, bit) = BitHeard(d, bit)
  BY <1>1, <1>4 DEF AtEdge
<1>6. BitHeard(d, bit) = ByteBits(d, x, y)
  BY <1>1 DEF BitHeard, ByteBits
<1> QED
  BY <1>2, <1>5, <1>6 DEF d

\* ... a byte acknowledged, ...
LEMMA EdgeAck ==
  ASSUME NEW st \in Ears, NEW sh, NEW words, NEW ptr, NEW page, NEW bit
  PROVE  LET e == AtEdge(Dev(st, Width, sh, words, ptr, page), bit) IN
         /\ st = "addr" /\ sh \div 2 = TargetAddr /\ sh % 2 = 1 =>
              e = Dev("read", Width + 1, 0, words, ptr, page)
         /\ st = "addr" /\ sh \div 2 = TargetAddr /\ sh % 2 # 1 =>
              e = Dev("word", Width + 1, 0, 0, 0, page)
         /\ st = "word" =>
              e = Dev(IF words + 1 = AddressWidth THEN "data" ELSE "word", Width + 1, 0, words + 1,
                      (ptr * 2 ^ Width + sh) % Cells, page)
         /\ st = "data" => e = Dev("data", Width + 1, 0, words, ptr, Append(page, sh))
<1> DEFINE d == Dev(st, Width, sh, words, ptr, page)
           w == Dev(st, Width + 1, 0, words, ptr, page)
           e == AtEdge(d, bit)
           p == (ptr * 2 ^ Width + sh) % Cells
           c == words + 1
           k == IF c = AddressWidth THEN "data" ELSE "word"
           g == Append(page, sh)
<1>1. d.st = st /\ d.n = Width /\ d.sh = sh /\ d.words = words /\ d.ptr = ptr /\ d.page = page
  BY DevFields
<1>2. w.words = words /\ w.page = page
  BY DevFields
<1>3. ByteBits(d, Width + 1, 0) = w
  BY DevChanges
<1>4. /\ ToState(w, "read") = Dev("read", Width + 1, 0, words, ptr, page)
      /\ WriteCalled(w, "word", 0, 0) = Dev("word", Width + 1, 0, 0, 0, page)
      /\ WordTaken(w, p, c, k) = Dev(k, Width + 1, 0, c, p, page)
      /\ ToPage(w, g) = Dev(st, Width + 1, 0, words, ptr, g)
  BY DevChanges
<1>5. st \in {"addr", "word", "data"} /\ ~(Width < Width)
  BY PowerFacts DEF Ears
<1> HIDE DEF d, w
<1>6. Hears(d)
  BY <1>1, <1>5 DEF Hears
<1>7. e = ByteTaken(d)
  BY <1>1, <1>5, <1>6 DEF AtEdge
<1>8. [d EXCEPT !.n = Width + 1, !.sh = 0] = w
  BY <1>3 DEF ByteBits
<1> HIDE DEF e, p, c, k, g
<1>9. st = "addr" /\ sh \div 2 = TargetAddr /\ sh % 2 = 1 => e = ToState(w, "read")
  BY <1>1, <1>7, <1>8 DEF ByteTaken, ToState
<1>10. st = "addr" /\ sh \div 2 = TargetAddr /\ sh % 2 # 1 => e = WriteCalled(w, "word", 0, 0)
  BY <1>1, <1>7, <1>8 DEF ByteTaken, WriteCalled
<1>11. st = "word" => e = WordTaken(w, p, c, k)
  <2>1. st = "word" =>
          e = [w EXCEPT !.ptr = p, !.words = @ + 1, !.st = k]
    BY <1>1, <1>7, <1>8 DEF ByteTaken, p, k, c
  <2>2. [w EXCEPT !.ptr = p, !.words = @ + 1, !.st = k]
        = [w EXCEPT !.ptr = p, !.words = words + 1, !.st = k]
    BY <1>2
  <2>3. [w EXCEPT !.ptr = p, !.words = words + 1, !.st = k] = WordTaken(w, p, c, k)
    BY DEF WordTaken, c
  <2> QED
    BY <2>1, <2>2, <2>3
<1>12. st = "data" => e = ToPage(w, g)
  <2>1. st = "data" => e = [w EXCEPT !.page = Append(@, sh)]
    BY <1>1, <1>7, <1>8 DEF ByteTaken
  <2>2. [w EXCEPT !.page = Append(@, sh)] = [w EXCEPT !.page = Append(page, sh)]
    BY <1>2
  <2>3. [w EXCEPT !.page = Append(page, sh)] = ToPage(w, g)
    BY DEF ToPage, g
  <2> QED
    BY <2>1, <2>2, <2>3
<1>13. st = "word" => e = Dev(k, Width + 1, 0, c, p, page)
  BY <1>4, <1>11
<1>14. st = "data" => e = Dev("data", Width + 1, 0, words, ptr, g)
  BY <1>4, <1>12
<1> QED
  BY <1>4, <1>9, <1>10, <1>13, <1>14 DEF e, d, p, c, k, g

\* ... a bit of a read, and its acknowledgement.
LEMMA EdgeRead ==
  ASSUME NEW n \in Nat, NEW sh, NEW words, NEW ptr, NEW page, NEW bit
  PROVE  /\ n < Width => AtEdge(Dev("read", n, sh, words, ptr, page), bit)
                           = Dev("read", n + 1, sh, words, ptr, page)
         /\ bit = 1 => AtEdge(Dev("read", Width, sh, words, ptr, page), bit)
                         = Dev("idle", Width, sh, words, ptr, page)
         /\ bit # 1 => AtEdge(Dev("read", Width, sh, words, ptr, page), bit)
                         = Dev("read", Width + 1, sh, words, (ptr + 1) % Cells, page)
<1> DEFINE d == Dev("read", n, sh, words, ptr, page)
           w == Dev("read", Width, sh, words, ptr, page)
           x == n + 1
           y == (ptr + 1) % Cells
<1>1. d.st = "read" /\ d.n = n
  BY DevFields
<1>2. w.st = "read" /\ w.n = Width /\ w.ptr = ptr
  BY DevFields
<1>3. ToClock(d, x) = Dev("read", x, sh, words, ptr, page)
  BY DevChanges
<1>4. /\ ToState(w, "idle") = Dev("idle", Width, sh, words, ptr, page)
      /\ NextCell(w, Width + 1, y) = Dev("read", Width + 1, sh, words, y, page)
  BY DevChanges
<1>5. ~(Width < Width)
  BY PowerFacts
<1> HIDE DEF d, w
<1>6. ~Hears(d) /\ ~Hears(w)
  BY <1>1, <1>2 DEF Hears
<1>7. n < Width => AtEdge(d, bit) = ToClock(d, x)
  <2>1. n < Width => AtEdge(d, bit) = [d EXCEPT !.n = @ + 1]
    BY <1>1, <1>6 DEF AtEdge
  <2>2. [d EXCEPT !.n = @ + 1] = ToClock(d, x)
    BY <1>1 DEF ToClock
  <2> QED
    BY <2>1, <2>2
<1>8. AtEdge(w, bit) = AckHeard(w, bit)
  BY <1>2, <1>5, <1>6 DEF AtEdge
<1>9. bit = 1 => AckHeard(w, bit) = ToState(w, "idle")
  BY DEF AckHeard, ToState
<1>10. bit # 1 => AckHeard(w, bit) = NextCell(w, Width + 1, y)
  BY <1>2 DEF AckHeard, NextCell
<1> QED
  BY <1>3, <1>4, <1>7, <1>8, <1>9, <1>10 DEF d, w

\* A falling edge, ...
LEMMA FallDevs ==
  ASSUME NEW st, NEW n, NEW sh, NEW words, NEW ptr, NEW page
  PROVE  /\ n # Width + 1 => Fallen(Dev(st, n, sh, words, ptr, page))
                               = Dev(st, n, sh, words, ptr, page)
         /\ Fallen(Dev(st, Width + 1, sh, words, ptr, page)) = Dev(st, 0, sh, words, ptr, page)
<1> DEFINE d == Dev(st, n, sh, words, ptr, page)
           w == Dev(st, Width + 1, sh, words, ptr, page)
<1>1. d.n = n /\ w.n = Width + 1
  BY DevFields
<1>2. ToClock(d, n) = d /\ ToClock(w, 0) = Dev(st, 0, sh, words, ptr, page)
  BY DevChanges
<1> HIDE DEF d, w
<1>3. n # Width + 1 => Fallen(d) = ToClock(d, n)
  BY <1>1 DEF Fallen, ToClock
<1>4. Fallen(w) = ToClock(w, 0)
  BY <1>1 DEF Fallen, ToClock
<1> QED
  BY <1>2, <1>3, <1>4 DEF d, w

\* ... what the device puts out then, ...
LEMMA OutDevs ==
  ASSUME NEW st, NEW n, NEW sh, NEW words, NEW ptr, NEW page, NEW m
  PROVE  LET o == Out(Dev(st, n, sh, words, ptr, page), m) IN
         /\ st \in Ears /\ n # Width => o = 1
         /\ st \in {"word", "data"} /\ n = Width => o = 0
         /\ st = "addr" /\ n = Width /\ sh \div 2 = TargetAddr => o = 0
         /\ st = "read" /\ n < Width => o = Bit(m[ptr], n + 1)
         /\ st = "read" /\ ~(n < Width) => o = 1
         /\ st = "idle" => o = 1
<1> DEFINE d == Dev(st, n, sh, words, ptr, page)
<1>1. d.st = st /\ d.n = n /\ d.sh = sh /\ d.ptr = ptr
  BY DevFields
<1> HIDE DEF d
<1>2. Hears(d) <=> st \in {"addr", "word", "data"}
  BY <1>1 DEF Hears
<1>3. /\ st \in Ears /\ n # Width => Out(d, m) = 1
      /\ st \in {"word", "data"} /\ n = Width => Out(d, m) = 0
      /\ st = "addr" /\ n = Width /\ sh \div 2 = TargetAddr => Out(d, m) = 0
  BY <1>1, <1>2 DEF Out, Ears
<1>4. /\ st = "read" /\ n < Width => Out(d, m) = Bit(m[ptr], n + 1)
      /\ st = "read" /\ ~(n < Width) => Out(d, m) = 1
      /\ st = "idle" => Out(d, m) = 1
  BY <1>1, <1>2 DEF Out
<1> QED
  BY <1>3, <1>4 DEF d

\* ... and a START.
LEMMA StartDevs ==
  ASSUME NEW st, NEW n, NEW sh, NEW words, NEW ptr, NEW page
  PROVE  Started(Dev(st, n, sh, words, ptr, page)) = Dev("addr", 0, 0, words, ptr, <<>>)
<1> DEFINE d == Dev(st, n, sh, words, ptr, page)
<1>1. Called(d, "addr", 0, 0, <<>>) = Dev("addr", 0, 0, words, ptr, <<>>)
  BY DevChanges
<1>2. Started(d) = Called(d, "addr", 0, 0, <<>>)
  BY DEF Started, Called
<1> QED
  BY <1>1, <1>2

\* The level of SDA, as the two of them hold it.
Wired(a, x) == IF a = 1 /\ x = 1 THEN 1 ELSE 0

\* The fields of a view.
LEMMA TalkFields ==
  ASSUME NEW a, NEW b, NEW x, NEW w, NEW d, NEW i, NEW g
  PROVE  LET s == Talk(a, b, x, w, d, i, g) IN
         /\ s.msda = a /\ s.mscl = b /\ s.dsda = x /\ s.wait = w /\ s.d = d /\ s.in = i
         /\ s.got = g /\ Both(s) = Wired(a, x)
<1> DEFINE s == Talk(a, b, x, w, d, i, g)
<1>1. /\ s.msda = a /\ s.mscl = b /\ s.dsda = x /\ s.wait = w /\ s.d = d /\ s.in = i
      /\ s.got = g
  BY DEF Talk
<1> HIDE DEF s
<1>2. Both(s) = Wired(a, x)
  BY <1>1 DEF Both, Wired
<1> QED
  BY <1>1, <1>2 DEF s

\* What each operation does to the device and to what is read from it.
LEMMA TalkMoves ==
  ASSUME NEW m, NEW a, NEW b, NEW x, NEW w, NEW d, NEW i, NEW g
  PROVE  LET s == Talk(a, b, x, w, d, i, g) IN
         /\ b = 0 => Move(Data(m), "sda0", s, Talk(0, 0, x, w, d, i, g))
         /\ b = 0 => Move(Data(m), "sda1", s, Talk(1, 0, x, w, d, i, g))
         /\ b = 0 => Move(Data(m), "scl1", s, Talk(a, 1, x, 1, AtEdge(d, Wired(a, x)), i, g))
         /\ b = 0 => Move(Data(m), "scl0", s, s)
         /\ b = 1 /\ w = 0 =>
              Move(Data(m), "scl0", s, Talk(a, 0, Out(Fallen(d), m), 0, Fallen(d), i, g))
         /\ Move(Data(m), "poll", s, Talk(a, b, x, 0, d, i, g))
         /\ Move(Data(m), "pollstop", s, Talk(a, b, x, 0, d, i, g))
         /\ Move(Data(m), "free", s, s)
         /\ Move(Data(m), "active", s, s)
         /\ a = 1 /\ b = 1 /\ x = 1 /\ w = 0 =>
              Move(Data(m), "start", s, Talk(0, 1, 1, 0, Started(d), i, g))
         /\ b = 1 /\ w = 0 =>
              Move(Data(m), "sample", s, Talk(a, 1, x, 0, d, Append(i, Wired(a, x)), g))
         /\ Last(i) = 0 => Move(Data(m), "ack", s, Talk(a, b, x, w, d, <<>>, g))
         /\ Move(Data(m), "byte", s, Talk(a, b, x, w, d, <<>>, Append(g, Received(i))))
<1> DEFINE s == Talk(a, b, x, w, d, i, g)
           Moves(o, t) == Move(Data(m), o, s, t)
<1>1. /\ s.msda = a /\ s.mscl = b /\ s.dsda = x /\ s.wait = w /\ s.d = d /\ s.in = i
      /\ s.got = g /\ Both(s) = Wired(a, x)
  BY TalkFields
<1> HIDE DEF s
<1>2. \A o, t : Moves(o, t) <=> DataMove(m, o, s, t)
  BY Kinds
<1> HIDE DEF Moves
<1>3. /\ b = 0 => Moves("sda0", Talk(0, 0, x, w, d, i, g))
      /\ b = 0 => Moves("sda1", Talk(1, 0, x, w, d, i, g))
  BY <1>1, <1>2 DEF DataMove
<1>4. b = 0 => Moves("scl1", Talk(a, 1, x, 1, AtEdge(d, Wired(a, x)), i, g))
  BY <1>1, <1>2 DEF DataMove
<1>5. /\ b = 0 => Moves("scl0", s)
      /\ b = 1 /\ w = 0 => Moves("scl0", Talk(a, 0, Out(Fallen(d), m), 0, Fallen(d), i, g))
  BY <1>1, <1>2 DEF DataMove
<1>6. /\ Moves("poll", Talk(a, b, x, 0, d, i, g))
      /\ Moves("pollstop", Talk(a, b, x, 0, d, i, g))
      /\ Moves("free", s) /\ Moves("active", s)
  BY <1>1, <1>2 DEF DataMove
<1>7. a = 1 /\ b = 1 /\ x = 1 /\ w = 0 => Moves("start", Talk(0, 1, 1, 0, Started(d), i, g))
  BY <1>1, <1>2 DEF DataMove
<1>8. b = 1 /\ w = 0 => Moves("sample", Talk(a, 1, x, 0, d, Append(i, Wired(a, x)), g))
  BY <1>1, <1>2 DEF DataMove
<1>9. /\ Last(i) = 0 => Moves("ack", Talk(a, b, x, w, d, <<>>, g))
      /\ Moves("byte", Talk(a, b, x, w, d, <<>>, Append(g, Received(i))))
  BY <1>1, <1>2 DEF DataMove
<1> QED
  BY <1>3, <1>4, <1>5, <1>6, <1>7, <1>8, <1>9 DEF s, Moves

\* SCL is low, and the device shows what it has to.
Low(m, a, d, i, g) == Talk(a, 0, Out(d, m), 0, d, i, g)

\* A bit written, ...
LEMMA WriteBitTalk ==
  ASSUME NEW m, NEW a, NEW d, NEW i, NEW g, NEW b \in {0, 1},
         NEW e, e = Fallen(AtEdge(d, Wired(b, Out(d, m))))
  PROVE  Leads(Data(m), Low(m, a, d, i, g), WriteBit(b), Low(m, b, e, i, g))
<1> DEFINE o == IF b = 1 THEN "sda1" ELSE "sda0"
           x == Out(d, m)
           h == AtEdge(d, Wired(b, x))
           s0 == Talk(a, 0, x, 0, d, i, g)
           s1 == Talk(b, 0, x, 0, d, i, g)
           s2 == Talk(b, 1, x, 1, h, i, g)
           s3 == Talk(b, 1, x, 0, h, i, g)
           s4 == Talk(b, 0, Out(e, m), 0, e, i, g)
<1>0. WriteBit(b) = <<o, "scl1", "poll">> \o <<"scl0">>
  BY Blocks
<1>1. Move(Data(m), o, s0, s1)
  <2>1. CASE b = 1
    <3>1. Move(Data(m), "sda1", s0, Talk(1, 0, x, 0, d, i, g))
      BY TalkMoves
    <3> QED
      BY <2>1, <3>1
  <2>2. CASE b # 1
    <3>1. Move(Data(m), "sda0", s0, Talk(0, 0, x, 0, d, i, g)) /\ b = 0
      BY <2>2, TalkMoves
    <3> QED
      BY <2>2, <3>1
  <2> QED
    BY <2>1, <2>2
<1>2. Move(Data(m), "scl1", s1, s2)
  BY TalkMoves
<1>3. Move(Data(m), "poll", s2, s3)
  BY TalkMoves
<1>4. Move(Data(m), "scl0", s3, Talk(b, 0, Out(Fallen(h), m), 0, Fallen(h), i, g))
  BY TalkMoves
<1>5. Fallen(h) = e
  OBVIOUS
<1>6. o \in Ops /\ {"scl1", "poll", "scl0"} \subseteq Ops
  BY DEF Ops
<1> HIDE DEF o, x, h
<1>7. Move(Data(m), "scl0", s3, s4)
  BY <1>4, <1>5
<1> HIDE DEF s0, s1, s2, s3, s4
<1>8. Leads(Data(m), s0, <<o, "scl1", "poll">>, s3)
  BY <1>1, <1>2, <1>3, <1>6, LeadsThree
<1>9. Leads(Data(m), s3, <<"scl0">>, s4)
  BY <1>7, LeadsOne
<1>10. <<o, "scl1", "poll">> \in Seq(Ops) /\ <<"scl0">> \in Seq(Ops)
  BY <1>6
<1>11. Leads(Data(m), s0, WriteBit(b), s4)
  BY <1>0, <1>8, <1>9, <1>10, LeadsThen
<1> QED
  BY <1>11 DEF Low, s0, s4, x

\* ... and one read.
LEMMA ReadBitTalk ==
  ASSUME NEW m, NEW a, NEW d, NEW i, NEW g, Out(d, m) \in {0, 1},
         NEW e, e = Fallen(AtEdge(d, Out(d, m)))
  PROVE  Leads(Data(m), Low(m, a, d, i, g), ReadBit, Low(m, 1, e, Append(i, Out(d, m)), g))
<1> DEFINE x == Out(d, m)
           h == AtEdge(d, x)
           k == Append(i, x)
           s0 == Talk(a, 0, x, 0, d, i, g)
           s1 == Talk(1, 0, x, 0, d, i, g)
           s2 == Talk(1, 1, x, 1, h, i, g)
           s3 == Talk(1, 1, x, 0, h, i, g)
           s4 == Talk(1, 1, x, 0, h, k, g)
           s5 == Talk(1, 0, Out(e, m), 0, e, k, g)
<1>0. Wired(1, x) = x
  BY DEF Wired
<1>1. Move(Data(m), "sda1", s0, s1)
  BY TalkMoves
<1>2. Move(Data(m), "scl1", s1, s2)
  <2>1. Move(Data(m), "scl1", s1, Talk(1, 1, x, 1, AtEdge(d, Wired(1, x)), i, g))
    BY TalkMoves
  <2> HIDE DEF x
  <2> QED
    BY <1>0, <2>1
<1>3. Move(Data(m), "poll", s2, s3)
  BY TalkMoves
<1>4. Move(Data(m), "sample", s3, s4)
  <2>1. Move(Data(m), "sample", s3, Talk(1, 1, x, 0, h, Append(i, Wired(1, x)), g))
    BY TalkMoves
  <2> HIDE DEF x, h
  <2> QED
    BY <1>0, <2>1
<1>5. Move(Data(m), "scl0", s4, Talk(1, 0, Out(Fallen(h), m), 0, Fallen(h), k, g))
  BY TalkMoves
<1>6. Fallen(h) = e
  OBVIOUS
<1>7. {"sda1", "scl1", "poll", "sample", "scl0"} \subseteq Ops
  BY DEF Ops
<1> HIDE DEF x, h, k
<1>8. Move(Data(m), "scl0", s4, s5)
  BY <1>5, <1>6
<1> HIDE DEF s0, s1, s2, s3, s4, s5
<1>9. Leads(Data(m), s0, <<"sda1", "scl1", "poll">>, s3)
  BY <1>1, <1>2, <1>3, <1>7, LeadsThree
<1>10. Leads(Data(m), s3, <<"sample", "scl0">>, s5)
  BY <1>4, <1>8, <1>7, LeadsTwo
<1>11. <<"sda1", "scl1", "poll">> \in Seq(Ops) /\ <<"sample", "scl0">> \in Seq(Ops)
  BY <1>7
<1>12. Leads(Data(m), s0, ReadBit, s5)
  BY <1>9, <1>10, <1>11, Blocks, LeadsThen
<1> QED
  BY <1>12 DEF Low, s0, s5, x, k

\* An acknowledgement received.
LEMMA ReceiveAckTalk ==
  ASSUME NEW m, NEW a, NEW d, NEW g, Out(d, m) = 0, NEW e, e = Fallen(AtEdge(d, 0))
  PROVE  Leads(Data(m), Low(m, a, d, <<>>, g), ReceiveAck, Low(m, 1, e, <<>>, g))
<1> DEFINE s0 == Low(m, a, d, <<>>, g)
           s1 == Low(m, 1, e, <<0>>, g)
           s2 == Low(m, 1, e, <<>>, g)
<1>1. Append(<<>>, 0) = <<0>> /\ Last(<<0>>) = 0
  BY DEF Last
<1>2. Leads(Data(m), s0, ReadBit, s1)
  <2> DEFINE none == <<>>
  <2>1. Out(d, m) \in {0, 1} /\ e = Fallen(AtEdge(d, Out(d, m)))
    OBVIOUS
  <2>2. Append(none, Out(d, m)) = <<0>>
    BY <1>1
  <2> HIDE DEF none, s0, s1
  <2>3. Leads(Data(m), Low(m, a, d, none, g), ReadBit, Low(m, 1, e, Append(none, Out(d, m)), g))
    BY <2>1, ReadBitTalk
  <2>4. Leads(Data(m), Low(m, a, d, none, g), ReadBit, Low(m, 1, e, <<0>>, g))
    BY <2>2, <2>3
  <2> QED
    BY <2>4 DEF none, s0, s1
<1>3. Move(Data(m), "ack", s1, s2)
  BY <1>1, TalkMoves DEF Low
<1> HIDE DEF s0, s1, s2
<1>4. Leads(Data(m), s1, <<"ack">>, s2)
  BY <1>3, LeadsOne
<1>5. <<"ack">> \in Seq(Ops)
  BY DEF Ops
<1>6. Leads(Data(m), s0, ReceiveAck, s2)
  BY <1>2, <1>4, <1>5, Blocks, BlockTypes, LeadsThen
<1> QED
  BY <1>6 DEF s0, s2

-----------------------------------------------------------------------------
(* Bytes. *)

\* A quotient and a remainder.
Divides(q, w, r) == (q * w + r) \div w = q /\ (q * w + r) % w = r

\* They are those of the number they make.
LEMMA QuotientOf ==
  ASSUME NEW q \in Nat, NEW w \in Nat \ {0}, NEW r \in 0 .. w - 1
  PROVE  Divides(q, w, r)
<1>1. \A k \in Nat \ {0} : \A s \in 0 .. k - 1 : (q * k + s) \div k = q /\ (q * k + s) % k = s
  BY SMT
<1> QED
  BY <1>1 DEF Divides

\* Division by twice a number.
LEMMA HalfOfQuotient ==
  ASSUME NEW v \in Nat, NEW p \in Nat \ {0}
  PROVE  v \div p = 2 * (v \div (2 * p)) + ((v \div p) % 2)
<1> DEFINE y == v \div p
           r == v % p
           z == y \div 2
           s == y % 2
<1>1. y \in Nat /\ r \in 0 .. p - 1 /\ v = p * y + r
  <2>1. v = p * y + r
    OBVIOUS
  <2> QED
    BY <2>1, Division
<1>2. z \in Nat /\ s \in {0, 1} /\ y = 2 * z + s
  <2> HIDE DEF y
  <2> QED
    BY <1>1
<1> HIDE DEF y, r, z, s
<1>3. p * (2 * z + s) + r = z * (2 * p) + (p * s + r)
  BY <1>1, <1>2
<1>4. p * s = 0 \/ p * s = p
  BY <1>2
<1> DEFINE t == p * s + r
           q == 2 * p
<1>5. q \in Nat \ {0} /\ t \in 0 .. q - 1
  <2> DEFINE u == p * s
  <2>1. u \in {0, p}
    BY <1>4
  <2> HIDE DEF u
  <2>2. u + r \in 0 .. 2 * p - 1
    BY <1>1, <2>1
  <2> QED
    BY <2>2 DEF u
<1>6. v = z * q + t
  BY <1>1, <1>2, <1>3
<1> HIDE DEF t, q
<1>7. v \div q = z
  <2>1. Divides(z, q, t)
    BY <1>2, <1>5, QuotientOf
  <2> QED
    BY <1>6, <2>1 DEF Divides
<1>8. y = 2 * (v \div q) + s
  BY <1>2, <1>7
<1> QED
  BY <1>8 DEF y, s, q

\* What a byte is after some of its bits: all of it after the last, and one bit more each
\* time.
LEMMA ByteBitsUp ==
  ASSUME NEW v \in Byte
  PROVE  /\ v \div 2 ^ Width = 0 /\ v \div 2 ^ 0 = v
         /\ \A i \in 1 .. Width :
              v \div 2 ^ (Width - i) = 2 * (v \div 2 ^ (Width - (i - 1))) + Bit(v, i)
<1>1. /\ Width \in Nat \ {0, 1}
      /\ \A i \in 0 .. Width : 2 ^ i \in Nat \ {0} /\ 2 ^ i <= 2 ^ Width
      /\ \A i \in 0 .. Width - 1 : 2 ^ (i + 1) = 2 * 2 ^ i
  BY PowerFacts
<1>2. 2 ^ 0 = 1
  BY PowerAssumption
<1> DEFINE B == 2 ^ Width
<1>3. B \in Nat \ {0} /\ v \in Nat /\ v < B
  <2>1. Width \in 0 .. Width
    BY <1>1
  <2> QED
    BY <1>1, <2>1 DEF Byte
<1> HIDE DEF B
<1>4. v \div B = 0 /\ v \div 1 = v
  BY <1>3
<1>5. ASSUME NEW i \in 1 .. Width
      PROVE  v \div 2 ^ (Width - i) = 2 * (v \div 2 ^ (Width - (i - 1))) + Bit(v, i)
  <2>1. Width - i \in 0 .. Width - 1 /\ Width - i \in 0 .. Width
        /\ (Width - i) + 1 = Width - (i - 1)
    BY <1>1
  <2> DEFINE p == 2 ^ (Width - i)
             q == 2 ^ (Width - (i - 1))
  <2>2. p \in Nat \ {0} /\ q = 2 * p
    BY <1>1, <2>1
  <2>3. Bit(v, i) = (v \div p) % 2
    BY DEF Bit
  <2> HIDE DEF p, q
  <2>4. v \div p = 2 * (v \div (2 * p)) + ((v \div p) % 2)
    BY <1>3, <2>2, HalfOfQuotient
  <2>5. v \div p = 2 * (v \div q) + Bit(v, i)
    BY <2>2, <2>3, <2>4
  <2> QED
    BY <2>5 DEF p, q
<1> QED
  BY <1>2, <1>4, <1>5 DEF B

\* A device that hears a bit, ...
LEMMA HeardBit ==
  ASSUME NEW m, NEW st \in Ears, NEW n \in Nat, n < Width, NEW sh, NEW words, NEW ptr, NEW page,
         NEW b \in {0, 1}, NEW a, NEW i, NEW g
  PROVE  Leads(Data(m), Low(m, a, Dev(st, n, sh, words, ptr, page), i, g), WriteBit(b),
               Low(m, b, Dev(st, n + 1, 2 * sh + b, words, ptr, page), i, g))
<1> DEFINE d == Dev(st, n, sh, words, ptr, page)
           e == Dev(st, n + 1, 2 * sh + b, words, ptr, page)
<1>1. n # Width /\ n + 1 # Width + 1
  BY PowerFacts
<1>2. Out(d, m) = 1
  BY <1>1, OutDevs
<1>3. AtEdge(d, b) = e
  BY EdgeBit
<1>4. Fallen(e) = e
  BY <1>1, FallDevs
<1>5. Wired(b, 1) = b
  BY DEF Wired
<1> HIDE DEF d, e
<1>6. e = Fallen(AtEdge(d, Wired(b, Out(d, m))))
  BY <1>2, <1>3, <1>4, <1>5
<1>7. Leads(Data(m), Low(m, a, d, i, g), WriteBit(b), Low(m, b, e, i, g))
  BY <1>6, WriteBitTalk
<1> QED
  BY <1>7 DEF d, e

\* ... and one that hears a byte and acknowledges it.
LEMMA WriteByteTalk ==
  ASSUME NEW m, NEW st \in Ears, NEW v \in Byte, st = "addr" => v \div 2 = TargetAddr,
         NEW words, NEW ptr, NEW page, NEW a, NEW g,
         NEW e, e = Fallen(AtEdge(Dev(st, Width, v, words, ptr, page), 0))
  PROVE  Leads(Data(m), Low(m, a, Dev(st, 0, 0, words, ptr, page), <<>>, g), WriteByte(v),
               Low(m, 1, e, <<>>, g))
<1> DEFINE none == <<>>
           sh(i) == v \div 2 ^ (Width - i)
           ss == [i \in 1 .. Width |-> WriteBit(Bit(v, i))]
           at(i) == Low(m, IF i = 0 THEN a ELSE Bit(v, i), Dev(st, i, sh(i), words, ptr, page),
                        none, g)
           t == [i \in 0 .. Width |-> at(i)]
<1>1. Width \in Nat \ {0, 1} /\ Width - 0 = Width /\ Width - Width = 0 /\ v \in Nat
  BY PowerFacts DEF Byte
<1>2. Len(ss) = Width /\ (Width = 0 => ss = <<>>) /\ \A i \in 1 .. Width : ss[i] \in Seq(Ops)
  BY <1>1, BlockTypes
<1>3. /\ sh(0) = 0 /\ sh(Width) = v
      /\ \A i \in 1 .. Width : sh(i) = 2 * sh(i - 1) + Bit(v, i)
  <2>1. v \div 2 ^ Width = 0 /\ v \div 2 ^ 0 = v
    BY ByteBitsUp
  <2>2. \A i \in 1 .. Width :
          v \div 2 ^ (Width - i) = 2 * (v \div 2 ^ (Width - (i - 1))) + Bit(v, i)
    BY ByteBitsUp
  <2> QED
    BY <1>1, <2>1, <2>2
<1>4. \A i \in 1 .. Width : ss[i] = WriteBit(Bit(v, i))
  OBVIOUS
<1>5. t[0] = at(0) /\ t[Width] = at(Width) /\ \A i \in 0 .. Width : t[i] = at(i)
  BY <1>1
<1> HIDE DEF ss, t, sh, none
<1>6. ASSUME NEW i \in 1 .. Width PROVE Leads(Data(m), t[i - 1], ss[i], t[i])
  <2> DEFINE k == i - 1
             b == Bit(v, i)
             x == IF k = 0 THEN a ELSE Bit(v, k)
  <2>1. k \in Nat /\ k < Width /\ k + 1 = i /\ k \in 0 .. Width /\ i \in 0 .. Width /\ i # 0
    BY <1>1
  <2>2. b \in {0, 1}
    BY <1>1, BitRange
  <2>3. sh(i) = 2 * sh(k) + b
    BY <1>3
  <2>4. t[i - 1] = Low(m, x, Dev(st, k, sh(k), words, ptr, page), none, g)
    BY <1>5, <2>1
  <2>5. t[i] = Low(m, b, Dev(st, i, sh(i), words, ptr, page), none, g)
    BY <1>5, <2>1
  <2> HIDE DEF b, x, k
  <2>6. Leads(Data(m), Low(m, x, Dev(st, k, sh(k), words, ptr, page), none, g), WriteBit(b),
              Low(m, b, Dev(st, k + 1, 2 * sh(k) + b, words, ptr, page), none, g))
    BY <2>1, <2>2, HeardBit
  <2>7. ss[i] = WriteBit(b)
    BY <1>4 DEF b
  <2>8. Low(m, b, Dev(st, k + 1, 2 * sh(k) + b, words, ptr, page), none, g) = t[i]
    BY <2>1, <2>3, <2>5
  <2> QED
    BY <2>4, <2>6, <2>7, <2>8
<1>7. Leads(Data(m), t[0], FlattenSeq(ss), t[Width])
  BY <1>1, <1>2, <1>6, LeadsAll
<1>8. FlattenSeq(ss) \in Seq(Ops)
  BY <1>1, <1>2, FlattenType
<1> DEFINE d == Dev(st, Width, v, words, ptr, page)
           b == Bit(v, Width)
<1>9. t[0] = Low(m, a, Dev(st, 0, 0, words, ptr, page), none, g)
  BY <1>3, <1>5
<1>10. t[Width] = Low(m, b, d, none, g)
  BY <1>1, <1>3, <1>5
<1>11. Out(d, m) = 0
  <2>1. st \in {"word", "data"} \/ st = "addr"
    BY DEF Ears
  <2> QED
    BY <2>1, OutDevs
<1>12. e = Fallen(AtEdge(d, 0))
  OBVIOUS
<1> HIDE DEF d, b
<1>13. Leads(Data(m), Low(m, b, d, none, g), ReceiveAck, Low(m, 1, e, none, g))
  BY <1>11, <1>12, ReceiveAckTalk DEF none
<1>14. ReceiveAck \in Seq(Ops)
  BY BlockTypes
<1>15. Leads(Data(m), t[0], FlattenSeq(ss) \o ReceiveAck, Low(m, 1, e, none, g))
  BY <1>7, <1>8, <1>10, <1>13, <1>14, LeadsThen
<1>16. WriteByte(v) = FlattenSeq(ss) \o ReceiveAck
  BY DEF WriteByte, ss
<1> QED
  BY <1>9, <1>15, <1>16 DEF none

\* The first bits of a byte.
Bits(v, i) == [j \in 1 .. i |-> Bit(v, j)]

\* They grow bit by bit.
LEMMA BitsGrow ==
  ASSUME NEW v
  PROVE  /\ Bits(v, 0) = <<>>
         /\ \A i \in Nat \ {0} : Append(Bits(v, i - 1), Bit(v, i)) = Bits(v, i)
<1>1. Bits(v, 0) = <<>>
  BY DEF Bits
<1>2. ASSUME NEW i \in Nat \ {0} PROVE Append(Bits(v, i - 1), Bit(v, i)) = Bits(v, i)
  <2> DEFINE b(j) == Bit(v, j)
             k == i - 1
             f == [j \in 1 .. k |-> b(j)]
             h == [j \in 1 .. i |-> b(j)]
  <2>1. k \in Nat /\ i = k + 1
    OBVIOUS
  <2> HIDE DEF b, k
  <2>2. Append(f, b(i)) = h
    <3>1. Len(f) = k /\ Append(f, b(i)) = [j \in 1 .. k + 1 |-> IF j = k + 1 THEN b(i) ELSE f[j]]
      BY <2>1
    <3>2. ASSUME NEW j \in 1 .. i PROVE (IF j = k + 1 THEN b(i) ELSE f[j]) = b(j)
      BY <2>1
    <3> QED
      BY <2>1, <3>1, <3>2
  <2> QED
    BY <2>2 DEF Bits, b, k
<1> QED
  BY <1>1, <1>2

\* The bits of a byte are the byte.
LEMMA ReceivedByte ==
  ASSUME NEW v \in Byte
  PROVE  Received(Bits(v, Width)) = v
<1> DEFINE bits == Bits(v, Width)
           sh(i) == v \div 2 ^ (Width - i)
           Turn(f, i) == IF i = 0 THEN 0 ELSE 2 * f[i - 1] + bits[i]
           h == [i \in 0 .. Width |-> sh(i)]
           val == CHOOSE f : f = [i \in 0 .. Width |-> Turn(f, i)]
<1>1. Width \in Nat \ {0, 1} /\ Width - 0 = Width /\ Width - Width = 0
  BY PowerFacts
<1>2. Len(bits) = Width /\ \A i \in 1 .. Width : bits[i] = Bit(v, i)
  BY <1>1 DEF Bits
<1>3. /\ sh(0) = 0 /\ sh(Width) = v
      /\ \A i \in 1 .. Width : sh(i) = 2 * sh(i - 1) + Bit(v, i)
  <2>1. v \div 2 ^ Width = 0 /\ v \div 2 ^ 0 = v
    BY ByteBitsUp
  <2>2. \A i \in 1 .. Width :
          v \div 2 ^ (Width - i) = 2 * (v \div 2 ^ (Width - (i - 1))) + Bit(v, i)
    BY ByteBitsUp
  <2> QED
    BY <1>1, <2>1, <2>2
<1>4. \A i \in 0 .. Width : h[i] = sh(i)
  OBVIOUS
<1>5. Received(bits) = val[Width]
  BY <1>2 DEF Received
<1> HIDE DEF sh, bits
<1>6. h = [i \in 0 .. Width |-> Turn(h, i)]
  <2>1. ASSUME NEW i \in 0 .. Width PROVE sh(i) = Turn(h, i)
    <3>1. CASE i = 0
      BY <1>3, <3>1
    <3>2. CASE i # 0
      <4>1. i \in 1 .. Width /\ i - 1 \in 0 .. Width
        BY <1>1, <3>2
      <4>2. h[i - 1] = sh(i - 1) /\ bits[i] = Bit(v, i)
        BY <1>2, <1>4, <4>1
      <4> QED
        BY <1>3, <3>2, <4>1, <4>2
    <3> QED
      BY <3>1, <3>2
  <2> QED
    BY <2>1
<1> HIDE DEF h
<1>7. val = [i \in 0 .. Width |-> Turn(val, i)]
  BY <1>6
<1> HIDE DEF val
<1>8. \A i \in 0 .. Width : val[i] = Turn(val, i)
  BY <1>7
<1> DEFINE T == {i \in 0 .. Width : val[i] = sh(i)}
<1>9. 0 \in T
  <2>1. 0 \in 0 .. Width
    BY <1>1
  <2> QED
    BY <1>3, <1>8, <2>1
<1>10. ASSUME NEW i \in 0 .. Width - 1, i \in T PROVE i + 1 \in T
  <2>1. i + 1 \in 0 .. Width /\ i + 1 \in 1 .. Width /\ i + 1 # 0 /\ (i + 1) - 1 = i
    BY <1>1
  <2>2. val[i + 1] = 2 * val[i] + bits[i + 1]
    BY <1>8, <2>1
  <2>3. bits[i + 1] = Bit(v, i + 1) /\ val[i] = sh(i) /\ sh(i + 1) = 2 * sh(i) + Bit(v, i + 1)
    BY <1>2, <1>3, <1>10, <2>1
  <2> QED
    BY <2>1, <2>2, <2>3
<1>11. Width \in T
  <2> HIDE DEF T
  <2>1. \A i \in 0 .. Width : i \in T
    BY <1>1, <1>9, <1>10, StretchInduction
  <2> QED
    BY <1>1, <2>1
<1> QED
  BY <1>3, <1>5, <1>11 DEF bits

\* A device that shows a bit, ...
LEMMA ShownBit ==
  ASSUME NEW m, NEW n \in Nat, n < Width, NEW sh, NEW words, NEW ptr, NEW page, NEW a, NEW i,
         NEW g, NEW b \in {0, 1}, b = Bit(m[ptr], n + 1)
  PROVE  Leads(Data(m), Low(m, a, Dev("read", n, sh, words, ptr, page), i, g), ReadBit,
               Low(m, 1, Dev("read", n + 1, sh, words, ptr, page), Append(i, b), g))
<1> DEFINE d == Dev("read", n, sh, words, ptr, page)
           e == Dev("read", n + 1, sh, words, ptr, page)
<1>1. n + 1 # Width + 1
  BY PowerFacts
<1>2. Out(d, m) = b
  BY OutDevs
<1>3. AtEdge(d, b) = e
  BY EdgeRead
<1>4. Fallen(e) = e
  BY <1>1, FallDevs
<1> HIDE DEF d, e
<1>5. e = Fallen(AtEdge(d, Out(d, m))) /\ Out(d, m) \in {0, 1}
  BY <1>2, <1>3, <1>4
<1>6. Leads(Data(m), Low(m, a, d, i, g), ReadBit, Low(m, 1, e, Append(i, Out(d, m)), g))
  BY <1>5, ReadBitTalk
<1> QED
  BY <1>2, <1>6 DEF d, e

\* ... and one that shows a byte and hears whether to show the next one.
LEMMA ReadByteTalk ==
  ASSUME NEW m, NEW ptr, m[ptr] \in Byte, NEW sh, NEW words, NEW page, NEW a, NEW g,
         NEW ack \in BOOLEAN, NEW e,
         e = IF ack THEN Dev("read", 0, sh, words, (ptr + 1) % Cells, page)
             ELSE Dev("idle", Width, sh, words, ptr, page)
  PROVE  Leads(Data(m), Low(m, a, Dev("read", 0, sh, words, ptr, page), <<>>, g), ReadByte(ack),
               Low(m, IF ack THEN 0 ELSE 1, e, <<>>, Append(g, m[ptr])))
<1> DEFINE v == m[ptr]
           none == <<>>
           ss == [i \in 1 .. Width |-> ReadBit]
           at(i) == Low(m, IF i = 0 THEN a ELSE 1, Dev("read", i, sh, words, ptr, page), Bits(v, i),
                        g)
           t == [i \in 0 .. Width |-> at(i)]
<1>1. Width \in Nat \ {0, 1} /\ v \in Nat
  BY PowerFacts DEF Byte
<1>2. Len(ss) = Width /\ (Width = 0 => ss = <<>>) /\ \A i \in 1 .. Width : ss[i] \in Seq(Ops)
  BY <1>1, BlockTypes
<1>3. \A i \in 1 .. Width : ss[i] = ReadBit
  OBVIOUS
<1>4. t[0] = at(0) /\ t[Width] = at(Width) /\ \A i \in 0 .. Width : t[i] = at(i)
  BY <1>1
<1> HIDE DEF ss, t
<1>5. ASSUME NEW i \in 1 .. Width PROVE Leads(Data(m), t[i - 1], ss[i], t[i])
  <2> DEFINE k == i - 1
             b == Bit(v, i)
             x == IF k = 0 THEN a ELSE 1
             p == Bits(v, k)
             q == Bits(v, i)
  <2>1. k \in Nat /\ k < Width /\ k + 1 = i /\ k \in 0 .. Width /\ i \in 0 .. Width /\ i # 0
        /\ i \in Nat \ {0}
    BY <1>1
  <2>2. b \in {0, 1}
    BY <1>1, BitRange
  <2>3. Append(p, b) = q
    BY <2>1, BitsGrow
  <2>4. t[i - 1] = Low(m, x, Dev("read", k, sh, words, ptr, page), p, g)
    BY <1>4, <2>1
  <2>5. t[i] = Low(m, 1, Dev("read", i, sh, words, ptr, page), q, g)
    BY <1>4, <2>1
  <2>6. b = Bit(m[ptr], k + 1)
    BY <2>1
  <2> HIDE DEF b, x, k, p, q, v
  <2>7. Leads(Data(m), Low(m, x, Dev("read", k, sh, words, ptr, page), p, g), ReadBit,
              Low(m, 1, Dev("read", k + 1, sh, words, ptr, page), Append(p, b), g))
    BY <2>1, <2>2, <2>6, ShownBit
  <2>8. Low(m, 1, Dev("read", k + 1, sh, words, ptr, page), Append(p, b), g) = t[i]
    BY <2>1, <2>3, <2>5
  <2> QED
    BY <1>3, <2>4, <2>7, <2>8
<1>6. Leads(Data(m), t[0], FlattenSeq(ss), t[Width])
  BY <1>1, <1>2, <1>5, LeadsAll
<1>7. FlattenSeq(ss) \in Seq(Ops)
  BY <1>1, <1>2, FlattenType
<1> DEFINE d == Dev("read", Width, sh, words, ptr, page)
           b == IF ack THEN 0 ELSE 1
           q == Bits(v, Width)
           h == Append(g, v)
<1>8. t[0] = Low(m, a, Dev("read", 0, sh, words, ptr, page), none, g)
  <2>1. Bits(v, 0) = none
    BY BitsGrow
  <2> HIDE DEF none
  <2> QED
    BY <1>4, <2>1
<1>9. t[Width] = Low(m, 1, d, q, g)
  BY <1>1, <1>4
<1>10. Out(d, m) = 1
  <2>1. ~(Width < Width)
    BY <1>1
  <2> QED
    BY <2>1, OutDevs
<1>11. b \in {0, 1} /\ Wired(b, 1) = b
  BY DEF Wired
<1>12. e = Fallen(AtEdge(d, b))
  <2>1. CASE ack
    <3>1. b # 1
      BY <2>1
    <3>2. AtEdge(d, b) = Dev("read", Width + 1, sh, words, (ptr + 1) % Cells, page)
      BY <3>1, EdgeRead
    <3>3. Fallen(Dev("read", Width + 1, sh, words, (ptr + 1) % Cells, page))
          = Dev("read", 0, sh, words, (ptr + 1) % Cells, page)
      BY FallDevs
    <3> QED
      BY <2>1, <3>2, <3>3
  <2>2. CASE ~ack
    <3>1. b = 1
      BY <2>2
    <3>2. AtEdge(d, b) = Dev("idle", Width, sh, words, ptr, page)
      BY <1>1, <3>1, EdgeRead
    <3>3. Width # Width + 1
      BY <1>1
    <3>4. Fallen(Dev("idle", Width, sh, words, ptr, page))
          = Dev("idle", Width, sh, words, ptr, page)
      BY <3>3, FallDevs
    <3> QED
      BY <2>2, <3>2, <3>4
  <2> QED
    BY <2>1, <2>2
<1>13. Received(q) = v
  BY ReceivedByte
<1> HIDE DEF d, b, q, none, v, h
<1>14. e = Fallen(AtEdge(d, Wired(b, Out(d, m))))
  BY <1>10, <1>11, <1>12
<1>15. Leads(Data(m), Low(m, 1, d, q, g), WriteBit(b), Low(m, b, e, q, g))
  BY <1>11, <1>14, WriteBitTalk
<1>16. WriteBit(b) \in Seq(Ops)
  BY BlockTypes
<1> DEFINE f == FlattenSeq(ss)
           w == WriteBit(b)
<1>17. Leads(Data(m), t[0], f \o w, Low(m, b, e, q, g)) /\ f \o w \in Seq(Ops)
  BY <1>6, <1>7, <1>9, <1>15, <1>16, LeadsJoin
<1>18. Move(Data(m), "byte", Low(m, b, e, q, g), Low(m, b, e, none, h))
  <2>1. Move(Data(m), "byte", Low(m, b, e, q, g),
             Talk(b, 0, Out(e, m), 0, e, <<>>, Append(g, Received(q))))
    BY TalkMoves DEF Low
  <2>2. Append(g, Received(q)) = h
    BY <1>13 DEF h
  <2>3. Talk(b, 0, Out(e, m), 0, e, <<>>, h) = Low(m, b, e, none, h)
    BY DEF Low, none
  <2> QED
    BY <2>1, <2>2, <2>3
<1>19. Leads(Data(m), Low(m, b, e, q, g), <<"byte">>, Low(m, b, e, none, h))
  BY <1>18, LeadsOne
<1>20. <<"byte">> \in Seq(Ops)
  BY DEF Ops
<1>21. ReadByte(ack) = f \o w \o <<"byte">>
  BY DEF ReadByte, ss, b
<1> HIDE DEF f, w
<1>22. Leads(Data(m), t[0], (f \o w) \o <<"byte">>, Low(m, b, e, none, h))
  BY <1>17, <1>19, <1>20, LeadsThen
<1> QED
  BY <1>8, <1>21, <1>22 DEF b, h, v, none

-----------------------------------------------------------------------------
(* Addresses. *)

\* The remainder of a sum of multiples.
Shifts(c, x, b, y) == ((x % c) * b + y) % c = (x * b + y) % c

\* Only the remainder of a number counts in that of a multiple.
LEMMA RemainderShift ==
  ASSUME NEW c \in Nat \ {0}, NEW x \in Nat, NEW b \in Nat, NEW y \in Nat
  PROVE  Shifts(c, x, b, y)
<1> DEFINE v == x * b + y
           q == x \div c
           r == x % c
           z == r * b + y
           k == z \div c
           s == z % c
<1>1. q \in Nat /\ r \in 0 .. c - 1 /\ x = c * q + r
  <2>1. x = c * q + r
    OBVIOUS
  <2> QED
    BY <2>1, Division
<1> HIDE DEF q, r
<1>2. r * b \in Nat /\ z \in Nat
  <2>1. r \in Nat
    BY <1>1
  <2>2. r * b \in Nat
    BY <2>1
  <2> QED
    BY <2>2
<1>3. k \in Nat /\ s \in 0 .. c - 1 /\ z = c * k + s
  <2> HIDE DEF z
  <2>1. z = c * k + s
    BY <1>2
  <2> QED
    BY <1>2, <2>1, Division
<1> HIDE DEF k, s
<1>4. x * b = (q * b) * c + r * b
  BY <1>1
<1>5. q * b \in Nat
  BY <1>1
<1> DEFINE h == q * b
           t == r * b
           w == h + k
<1>6. v = h * c + z
  <2> DEFINE f == x * b
             e == h * c
             o == r * b
  <2>1. f = e + o /\ v = f + y /\ z = o + y /\ o \in Nat
    BY <1>2, <1>4
  <2>2. e \in Nat
    BY <1>5
  <2> HIDE DEF f, e, o, h, z
  <2>3. v = e + z
    BY <2>1, <2>2
  <2> QED
    BY <2>3 DEF e
<1>7. w \in Nat /\ h * c + (c * k + s) = w * c + s
  <2> HIDE DEF h
  <2>1. h * c + c * k = (h + k) * c
    BY <1>3, <1>5 DEF h
  <2>2. h * c \in Nat /\ c * k \in Nat /\ w \in Nat
    BY <1>3, <1>5 DEF h
  <2> QED
    BY <1>3, <2>1, <2>2
<1> HIDE DEF h, w, z, v
<1>8. v = w * c + s
  BY <1>3, <1>6, <1>7
<1>9. v % c = s
  <2>1. Divides(w, c, s)
    BY <1>3, <1>7, QuotientOf
  <2> QED
    BY <1>8, <2>1 DEF Divides
<1>10. z % c = s
  BY <1>3 DEF s
<1> QED
  BY <1>9, <1>10 DEF Shifts, v, z, r

\* The next address.
LEMMA RemainderNext ==
  ASSUME NEW c \in Nat \ {0}, NEW x \in Nat
  PROVE  ((x % c) + 1) % c = (x + 1) % c
<1> DEFINE u == (x % c) + 1
           v == x + 1
<1>1. x % c \in Nat
  BY Division
<1>2. u = (x % c) * 1 + 1 /\ v = x * 1 + 1
  BY <1>1
<1> HIDE DEF u, v
<1>3. Shifts(c, x, 1, 1)
  BY RemainderShift
<1>4. u % c = v % c
  BY <1>2, <1>3 DEF Shifts
<1> QED
  BY <1>4 DEF u, v

\* The address the device puts together is the one that was sent.
LEMMA AddressSent ==
  ASSUME NEW addr \in Nat, addr < Limit
  PROVE  LET a == MemoryAddress(addr)
             one == (0 * 2 ^ Width + a[1]) % Cells
         IN /\ AddressWidth = 1 => one = addr % Cells
            /\ AddressWidth = 2 => (one * 2 ^ Width + a[2]) % Cells = addr % Cells
<1> DEFINE B == 2 ^ Width
           a == MemoryAddress(addr)
<1>1. B \in Nat \ {0} /\ Cells \in Nat \ {0}
  BY PowerFacts, BusAssumption
<1>2. AddressWidth = 1 => addr < B
  BY DEF Limit
<1>3. a = IF AddressWidth = 1 THEN <<addr % B>> ELSE <<addr \div B, addr % B>>
  BY DEF MemoryAddress
<1> HIDE DEF B, a
<1>4. CASE AddressWidth = 1
  <2>1. a[1] = addr % B
    BY <1>3, <1>4
  <2>2. addr % B = addr
    BY <1>1, <1>2, <1>4
  <2>3. 0 * B + a[1] = addr
    BY <1>1, <2>1, <2>2
  <2> QED
    BY <1>4, <2>3 DEF a, B
<1>5. CASE AddressWidth = 2
  <2> DEFINE q == addr \div B
             r == addr % B
  <2>1. a[1] = q /\ a[2] = r
    BY <1>3, <1>5
  <2>2. q \in Nat /\ r \in Nat /\ q * B + r = addr
    <3>1. addr = B * q + r
      BY <1>1
    <3>2. q \in Nat /\ r \in 0 .. B - 1
      BY <1>1, Division
    <3>3. r \in Nat
      BY <1>1, <3>2
    <3> HIDE DEF q, r
    <3> QED
      BY <1>1, <3>1, <3>2, <3>3
  <2> HIDE DEF q, r
  <2>3. 0 * B + q = q
    BY <1>1, <2>2
  <2> DEFINE u == (q % Cells) * B + r
  <2>4. addr = q * B + r
    BY <2>2
  <2>5. u = (q % Cells) * B + r
    OBVIOUS
  <2> HIDE DEF u
  <2>6. u % Cells = addr % Cells
    <3>1. Shifts(Cells, q, B, r)
      BY <1>1, <2>2, RemainderShift
    <3> QED
      BY <2>4, <2>5, <3>1 DEF Shifts
  <2> QED
    BY <1>5, <2>1, <2>3, <2>6 DEF a, B, u
<1> QED
  BY <1>4, <1>5

-----------------------------------------------------------------------------
(* Bytes of each kind, and the messages they make. *)

\* The device is called, to be read or to be written.
LEMMA CallHeard ==
  ASSUME NEW m, NEW read \in BOOLEAN, NEW words, NEW ptr, NEW page, NEW a, NEW g,
         NEW e, e = IF read THEN Dev("read", 0, 0, words, ptr, page)
                    ELSE Dev("word", 0, 0, 0, 0, page)
  PROVE  Leads(Data(m), Low(m, a, Dev("addr", 0, 0, words, ptr, page), <<>>, g),
               SendAddress(TargetAddr, read), Low(m, 1, e, <<>>, g))
<1> DEFINE r == IF read THEN 1 ELSE 0
           v == 2 * TargetAddr + r
           f == AtEdge(Dev("addr", Width, v, words, ptr, page), 0)
           s == Low(m, a, Dev("addr", 0, 0, words, ptr, page), <<>>, g)
<1>1. v \in Byte /\ v \div 2 = TargetAddr /\ v % 2 = r
  <2> DEFINE half == 2 ^ (Width - 1)
             full == 2 ^ Width
  <2>1. TargetAddr \in Nat /\ TargetAddr + 1 < half /\ half \in Nat
    <3>1. Width - 1 \in 0 .. Width /\ half \in Nat
      BY PowerFacts
    <3> QED
      BY <3>1, BusAssumption
  <2>2. full = 2 * half
    <3>1. Width - 1 \in 0 .. Width - 1 /\ (Width - 1) + 1 = Width
      BY PowerFacts
    <3> QED
      BY <3>1, PowerFacts
  <2>3. r \in 0 .. 1 /\ 2 \in Nat \ {0}
    OBVIOUS
  <2>4. Byte = 0 .. full - 1
    BY DEF Byte
  <2> HIDE DEF half, full, r
  <2>5. v \in Byte
    BY <2>1, <2>2, <2>3, <2>4
  <2>6. Divides(TargetAddr, 2, r)
    BY <2>1, <2>3, QuotientOf
  <2>7. v = TargetAddr * 2 + r
    BY <2>1, <2>3
  <2> QED
    BY <2>5, <2>6, <2>7 DEF Divides
<1>2. "addr" \in Ears
  BY DEF Ears
<1>3. r = 1 <=> read
  OBVIOUS
<1>4. /\ read => f = Dev("read", Width + 1, 0, words, ptr, page)
      /\ ~read => f = Dev("word", Width + 1, 0, 0, 0, page)
  <2> HIDE DEF v, r
  <2> QED
    BY <1>1, <1>2, <1>3, EdgeAck
<1>5. /\ Fallen(Dev("read", Width + 1, 0, words, ptr, page)) = Dev("read", 0, 0, words, ptr, page)
      /\ Fallen(Dev("word", Width + 1, 0, 0, 0, page)) = Dev("word", 0, 0, 0, 0, page)
  BY FallDevs
<1> HIDE DEF r, f
<1>6. e = Fallen(f)
  BY <1>4, <1>5
<1>7. SendAddress(TargetAddr, read) = WriteByte(v)
  BY DEF SendAddress, r
<1> HIDE DEF v
<1>8. Leads(Data(m), s, WriteByte(v), Low(m, 1, e, <<>>, g))
  BY <1>1, <1>2, <1>6, WriteByteTalk DEF f
<1> QED
  BY <1>7, <1>8

\* It takes a byte of the address, ...
LEMMA WordHeard ==
  ASSUME NEW m, NEW words, NEW ptr, NEW page, NEW a, NEW g, NEW v \in Byte,
         NEW e, e = Dev(IF words + 1 = AddressWidth THEN "data" ELSE "word", 0, 0, words + 1,
                        (ptr * 2 ^ Width + v) % Cells, page)
  PROVE  Leads(Data(m), Low(m, a, Dev("word", 0, 0, words, ptr, page), <<>>, g), WriteByte(v),
               Low(m, 1, e, <<>>, g))
<1> DEFINE k == IF words + 1 = AddressWidth THEN "data" ELSE "word"
           c == words + 1
           p == (ptr * 2 ^ Width + v) % Cells
           f == AtEdge(Dev("word", Width, v, words, ptr, page), 0)
<1>1. "word" \in Ears
  BY DEF Ears
<1>2. f = Dev(k, Width + 1, 0, c, p, page)
  BY <1>1, EdgeAck
<1>3. e = Dev(k, 0, 0, c, p, page)
  OBVIOUS
<1> HIDE DEF k, c, p, f
<1>4. Fallen(Dev(k, Width + 1, 0, c, p, page)) = Dev(k, 0, 0, c, p, page)
  BY FallDevs
<1>5. e = Fallen(f)
  BY <1>2, <1>3, <1>4
<1> QED
  BY <1>1, <1>5, WriteByteTalk DEF f

\* ... and a byte of data.
LEMMA DataHeard ==
  ASSUME NEW m, NEW words, NEW ptr, NEW page, NEW a, NEW g, NEW v \in Byte,
         NEW e, e = Dev("data", 0, 0, words, ptr, Append(page, v))
  PROVE  Leads(Data(m), Low(m, a, Dev("data", 0, 0, words, ptr, page), <<>>, g), WriteByte(v),
               Low(m, 1, e, <<>>, g))
<1> DEFINE q == Append(page, v)
           f == AtEdge(Dev("data", Width, v, words, ptr, page), 0)
<1>1. "data" \in Ears
  BY DEF Ears
<1>2. f = Dev("data", Width + 1, 0, words, ptr, q)
  BY <1>1, EdgeAck
<1>3. e = Dev("data", 0, 0, words, ptr, q)
  OBVIOUS
<1> HIDE DEF q, f
<1>4. Fallen(Dev("data", Width + 1, 0, words, ptr, q)) = Dev("data", 0, 0, words, ptr, q)
  BY FallDevs
<1>5. e = Fallen(f)
  BY <1>2, <1>3, <1>4
<1> QED
  BY <1>1, <1>5, WriteByteTalk DEF f

\* The first elements of a sequence.
Upto(s, i) == [j \in 1 .. i |-> s[j]]

\* They grow into the sequence.
LEMMA UptoGrows ==
  ASSUME NEW S, NEW s \in Seq(S)
  PROVE  /\ Upto(s, 0) = <<>> /\ Upto(s, Len(s)) = s
         /\ \A i \in Nat \ {0} : Append(Upto(s, i - 1), s[i]) = Upto(s, i)
<1>1. Upto(s, 0) = <<>>
  BY DEF Upto
<1>2. Upto(s, Len(s)) = s
  <2>1. s = [j \in 1 .. Len(s) |-> s[j]]
    BY LenProperties
  <2> QED
    BY <2>1 DEF Upto
<1>3. ASSUME NEW i \in Nat \ {0}
      PROVE  Append(Upto(s, i - 1), s[i]) = Upto(s, i)
  <2> DEFINE T == {s[j] : j \in 1 .. i}
             f == Upto(s, i - 1)
  <2>1. f \in Seq(T) /\ Len(f) = i - 1
    <3>1. i - 1 \in Nat /\ f \in [1 .. (i - 1) -> T]
      BY DEF Upto
    <3> QED
      BY <3>1 DEF Upto
  <2>2. s[i] \in T
    OBVIOUS
  <2>3. \A j \in 1 .. i - 1 : f[j] = s[j]
    BY DEF Upto
  <2> HIDE DEF T, f
  <2>4. Append(f, s[i]) = [j \in 1 .. Len(f) + 1 |-> IF j <= Len(f) THEN f[j] ELSE s[i]]
    BY <2>1, <2>2
  <2>5. Len(f) + 1 = i
    BY <2>1
  <2>6. Append(f, s[i]) = [j \in 1 .. i |-> IF j <= i - 1 THEN f[j] ELSE s[i]]
    BY <2>1, <2>4, <2>5
  <2>7. \A j \in 1 .. i : (IF j <= i - 1 THEN f[j] ELSE s[i]) = s[j]
    BY <2>3
  <2>8. Append(f, s[i]) = [j \in 1 .. i |-> s[j]]
    BY <2>6, <2>7
  <2> QED
    BY <2>8 DEF f, Upto
<1> QED
  BY <1>1, <1>2, <1>3

\* The device on its way through a message that is written: i bytes of it are taken.
Writing(addr, data, i) ==
  IF i < AddressWidth
  THEN (IF i = 0 THEN Dev("word", 0, 0, 0, 0, <<>>)
        ELSE Dev("word", 0, 0, 1, (0 * 2 ^ Width + MemoryAddress(addr)[1]) % Cells, <<>>))
  ELSE Dev("data", 0, 0, AddressWidth, addr % Cells, Upto(data, i - AddressWidth))

\* It takes one more.
LEMMA WritingTalk ==
  ASSUME NEW m, NEW addr \in Nat, addr < Limit, NEW data \in Seq(Byte), NEW g, NEW buf,
         buf = MemoryAddress(addr) \o data, NEW i \in 1 .. Len(buf)
  PROVE  Leads(Data(m), Low(m, 1, Writing(addr, data, i - 1), <<>>, g), WriteByte(buf[i]),
               Low(m, 1, Writing(addr, data, i), <<>>, g))
<1> DEFINE A == MemoryAddress(addr)
           one == (0 * 2 ^ Width + A[1]) % Cells
           w(j) == Low(m, 1, Writing(addr, data, j), <<>>, g)
<1>1. A \in Seq(Byte) /\ Len(A) = AddressWidth
  BY AddressBytes
<1>2. AddressWidth \in {1, 2}
  BY BusAssumption
<1>3. /\ AddressWidth = 1 => one = addr % Cells
      /\ AddressWidth = 2 => (one * 2 ^ Width + A[2]) % Cells = addr % Cells
  BY AddressSent
<1>4. Upto(data, 0) = <<>>
  BY UptoGrows
<1> HIDE DEF A
<1>5. buf = A \o data /\ Len(buf) = AddressWidth + Len(data)
  <2>1. buf = A \o data
    BY DEF A
  <2>2. Len(A \o data) = Len(A) + Len(data)
    BY <1>1, ConcatProperties
  <2> QED
    BY <1>1, <2>1, <2>2
<1>6. /\ \A j \in 1 .. AddressWidth : buf[j] = A[j] /\ A[j] \in Byte
      /\ i \in Nat /\ Len(data) \in Nat
      /\ i > AddressWidth =>
           /\ i - AddressWidth \in 1 .. Len(data) /\ buf[i] = data[i - AddressWidth]
           /\ data[i - AddressWidth] \in Byte
  BY <1>1, <1>2, <1>5
<1>7. CASE i = 1
  <2>1. buf[1] = A[1] /\ A[1] \in Byte
    BY <1>2, <1>6
  <2>2. Writing(addr, data, i - 1) = Dev("word", 0, 0, 0, 0, <<>>)
    BY <1>2, <1>7 DEF Writing
  <2>3. CASE AddressWidth = 1
    <3>1. Writing(addr, data, i) = Dev("data", 0, 0, 1, one, <<>>)
      <4>1. i - AddressWidth = 0 /\ ~(i < AddressWidth)
        BY <1>7, <2>3
      <4> QED
        BY <1>3, <1>4, <2>3, <4>1 DEF Writing
    <3> DEFINE none == <<>>
               e == Dev(IF 0 + 1 = AddressWidth THEN "data" ELSE "word", 0, 0, 0 + 1,
                        (0 * 2 ^ Width + A[1]) % Cells, none)
    <3>2. e = Dev("data", 0, 0, 1, one, none)
      BY <2>3
    <3> HIDE DEF none, e
    <3>3. Leads(Data(m), Low(m, 1, Dev("word", 0, 0, 0, 0, none), <<>>, g), WriteByte(A[1]),
                Low(m, 1, e, <<>>, g))
      BY <2>1, WordHeard DEF e
    <3> QED
      BY <1>7, <2>1, <2>2, <3>1, <3>2, <3>3 DEF none
  <2>4. CASE AddressWidth = 2
    <3>1. Writing(addr, data, i) = Dev("word", 0, 0, 1, one, <<>>)
      BY <1>7, <2>4 DEF Writing, A
    <3> DEFINE none == <<>>
               e == Dev(IF 0 + 1 = AddressWidth THEN "data" ELSE "word", 0, 0, 0 + 1,
                        (0 * 2 ^ Width + A[1]) % Cells, none)
    <3>2. e = Dev("word", 0, 0, 1, one, none)
      BY <2>4
    <3> HIDE DEF none, e
    <3>3. Leads(Data(m), Low(m, 1, Dev("word", 0, 0, 0, 0, none), <<>>, g), WriteByte(A[1]),
                Low(m, 1, e, <<>>, g))
      BY <2>1, WordHeard DEF e
    <3> QED
      BY <1>7, <2>1, <2>2, <3>1, <3>2, <3>3 DEF none
  <2> QED
    BY <1>2, <2>3, <2>4
<1>8. CASE i = 2 /\ AddressWidth = 2
  <2>1. buf[2] = A[2] /\ A[2] \in Byte
    BY <1>6, <1>8
  <2>2. Writing(addr, data, i - 1) = Dev("word", 0, 0, 1, one, <<>>)
    BY <1>8 DEF Writing, A
  <2>3. Writing(addr, data, i) = Dev("data", 0, 0, 2, addr % Cells, <<>>)
    <3>1. i - AddressWidth = 0 /\ ~(i < AddressWidth)
      BY <1>8
    <3> QED
      BY <1>4, <1>8, <3>1 DEF Writing
  <2> DEFINE none == <<>>
             e == Dev(IF 1 + 1 = AddressWidth THEN "data" ELSE "word", 0, 0, 1 + 1,
                      (one * 2 ^ Width + A[2]) % Cells, none)
  <2>4. e = Dev("data", 0, 0, 2, addr % Cells, none)
    <3> HIDE DEF one
    <3> QED
      BY <1>3, <1>8
  <2> HIDE DEF none, e, one
  <2>5. Leads(Data(m), Low(m, 1, Dev("word", 0, 0, 1, one, none), <<>>, g), WriteByte(A[2]),
              Low(m, 1, e, <<>>, g))
    BY <2>1, WordHeard DEF e
  <2> QED
    BY <1>8, <2>1, <2>2, <2>3, <2>4, <2>5 DEF none
<1>9. CASE i > AddressWidth
  <2> DEFINE j == i - AddressWidth
             f == Upto(data, j - 1)
             e == Dev("data", 0, 0, AddressWidth, addr % Cells, Append(f, data[j]))
  <2>1. /\ j \in Nat \ {0} /\ i - 1 - AddressWidth = j - 1 /\ ~(i - 1 < AddressWidth)
        /\ ~(i < AddressWidth) /\ buf[i] = data[j] /\ data[j] \in Byte
    BY <1>2, <1>6, <1>9
  <2>2. Append(f, data[j]) = Upto(data, j)
    BY <2>1, UptoGrows
  <2>3. Writing(addr, data, i - 1) = Dev("data", 0, 0, AddressWidth, addr % Cells, f)
    BY <2>1 DEF Writing
  <2>4. Writing(addr, data, i) = e
    BY <2>1, <2>2 DEF Writing
  <2> HIDE DEF j, f, e
  <2>5. Leads(Data(m), Low(m, 1, Dev("data", 0, 0, AddressWidth, addr % Cells, f), <<>>, g),
              WriteByte(data[j]), Low(m, 1, e, <<>>, g))
    BY <2>1, DataHeard DEF e
  <2> QED
    BY <2>1, <2>3, <2>4, <2>5
<1> QED
  BY <1>2, <1>6, <1>7, <1>8, <1>9

\* A message written: the device has its address and its data.
LEMMA WriteBodyTalk ==
  ASSUME NEW m, NEW addr \in Nat, addr < Limit, NEW data \in Seq(Byte), NEW g,
         NEW x \in Msgs, ~x.read, x.buf = MemoryAddress(addr) \o data
  PROVE  Leads(Data(m), Low(m, 1, Dev("word", 0, 0, 0, 0, <<>>), <<>>, g), MessageBody(x),
               Low(m, 1, Dev("data", 0, 0, AddressWidth, addr % Cells, data), <<>>, g))
<1> DEFINE n == Len(x.buf)
           ss == [i \in 1 .. n |-> IF x.read THEN ReadByte(i < n) ELSE WriteByte(x.buf[i])]
           v == [i \in 0 .. n |-> Low(m, 1, Writing(addr, data, i), <<>>, g)]
<1>1. /\ MemoryAddress(addr) \in Seq(Byte) /\ Len(MemoryAddress(addr)) = AddressWidth
      /\ AddressWidth \in {1, 2}
  BY AddressBytes, BusAssumption
<1>2. n = AddressWidth + Len(data) /\ n \in Nat \ {0} /\ Len(data) \in Nat
  BY <1>1
<1>3. MessageBody(x) = FlattenSeq(ss)
  BY DEF MessageBody
<1>4. Len(ss) = n
  BY <1>2
<1>5. ASSUME NEW i \in 1 .. n
      PROVE  ss[i] \in Seq(Ops) /\ Leads(Data(m), v[i - 1], ss[i], v[i])
  <2>1. i - 1 \in 0 .. n /\ i \in 0 .. n
    BY <1>2
  <2>2. ss[i] = WriteByte(x.buf[i])
    OBVIOUS
  <2>3. /\ v[i - 1] = Low(m, 1, Writing(addr, data, i - 1), <<>>, g)
        /\ v[i] = Low(m, 1, Writing(addr, data, i), <<>>, g)
    BY <2>1
  <2>4. ss[i] \in Seq(Ops)
    BY <2>2, BlockTypes
  <2> HIDE DEF v, ss
  <2> QED
    BY <2>2, <2>3, <2>4, WritingTalk
<1>6. Leads(Data(m), v[0], FlattenSeq(ss), v[n])
  <2> HIDE DEF ss, v, n
  <2> QED
    BY <1>2, <1>4, <1>5, LeadsAll
<1>7. v[0] = Low(m, 1, Dev("word", 0, 0, 0, 0, <<>>), <<>>, g)
  BY <1>1, <1>2 DEF Writing
<1>8. v[n] = Low(m, 1, Dev("data", 0, 0, AddressWidth, addr % Cells, data), <<>>, g)
  <2>1. n - AddressWidth = Len(data) /\ ~(n < AddressWidth) /\ n \in 0 .. n
    BY <1>1, <1>2
  <2>2. Upto(data, Len(data)) = data
    BY UptoGrows
  <2>3. Writing(addr, data, n) = Dev("data", 0, 0, AddressWidth, addr % Cells, data)
    BY <2>1, <2>2 DEF Writing
  <2> QED
    BY <2>1, <2>3
<1> QED
  BY <1>3, <1>6, <1>7, <1>8

\* What is read of the memory: n bytes from an address on, ...
Contents(m, addr, n) == [j \in 1 .. n |-> m[(addr + j - 1) % Cells]]

\* ... each of them a byte, and one after the other.
LEMMA ContentsGrow ==
  ASSUME NEW m \in [0 .. Cells - 1 -> Byte], NEW addr \in Nat
  PROVE  /\ Contents(m, addr, 0) = <<>>
         /\ \A i \in Nat \ {0} :
              /\ m[(addr + i - 1) % Cells] \in Byte
              /\ Append(Contents(m, addr, i - 1), m[(addr + i - 1) % Cells]) = Contents(m, addr, i)
<1>1. Cells \in Nat \ {0}
  BY BusAssumption
<1>2. \A i \in Nat \ {0} : m[(addr + i - 1) % Cells] \in Byte
  <2>1. ASSUME NEW i \in Nat \ {0}
        PROVE  m[(addr + i - 1) % Cells] \in Byte
    <3> DEFINE k == addr + i - 1
    <3>1. k \in Nat
      OBVIOUS
    <3> HIDE DEF k
    <3>2. k % Cells \in 0 .. Cells - 1
      BY <1>1, <3>1, Division
    <3>3. m[k % Cells] \in Byte
      BY <3>2
    <3> QED
      BY <3>3 DEF k
  <2> QED
    BY <2>1
<1>3. Contents(m, addr, 0) = <<>>
  BY DEF Contents
<1>4. ASSUME NEW i \in Nat \ {0}
      PROVE  Append(Contents(m, addr, i - 1), m[(addr + i - 1) % Cells]) = Contents(m, addr, i)
  <2> DEFINE cell(j) == m[(addr + j - 1) % Cells]
             s == [j \in 1 .. i |-> cell(j)]
  <2>1. \A j \in Nat \ {0} : cell(j) \in Byte
    BY <1>2
  <2>2. s = Contents(m, addr, i)
    BY DEF Contents
  <2>3. [j \in 1 .. i - 1 |-> cell(j)] = Contents(m, addr, i - 1)
    BY DEF Contents
  <2> HIDE DEF cell
  <2>4. s \in Seq(Byte) /\ s[i] = cell(i)
    <3>1. \A j \in 1 .. i : cell(j) \in Byte
      BY <2>1
    <3> QED
      BY <3>1
  <2>5. Upto(s, i - 1) = [j \in 1 .. i - 1 |-> cell(j)]
    BY DEF Upto
  <2>6. Upto(s, i) = s
    BY DEF Upto
  <2> HIDE DEF s
  <2>7. Append(Upto(s, i - 1), s[i]) = Upto(s, i)
    BY <2>4, UptoGrows
  <2>8. Append(Contents(m, addr, i - 1), cell(i)) = Contents(m, addr, i)
    BY <2>2, <2>3, <2>4, <2>5, <2>6, <2>7
  <2> QED
    BY <2>8 DEF cell
<1> QED
  BY <1>2, <1>3, <1>4

\* The device on its way through a message of n bytes that is read: i of them are sent.
Reading(addr, n, i) ==
  IF i < n THEN Dev("read", 0, 0, AddressWidth, (addr + i) % Cells, <<>>)
  ELSE Dev("idle", Width, 0, AddressWidth, (addr + n - 1) % Cells, <<>>)

\* What both of them show then.
ReadView(m, addr, n, i) ==
  Low(m, IF i = 0 \/ i = n THEN 1 ELSE 0, Reading(addr, n, i), <<>>, Contents(m, addr, i))

\* It sends one more.
LEMMA ReadingTalk ==
  ASSUME NEW m \in [0 .. Cells - 1 -> Byte], NEW addr \in Nat, NEW n \in Nat, NEW i \in 1 .. n
  PROVE  Leads(Data(m), ReadView(m, addr, n, i - 1), ReadByte(i < n), ReadView(m, addr, n, i))
<1> DEFINE p == (addr + i - 1) % Cells
           next == (p + 1) % Cells
           a == IF i - 1 = 0 \/ i - 1 = n THEN 1 ELSE 0
           b == IF i < n THEN 0 ELSE 1
           g == Contents(m, addr, i - 1)
           h == Append(g, m[p])
           d == Dev("read", 0, 0, AddressWidth, p, <<>>)
           e == IF i < n THEN Dev("read", 0, 0, AddressWidth, next, <<>>)
                ELSE Dev("idle", Width, 0, AddressWidth, p, <<>>)
<1>1. m[p] \in Byte /\ h = Contents(m, addr, i)
  <2>1. i \in Nat \ {0}
    OBVIOUS
  <2> QED
    BY ONLY <2>1, m \in [0 .. Cells - 1 -> Byte], addr \in Nat, ContentsGrow
<1>2. next = (addr + i) % Cells
  <2> DEFINE k == addr + i - 1
  <2>1. k \in Nat /\ k + 1 = addr + i /\ Cells \in Nat \ {0}
    BY BusAssumption
  <2> HIDE DEF k
  <2>2. ((k % Cells) + 1) % Cells = (k + 1) % Cells
    BY <2>1, RemainderNext
  <2> QED
    BY <2>1, <2>2 DEF k
<1>3. addr + (i - 1) = addr + i - 1 /\ i - 1 < n
  OBVIOUS
<1>4. Reading(addr, n, i - 1) = d
  BY <1>3 DEF Reading
<1>5. Reading(addr, n, i) = e
  <2>1. ~(i < n) => n = i
    OBVIOUS
  <2> HIDE DEF next
  <2> QED
    BY <1>2, <2>1 DEF Reading
<1>6. ReadView(m, addr, n, i - 1) = Low(m, a, d, <<>>, g)
  BY <1>4 DEF ReadView
<1>7. ReadView(m, addr, n, i) = Low(m, b, e, <<>>, h)
  <2>1. (IF i = 0 \/ i = n THEN 1 ELSE 0) = b
    OBVIOUS
  <2> HIDE DEF e, h, b
  <2> QED
    BY <1>1, <1>5, <2>1 DEF ReadView
<1> DEFINE ack == i < n
           none == <<>>
<1>8. ack \in BOOLEAN /\ b = (IF ack THEN 0 ELSE 1)
  OBVIOUS
<1>9. e = IF ack THEN Dev("read", 0, 0, AddressWidth, next, none)
          ELSE Dev("idle", Width, 0, AddressWidth, p, none)
  OBVIOUS
<1>10. d = Dev("read", 0, 0, AddressWidth, p, none)
  OBVIOUS
<1> HIDE DEF p, a, b, g, d, e, ack, none
<1>11. Leads(Data(m), Low(m, a, d, <<>>, g), ReadByte(ack), Low(m, b, e, <<>>, h))
  BY <1>1, <1>8, <1>9, <1>10, ReadByteTalk
<1> QED
  BY <1>6, <1>7, <1>11 DEF ack

\* A message read: all its bytes have come, and the device has stopped.
LEMMA ReadBodyTalk ==
  ASSUME NEW m \in [0 .. Cells - 1 -> Byte], NEW addr \in Nat,
         NEW x \in Msgs, x.read, x.buf # <<>>
  PROVE  Leads(Data(m), Low(m, 1, Dev("read", 0, 0, AddressWidth, addr % Cells, <<>>), <<>>, <<>>),
               MessageBody(x), ReadView(m, addr, Len(x.buf), Len(x.buf)))
<1> DEFINE n == Len(x.buf)
           ss == [i \in 1 .. n |-> IF x.read THEN ReadByte(i < n) ELSE WriteByte(x.buf[i])]
           v == [i \in 0 .. n |-> ReadView(m, addr, n, i)]
<1>1. n \in Nat \ {0}
  BY DEF Msgs
<1>2. MessageBody(x) = FlattenSeq(ss)
  BY DEF MessageBody
<1>3. Len(ss) = n
  BY <1>1
<1>4. ASSUME NEW i \in 1 .. n
      PROVE  ss[i] \in Seq(Ops) /\ Leads(Data(m), v[i - 1], ss[i], v[i])
  <2>1. i - 1 \in 0 .. n /\ i \in 0 .. n
    BY <1>1
  <2>2. ss[i] = ReadByte(i < n)
    OBVIOUS
  <2>3. v[i - 1] = ReadView(m, addr, n, i - 1) /\ v[i] = ReadView(m, addr, n, i)
    BY <2>1
  <2>4. ss[i] \in Seq(Ops)
    BY <2>2, BlockTypes
  <2> HIDE DEF v, ss, n
  <2> QED
    BY <1>1, <2>2, <2>3, <2>4, ReadingTalk
<1>5. Leads(Data(m), v[0], FlattenSeq(ss), v[n])
  <2> HIDE DEF ss, v, n
  <2> QED
    BY <1>1, <1>3, <1>4, LeadsAll
<1>6. v[0] = Low(m, 1, Dev("read", 0, 0, AddressWidth, addr % Cells, <<>>), <<>>, <<>>)
  <2>1. addr + 0 = addr /\ 0 < n /\ 0 \in 0 .. n
    BY <1>1
  <2>2. Contents(m, addr, 0) = <<>>
    BY ContentsGrow
  <2>3. Reading(addr, n, 0) = Dev("read", 0, 0, AddressWidth, addr % Cells, <<>>)
    BY <2>1 DEF Reading
  <2>4. v[0] = ReadView(m, addr, n, 0)
    BY <2>1
  <2> HIDE DEF v
  <2> QED
    BY <2>2, <2>3, <2>4 DEF ReadView
<1>7. v[n] = ReadView(m, addr, n, n)
  BY <1>1
<1> QED
  BY <1>2, <1>5, <1>6, <1>7

-----------------------------------------------------------------------------
(* A device that does not answer. *)

DeafView(msda, in_, missed) == [msda |-> msda, in |-> in_, missed |-> missed]

\* What each operation does then.
LEMMA DeafMoves ==
  ASSUME NEW a, NEW i
  PROVE  /\ Move(Deaf, "sda0", DeafView(a, i, 0), DeafView(0, i, 0))
         /\ Move(Deaf, "sda1", DeafView(a, i, 0), DeafView(1, i, 0))
         /\ \A o \in {"scl0", "scl1", "poll", "active"} :
              Move(Deaf, o, DeafView(a, i, 0), DeafView(a, i, 0))
         /\ Move(Deaf, "sample", DeafView(a, i, 0), DeafView(a, Append(i, a), 0))
         /\ Last(i) = 1 => Move(Deaf, "ack", DeafView(a, i, 0), DeafView(a, i, 1))
         /\ \A o : Move(Deaf, o, DeafView(a, i, 1), DeafView(a, i, 1))
<1>1. \A o, s, t : Move(Deaf, o, s, t) <=> DeafMove(o, s, t)
  BY Kinds
<1>2. DeafMove("sda0", DeafView(a, i, 0), DeafView(0, i, 0))
  BY DEF DeafMove, DeafView
<1>3. DeafMove("sda1", DeafView(a, i, 0), DeafView(1, i, 0))
  BY DEF DeafMove, DeafView
<1>4. \A o \in {"scl0", "scl1", "poll", "active"} :
        DeafMove(o, DeafView(a, i, 0), DeafView(a, i, 0))
  BY DEF DeafMove, DeafView
<1>5. DeafMove("sample", DeafView(a, i, 0), DeafView(a, Append(i, a), 0))
  BY DEF DeafMove, DeafView
<1>6. Last(i) = 1 => DeafMove("ack", DeafView(a, i, 0), DeafView(a, i, 1))
  BY DEF DeafMove, DeafView
<1>7. \A o : DeafMove(o, DeafView(a, i, 1), DeafView(a, i, 1))
  BY DEF DeafMove, DeafView
<1> QED
  BY <1>1, <1>2, <1>3, <1>4, <1>5, <1>6, <1>7

\* After a missed ACK nothing of the program matters.
LEMMA DeafForGood ==
  ASSUME NEW a, NEW i, NEW ops \in Seq(Ops)
  PROVE  Leads(Deaf, DeafView(a, i, 1), ops, DeafView(a, i, 1))
<1> DEFINE s == DeafView(a, i, 1)
           f == [k \in 0 .. Len(ops) |-> s]
<1>1. Len(ops) \in Nat
  OBVIOUS
<1>2. \A o : Move(Deaf, o, s, s)
  BY DeafMoves
<1> HIDE DEF s
<1>3. f[0] = s /\ f[Len(ops)] = s
  BY <1>1
<1>4. \A k \in 1 .. Len(ops) : f[k - 1] = s /\ f[k] = s
  BY <1>1
<1> HIDE DEF f
<1>5. Trace(Deaf, f, s, ops, s)
  BY <1>2, <1>3, <1>4 DEF Trace
<1> QED
  BY <1>5 DEF Leads, s

\* A bit it does not hear.
LEMMA DeafBit ==
  ASSUME NEW a, NEW i, NEW b
  PROVE  Leads(Deaf, DeafView(a, i, 0), WriteBit(b), DeafView(IF b = 1 THEN 1 ELSE 0, i, 0))
<1> DEFINE o == IF b = 1 THEN "sda1" ELSE "sda0"
           s == DeafView(a, i, 0)
           t == DeafView(IF b = 1 THEN 1 ELSE 0, i, 0)
<1>1. Move(Deaf, o, s, t)
  <2>1. CASE b = 1
    BY <2>1, DeafMoves
  <2>2. CASE b # 1
    BY <2>2, DeafMoves
  <2> QED
    BY <2>1, <2>2
<1>2. Move(Deaf, "scl1", t, t) /\ Move(Deaf, "poll", t, t) /\ Move(Deaf, "scl0", t, t)
  BY DeafMoves
<1>3. o \in Ops /\ {"scl1", "poll", "scl0"} \subseteq Ops
  BY DEF Ops
<1>4. WriteBit(b) = <<o, "scl1", "poll">> \o <<"scl0">>
  BY Blocks
<1> HIDE DEF o, s, t
<1>5. Leads(Deaf, s, <<o, "scl1", "poll">>, t)
  BY <1>1, <1>2, <1>3, LeadsThree
<1>6. Leads(Deaf, t, <<"scl0">>, t)
  BY <1>2, LeadsOne
<1>7. <<o, "scl1", "poll">> \in Seq(Ops) /\ <<"scl0">> \in Seq(Ops)
  BY <1>3
<1>8. Leads(Deaf, s, WriteBit(b), t)
  BY <1>4, <1>5, <1>6, <1>7, LeadsThen
<1> QED
  BY <1>8 DEF s, t

\* The acknowledgement that does not come.
LEMMA DeafAck ==
  ASSUME NEW a
  PROVE  Leads(Deaf, DeafView(a, <<>>, 0), ReceiveAck, DeafView(1, <<1>>, 1))
<1> DEFINE none == <<>>
           s0 == DeafView(a, none, 0)
           s1 == DeafView(1, none, 0)
           s2 == DeafView(1, <<1>>, 0)
           s3 == DeafView(1, <<1>>, 1)
<1>1. Append(none, 1) = <<1>> /\ Last(<<1>>) = 1
  BY DEF Last
<1> HIDE DEF none
<1>2. Move(Deaf, "sda1", s0, s1) /\ Move(Deaf, "scl1", s1, s1) /\ Move(Deaf, "poll", s1, s1)
  BY DeafMoves
<1>3. Move(Deaf, "sample", s1, s2)
  <2>1. Move(Deaf, "sample", DeafView(1, none, 0), DeafView(1, Append(none, 1), 0))
    BY DeafMoves
  <2> QED
    BY <1>1, <2>1
<1>4. Move(Deaf, "scl0", s2, s2) /\ Move(Deaf, "ack", s2, s3)
  <2> DEFINE one == <<1>>
  <2>1. Last(one) = 1
    BY <1>1
  <2> HIDE DEF one
  <2>2. /\ Move(Deaf, "scl0", DeafView(1, one, 0), DeafView(1, one, 0))
        /\ Move(Deaf, "ack", DeafView(1, one, 0), DeafView(1, one, 1))
    BY <2>1, DeafMoves
  <2> QED
    BY <2>2 DEF one
<1>5. {"sda1", "scl1", "poll", "sample", "scl0", "ack"} \subseteq Ops
  BY DEF Ops
<1> HIDE DEF s0, s1, s2, s3
<1>6. Leads(Deaf, s0, <<"sda1", "scl1", "poll">>, s1)
  BY <1>2, <1>5, LeadsThree
<1>7. Leads(Deaf, s1, <<"sample", "scl0">>, s2)
  BY <1>3, <1>4, <1>5, LeadsTwo
<1>8. Leads(Deaf, s2, <<"ack">>, s3)
  BY <1>4, LeadsOne
<1>9. /\ <<"sda1", "scl1", "poll">> \in Seq(Ops) /\ <<"sample", "scl0">> \in Seq(Ops)
      /\ <<"ack">> \in Seq(Ops)
  BY <1>5
<1>10. Leads(Deaf, s0, ReadBit, s2)
  BY <1>6, <1>7, <1>9, Blocks, LeadsThen
<1>11. Leads(Deaf, s0, ReceiveAck, s3)
  BY <1>8, <1>9, <1>10, Blocks, BlockTypes, LeadsThen
<1> QED
  BY <1>11 DEF s0, s3, none

\* A byte it does not hear.
LEMMA DeafByte ==
  ASSUME NEW a, NEW x
  PROVE  Leads(Deaf, DeafView(a, <<>>, 0), WriteByte(x), DeafView(1, <<1>>, 1))
<1> DEFINE none == <<>>
           ss == [i \in 1 .. Width |-> WriteBit(Bit(x, i))]
           e(i) == IF i = 0 THEN a ELSE IF Bit(x, i) = 1 THEN 1 ELSE 0
           v == [i \in 0 .. Width |-> DeafView(e(i), none, 0)]
<1>1. Width \in Nat \ {0}
  BY BusAssumption
<1>2. Len(ss) = Width /\ (Width = 0 => ss = <<>>) /\ \A i \in 1 .. Width : ss[i] \in Seq(Ops)
  BY <1>1, BlockTypes
<1> HIDE DEF none
<1>3. ASSUME NEW i \in 1 .. Width PROVE Leads(Deaf, v[i - 1], ss[i], v[i])
  <2>1. i - 1 \in 0 .. Width /\ i \in 0 .. Width /\ i # 0
    BY <1>1
  <2>2. v[i - 1] = DeafView(e(i - 1), none, 0)
    BY <2>1
  <2>3. v[i] = DeafView(IF Bit(x, i) = 1 THEN 1 ELSE 0, none, 0) /\ ss[i] = WriteBit(Bit(x, i))
    BY <2>1
  <2> HIDE DEF v, ss, e
  <2> QED
    BY <2>2, <2>3, DeafBit
<1>4. v[0] = DeafView(a, none, 0) /\ v[Width] = DeafView(e(Width), none, 0)
  BY <1>1
<1>5. WriteByte(x) = FlattenSeq(ss) \o ReceiveAck
  BY DEF WriteByte
<1> HIDE DEF v, ss, e
<1>6. FlattenSeq(ss) \in Seq(Ops)
  BY <1>1, <1>2, FlattenType
<1>7. Leads(Deaf, v[0], FlattenSeq(ss), v[Width])
  BY <1>1, <1>2, <1>3, LeadsAll
<1>8. Leads(Deaf, DeafView(e(Width), none, 0), ReceiveAck, DeafView(1, <<1>>, 1))
  BY DeafAck DEF none
<1>9. Leads(Deaf, DeafView(a, none, 0), FlattenSeq(ss), DeafView(e(Width), none, 0))
  BY <1>4, <1>7
<1>10. Leads(Deaf, DeafView(a, none, 0), FlattenSeq(ss) \o ReceiveAck, DeafView(1, <<1>>, 1))
  BY <1>6, <1>8, <1>9, BlockTypes, LeadsThen
<1> QED
  BY <1>5, <1>10 DEF none

-----------------------------------------------------------------------------
(* Calls of eeprom.c, from their first START on. *)

\* What comes before the START, what comes after it, and how a call ends.
Lead == <<"sda1", "scl1", "poll", "free", "start">>
OpenRest(read) == (<<"scl0">> \o Active) \o SendAddress(TargetAddr, read)
Ending == <<"scl0", "sda0", "scl1", "pollstop">>
Final == <<"stop", "idle">>

\* A program begins with operations.
LEMMA ConcatHead ==
  ASSUME NEW a \in Seq(Ops), a # <<>>, NEW b \in Seq(Ops)
  PROVE  /\ a \o b # <<>> /\ Head(a \o b) = Head(a) /\ Tail(a \o b) = Tail(a) \o b
         /\ Tail(a) \in Seq(Ops)
<1> DEFINE w == a \o b
           t == Tail(a) \o b
<1>1. Len(a) \in Nat \ {0} /\ Len(b) \in Nat
  OBVIOUS
<1>2. Tail(a) \in Seq(Ops) /\ Len(Tail(a)) = Len(a) - 1
      /\ \A i \in 1 .. Len(a) - 1 : Tail(a)[i] = a[i + 1]
  BY <1>1
<1>3. /\ w \in Seq(Ops) /\ Len(w) = Len(a) + Len(b)
      /\ \A i \in 1 .. Len(a) : w[i] = a[i]
      /\ \A i \in 1 .. Len(b) : w[Len(a) + i] = b[i]
  BY ConcatIndex
<1> DEFINE x == Tail(a)
<1>4. /\ t \in Seq(Ops) /\ Len(t) = Len(x) + Len(b)
      /\ \A i \in 1 .. Len(x) : t[i] = x[i]
      /\ \A i \in 1 .. Len(b) : t[Len(x) + i] = b[i]
  <2>1. x \in Seq(Ops)
    BY <1>2
  <2> HIDE DEF x
  <2>2. /\ x \o b \in Seq(Ops) /\ Len(x \o b) = Len(x) + Len(b)
        /\ \A i \in 1 .. Len(x) : (x \o b)[i] = x[i]
        /\ \A i \in 1 .. Len(b) : (x \o b)[Len(x) + i] = b[i]
    BY <2>1, ConcatIndex
  <2>3. t = x \o b
    BY DEF x
  <2> QED
    BY <2>2, <2>3
<1>5. x \in Seq(Ops) /\ Len(x) = Len(a) - 1 /\ \A i \in 1 .. Len(a) - 1 : x[i] = a[i + 1]
  BY <1>2
<1> HIDE DEF w, t, x
<1>6. w # <<>> /\ Head(w) = a[1] /\ Head(a) = a[1]
  BY <1>1, <1>3
<1>7. Tail(w) \in Seq(Ops) /\ Len(Tail(w)) = Len(w) - 1
      /\ \A i \in 1 .. Len(w) - 1 : Tail(w)[i] = w[i + 1]
  BY <1>1, <1>3, <1>6
<1>8. ASSUME NEW i \in 1 .. Len(Tail(w))
      PROVE  Tail(w)[i] = t[i]
  <2>1. Tail(w)[i] = w[i + 1] /\ i \in 1 .. Len(a) + Len(b) - 1
    BY <1>1, <1>3, <1>7
  <2>2. CASE i <= Len(a) - 1
    <3>1. i + 1 \in 1 .. Len(a) /\ i \in 1 .. Len(a) - 1 /\ i \in 1 .. Len(x)
      BY <1>1, <1>5, <2>1, <2>2
    <3> QED
      BY <1>3, <1>4, <1>5, <2>1, <3>1
  <2>3. CASE ~(i <= Len(a) - 1)
    <3> DEFINE j == i - (Len(a) - 1)
    <3>1. j \in 1 .. Len(b) /\ Len(a) + j = i + 1 /\ Len(x) + j = i
      BY <1>1, <1>5, <2>1, <2>3
    <3> HIDE DEF j
    <3>2. w[Len(a) + j] = b[j] /\ t[Len(x) + j] = b[j]
      BY <1>3, <1>4, <3>1
    <3> QED
      BY <2>1, <3>1, <3>2
  <2> QED
    BY <2>2, <2>3
<1>9. Len(Tail(w)) = Len(t)
  BY <1>1, <1>3, <1>4, <1>5, <1>7
<1>10. Tail(w) = t
  BY <1>4, <1>7, <1>8, <1>9, SeqEqual
<1> QED
  BY <1>2, <1>6, <1>10 DEF w, t

\* The shape of these programs.
LEMMA CallShapes ==
  /\ Lead \in Seq(Ops) /\ Ending \in Seq(Ops) /\ Final \in Seq(Ops)
  /\ GenerateStop = Ending \o Final
  /\ \A read \in BOOLEAN :
       OpenRest(read) \in Seq(Ops) /\ Opening(TargetAddr, read) = Lead \o OpenRest(read)
<1>1. /\ {"sda0", "sda1", "scl0", "scl1", "poll", "free", "start"} \subseteq Ops
      /\ {"pollstop", "stop", "idle", "active"} \subseteq Ops
  BY DEF Ops
<1>2. Ending \in Seq(Ops) /\ Final \in Seq(Ops)
  BY <1>1 DEF Ending, Final
<1>3. Lead \in Seq(Ops)
  BY <1>1 DEF Lead
<1>4. GenerateStop = Ending \o Final
  <2> DEFINE a == Ending
             b == Final
             c == GenerateStop
  <2>1. /\ a \in Seq(Ops) /\ Len(a) = 4
        /\ a[1] = "scl0" /\ a[2] = "sda0" /\ a[3] = "scl1" /\ a[4] = "pollstop"
    BY <1>2 DEF Ending
  <2>2. b \in Seq(Ops) /\ Len(b) = 2 /\ b[1] = "stop" /\ b[2] = "idle"
    BY <1>2 DEF Final
  <2>3. /\ c \in Seq(Ops) /\ Len(c) = 6
        /\ c[1] = "scl0" /\ c[2] = "sda0" /\ c[3] = "scl1" /\ c[4] = "pollstop"
        /\ c[5] = "stop" /\ c[6] = "idle"
    BY Blocks, BlockTypes
  <2> HIDE DEF a, b, c
  <2>4. /\ a \o b \in Seq(Ops) /\ Len(a \o b) = Len(a) + Len(b)
        /\ \A i \in 1 .. Len(a) : (a \o b)[i] = a[i]
        /\ \A i \in 1 .. Len(b) : (a \o b)[Len(a) + i] = b[i]
    BY <2>1, <2>2, ConcatIndex
  <2>5. /\ (a \o b)[1] = a[1] /\ (a \o b)[2] = a[2] /\ (a \o b)[3] = a[3]
        /\ (a \o b)[4] = a[4] /\ (a \o b)[4 + 1] = b[1] /\ (a \o b)[4 + 2] = b[2]
    <3>1. /\ 1 \in 1 .. 4 /\ 2 \in 1 .. 4 /\ 3 \in 1 .. 4 /\ 4 \in 1 .. 4
          /\ 1 \in 1 .. 2 /\ 2 \in 1 .. 2
      OBVIOUS
    <3> QED
      BY <2>1, <2>2, <2>4, <3>1
  <2>6. 4 + 1 = 5 /\ 4 + 2 = 6
    OBVIOUS
  <2>7. Len(a \o b) = 6
    BY <2>1, <2>2, <2>4
  <2>8. \A i \in 1 .. Len(c) : (a \o b)[i] = c[i]
    <3>1. \A i \in 1 .. Len(c) : i = 1 \/ i = 2 \/ i = 3 \/ i = 4 \/ i = 5 \/ i = 6
      BY <2>3
    <3> QED
      BY <2>1, <2>2, <2>3, <2>5, <2>6, <3>1
  <2>9. a \o b = c
    BY <2>3, <2>4, <2>7, <2>8, SeqEqual
  <2> QED
    BY <2>9 DEF a, b, c
<1>5. GenerateStart = Lead \o <<"scl0">>
  <2> DEFINE a == Lead
             b == <<"scl0">>
             c == GenerateStart
  <2>1. /\ a \in Seq(Ops) /\ Len(a) = 5
        /\ a[1] = "sda1" /\ a[2] = "scl1" /\ a[3] = "poll" /\ a[4] = "free" /\ a[5] = "start"
    BY <1>3 DEF Lead
  <2>2. b \in Seq(Ops) /\ Len(b) = 1 /\ b[1] = "scl0"
    BY <1>1
  <2>3. /\ c \in Seq(Ops) /\ Len(c) = 6
        /\ c[1] = "sda1" /\ c[2] = "scl1" /\ c[3] = "poll" /\ c[4] = "free"
        /\ c[5] = "start" /\ c[6] = "scl0"
    BY Blocks, BlockTypes
  <2> HIDE DEF a, b, c
  <2>4. /\ a \o b \in Seq(Ops) /\ Len(a \o b) = Len(a) + Len(b)
        /\ \A i \in 1 .. Len(a) : (a \o b)[i] = a[i]
        /\ \A i \in 1 .. Len(b) : (a \o b)[Len(a) + i] = b[i]
    BY <2>1, <2>2, ConcatIndex
  <2>5. /\ (a \o b)[1] = a[1] /\ (a \o b)[2] = a[2] /\ (a \o b)[3] = a[3]
        /\ (a \o b)[4] = a[4] /\ (a \o b)[5] = a[5] /\ (a \o b)[5 + 1] = b[1]
    <3>1. /\ 1 \in 1 .. 5 /\ 2 \in 1 .. 5 /\ 3 \in 1 .. 5 /\ 4 \in 1 .. 5 /\ 5 \in 1 .. 5
          /\ 1 \in 1 .. 1
      OBVIOUS
    <3> QED
      BY <2>1, <2>2, <2>4, <3>1
  <2>6. 5 + 1 = 6
    OBVIOUS
  <2>7. Len(a \o b) = 6
    BY <2>1, <2>2, <2>4
  <2>8. \A i \in 1 .. Len(c) : (a \o b)[i] = c[i]
    <3>1. \A i \in 1 .. Len(c) : i = 1 \/ i = 2 \/ i = 3 \/ i = 4 \/ i = 5 \/ i = 6
      BY <2>3
    <3> QED
      BY <2>1, <2>2, <2>3, <2>5, <2>6, <3>1
  <2>9. a \o b = c
    BY <2>3, <2>4, <2>7, <2>8, SeqEqual
  <2> QED
    BY <2>9 DEF a, b, c
<1>6. ASSUME NEW read \in BOOLEAN
      PROVE  /\ OpenRest(read) \in Seq(Ops)
             /\ Opening(TargetAddr, read) = Lead \o OpenRest(read)
  <2> DEFINE l == Lead
             o == <<"scl0">>
             a == Active
             s == SendAddress(TargetAddr, read)
  <2>1. l \in Seq(Ops) /\ o \in Seq(Ops) /\ a \in Seq(Ops) /\ s \in Seq(Ops)
    BY <1>1, <1>3, BlockTypes DEF Active
  <2>2. Opening(TargetAddr, read) = ((l \o o) \o a) \o s
    BY <1>5 DEF Opening
  <2>3. OpenRest(read) = (o \o a) \o s
    BY DEF OpenRest
  <2> HIDE DEF l, o, a, s
  <2>4. o \o a \in Seq(Ops) /\ (o \o a) \o s \in Seq(Ops)
    <3> DEFINE oa == o \o a
    <3>1. oa \in Seq(Ops)
      BY <2>1, ConcatProperties
    <3> HIDE DEF oa
    <3>2. oa \o s \in Seq(Ops)
      BY <2>1, <3>1, ConcatProperties
    <3> QED
      BY <3>1, <3>2 DEF oa
  <2>5. (l \o o) \o a = l \o (o \o a)
    BY <2>1, ConcatAssociative
  <2>6. (l \o (o \o a)) \o s = l \o ((o \o a) \o s)
    <3> DEFINE oa == o \o a
    <3>1. oa \in Seq(Ops)
      BY <2>4
    <3> HIDE DEF oa
    <3>2. (l \o oa) \o s = l \o (oa \o s)
      BY <2>1, <3>1, ConcatAssociative
    <3> QED
      BY <3>2 DEF oa
  <2> QED
    BY <2>2, <2>3, <2>4, <2>5, <2>6 DEF l
<1> QED
  BY <1>2, <1>3, <1>4, <1>6

\* Three programs one after another.
Joins(a, b, c) ==
  /\ a \o b \in Seq(Ops) /\ b \o c \in Seq(Ops)
  /\ (a \o b) \o c = a \o (b \o c) /\ (a \o b) \o c \in Seq(Ops)

\* They make programs, whichever two are joined first.
LEMMA ThreePrograms ==
  ASSUME NEW a \in Seq(Ops), NEW b \in Seq(Ops), NEW c \in Seq(Ops)
  PROVE  Joins(a, b, c)
<1>1. a \o b \in Seq(Ops)
  BY ConcatProperties
<1>2. b \o c \in Seq(Ops)
  BY ConcatProperties
<1>3. (a \o b) \o c = a \o (b \o c)
  BY ConcatAssociative
<1>4. (a \o b) \o c \in Seq(Ops)
  <2> DEFINE ab == a \o b
  <2>1. ab \in Seq(Ops)
    BY <1>1
  <2> HIDE DEF ab
  <2>2. ab \o c \in Seq(Ops)
    BY <2>1, ConcatProperties
  <2> QED
    BY <2>2 DEF ab
<1> QED
  BY <1>1, <1>2, <1>3, <1>4 DEF Joins

\* One block, and two.
LEMMA FlattenTwo ==
  ASSUME NEW a \in Seq(Ops), NEW b \in Seq(Ops)
  PROVE  FlattenSeq(<<a>>) = a /\ FlattenSeq(<<a, b>>) = a \o b
<1>1. FlattenSeq(<<a>>) = a
  <2> DEFINE ss == <<a>>
  <2>1. Len(ss) = 1 /\ ss[1] = a
    OBVIOUS
  <2> HIDE DEF ss
  <2>2. PICK flat : Flattens(flat, ss) /\ FlattenSeq(ss) = flat[Len(ss)]
    <3>1. Len(ss) \in Nat \ {0}
      BY <2>1
    <3> QED
      BY <3>1, FlattenUnfolds
  <2>3. flat[1] = ss[1]
    BY <2>1, <2>2 DEF Flattens
  <2> QED
    BY <2>1, <2>2, <2>3 DEF ss
<1>2. FlattenSeq(<<a, b>>) = a \o b
  <2> DEFINE ss == <<a, b>>
  <2>1. Len(ss) = 2 /\ ss[1] = a /\ ss[2] = b
    OBVIOUS
  <2> HIDE DEF ss
  <2>2. PICK flat : Flattens(flat, ss) /\ FlattenSeq(ss) = flat[Len(ss)]
    <3>1. Len(ss) \in Nat \ {0}
      BY <2>1
    <3> QED
      BY <3>1, FlattenUnfolds
  <2>3. \A i \in 1 .. 2 : flat[i] = IF i = 1 THEN ss[i] ELSE flat[i - 1] \o ss[i]
    BY <2>1, <2>2 DEF Flattens
  <2>4. flat[1] = ss[1] /\ flat[2] = flat[1] \o ss[2]
    <3>1. 1 \in 1 .. 2 /\ 2 \in 1 .. 2 /\ 2 - 1 = 1 /\ 2 # 1
      OBVIOUS
    <3>2. flat[2] = flat[2 - 1] \o ss[2]
      BY <2>3, <3>1
    <3>3. flat[1] = ss[1]
      BY <2>3, <3>1
    <3> QED
      BY <3>1, <3>2, <3>3
  <2> QED
    BY <2>1, <2>2, <2>4 DEF ss
<1> QED
  BY <1>1, <1>2

\* The view when the START has been seen.
Afresh(words, ptr) == Talk(0, 1, 1, 0, Dev("addr", 0, 0, words, ptr, <<>>), <<>>, <<>>)

\* The device is called.
LEMMA OpenTalk ==
  ASSUME NEW m, NEW read \in BOOLEAN, NEW words, NEW ptr,
         NEW e, e = IF read THEN Dev("read", 0, 0, words, ptr, <<>>)
                    ELSE Dev("word", 0, 0, 0, 0, <<>>)
  PROVE  Leads(Data(m), Afresh(words, ptr), OpenRest(read), Low(m, 1, e, <<>>, <<>>))
<1> DEFINE none == <<>>
           d == Dev("addr", 0, 0, words, ptr, none)
           s0 == Talk(0, 1, 1, 0, d, none, none)
           s1 == Low(m, 0, d, none, none)
           s2 == Low(m, 1, e, none, none)
           snd == SendAddress(TargetAddr, read)
<1>1. "addr" \in Ears /\ 0 # Width + 1
  BY PowerFacts DEF Ears
<1>2. Fallen(d) = d
  BY <1>1, FallDevs
<1>3. Move(Data(m), "scl0", s0, s1)
  <2> HIDE DEF d, none
  <2>1. Move(Data(m), "scl0", s0, Talk(0, 0, Out(Fallen(d), m), 0, Fallen(d), none, none))
    BY TalkMoves
  <2> QED
    BY <1>2, <2>1 DEF Low
<1>4. Move(Data(m), "active", s1, s1)
  <2> HIDE DEF d, none
  <2> QED
    BY TalkMoves DEF Low
<1>5. Leads(Data(m), s1, snd, s2)
  <2>1. e = IF read THEN Dev("read", 0, 0, words, ptr, none) ELSE Dev("word", 0, 0, 0, 0, none)
    OBVIOUS
  <2>2. Leads(Data(m), Low(m, 0, d, <<>>, none), snd, Low(m, 1, e, <<>>, none))
    <3> HIDE DEF none
    <3> QED
      BY <2>1, CallHeard
  <2> QED
    BY <2>2
<1>6. /\ "scl0" \in Ops /\ <<"scl0">> \in Seq(Ops) /\ Active \in Seq(Ops) /\ snd \in Seq(Ops)
      /\ Active = <<"active">>
  BY BlockTypes DEF Ops, Active
<1>7. OpenRest(read) = (<<"scl0">> \o Active) \o snd
  BY DEF OpenRest
<1>8. Afresh(words, ptr) = s0
  BY DEF Afresh
<1> HIDE DEF s0, s1, s2, snd
<1>9. Leads(Data(m), s0, <<"scl0">>, s1)
  BY <1>3, LeadsOne
<1>10. Leads(Data(m), s1, Active, s1)
  BY <1>4, <1>6, LeadsOne
<1> DEFINE first == <<"scl0">> \o Active
<1>11. first \in Seq(Ops) /\ Leads(Data(m), s0, first, s1)
  BY <1>6, <1>9, <1>10, LeadsJoin
<1> HIDE DEF first
<1>12. Leads(Data(m), s0, first \o snd, s2)
  BY <1>5, <1>6, <1>11, LeadsJoin
<1>13. first \o snd = OpenRest(read)
  BY <1>7 DEF first
<1> QED
  BY <1>8, <1>12, <1>13 DEF s2, none

\* It is called again: a repeated START.
LEMMA RestartTalk ==
  ASSUME NEW m, NEW st \in Ears, NEW words, NEW ptr, NEW page
  PROVE  Leads(Data(m), Low(m, 1, Dev(st, 0, 0, words, ptr, page), <<>>, <<>>), Lead,
               Afresh(words, ptr))
<1> DEFINE none == <<>>
           d == Dev(st, 0, 0, words, ptr, page)
           h == Dev(st, 0 + 1, 2 * 0 + 1, words, ptr, page)
           e == Dev("addr", 0, 0, words, ptr, <<>>)
           s0 == Talk(1, 0, 1, 0, d, none, none)
           s1 == Talk(1, 1, 1, 1, h, none, none)
           s2 == Talk(1, 1, 1, 0, h, none, none)
           s3 == Talk(0, 1, 1, 0, e, none, none)
<1>1. 0 # Width /\ 0 < Width /\ 0 \in Nat /\ Wired(1, 1) = 1
  BY PowerFacts DEF Wired
<1>2. Out(d, m) = 1
  BY <1>1, OutDevs
<1>3. AtEdge(d, 1) = h
  BY <1>1, EdgeBit
<1>4. Started(h) = e
  BY StartDevs
<1>5. Low(m, 1, d, none, none) = s0
  BY <1>2 DEF Low
<1> HIDE DEF d, h, e, none
<1>6. Move(Data(m), "sda1", s0, s0)
  BY TalkMoves
<1>7. Move(Data(m), "scl1", s0, s1)
  <2>1. Move(Data(m), "scl1", s0, Talk(1, 1, 1, 1, AtEdge(d, Wired(1, 1)), none, none))
    BY TalkMoves
  <2> QED
    BY <1>1, <1>3, <2>1
<1>8. Move(Data(m), "poll", s1, s2) /\ Move(Data(m), "free", s2, s2)
  BY TalkMoves
<1>9. Move(Data(m), "start", s2, s3)
  <2>1. Move(Data(m), "start", s2, Talk(0, 1, 1, 0, Started(h), none, none))
    BY TalkMoves
  <2> QED
    BY <1>4, <2>1
<1>10. {"sda1", "scl1", "poll", "free", "start"} \subseteq Ops
  BY DEF Ops
<1>11. Afresh(words, ptr) = s3
  BY DEF Afresh, e, none
<1> HIDE DEF s0, s1, s2, s3
<1>12. Leads(Data(m), s0, <<"sda1", "scl1", "poll">>, s2)
  BY <1>6, <1>7, <1>8, <1>10, LeadsThree
<1>13. Leads(Data(m), s2, <<"free", "start">>, s3)
  BY <1>8, <1>9, <1>10, LeadsTwo
<1>14. <<"sda1", "scl1", "poll">> \o <<"free", "start">> = Lead
  <2> DEFINE a == <<"sda1", "scl1", "poll">>
             b == <<"free", "start">>
             c == Lead
  <2>1. a \in Seq(Ops) /\ Len(a) = 3 /\ a[1] = "sda1" /\ a[2] = "scl1" /\ a[3] = "poll"
    BY <1>10
  <2>2. b \in Seq(Ops) /\ Len(b) = 2 /\ b[1] = "free" /\ b[2] = "start"
    BY <1>10
  <2>3. /\ c \in Seq(Ops) /\ Len(c) = 5
        /\ c[1] = "sda1" /\ c[2] = "scl1" /\ c[3] = "poll" /\ c[4] = "free" /\ c[5] = "start"
    BY <1>10 DEF Lead
  <2> HIDE DEF a, b, c
  <2>4. /\ a \o b \in Seq(Ops) /\ Len(a \o b) = Len(a) + Len(b)
        /\ \A i \in 1 .. Len(a) : (a \o b)[i] = a[i]
        /\ \A i \in 1 .. Len(b) : (a \o b)[Len(a) + i] = b[i]
    BY <2>1, <2>2, ConcatIndex
  <2>5. /\ (a \o b)[1] = a[1] /\ (a \o b)[2] = a[2] /\ (a \o b)[3] = a[3]
        /\ (a \o b)[3 + 1] = b[1] /\ (a \o b)[3 + 2] = b[2]
    <3>1. 1 \in 1 .. 3 /\ 2 \in 1 .. 3 /\ 3 \in 1 .. 3 /\ 1 \in 1 .. 2 /\ 2 \in 1 .. 2
      OBVIOUS
    <3> QED
      BY <2>1, <2>2, <2>4, <3>1
  <2>6. 3 + 1 = 4 /\ 3 + 2 = 5
    OBVIOUS
  <2>7. Len(a \o b) = 5
    BY <2>1, <2>2, <2>4
  <2>8. \A i \in 1 .. Len(c) : (a \o b)[i] = c[i]
    <3>1. \A i \in 1 .. Len(c) : i = 1 \/ i = 2 \/ i = 3 \/ i = 4 \/ i = 5
      BY <2>3
    <3> QED
      BY <2>1, <2>2, <2>3, <2>5, <2>6, <3>1
  <2>9. a \o b = c
    BY <2>3, <2>4, <2>7, <2>8, SeqEqual
  <2> QED
    BY <2>9 DEF a, b, c
<1>15. <<"sda1", "scl1", "poll">> \in Seq(Ops) /\ <<"free", "start">> \in Seq(Ops)
  BY <1>10
<1>16. Leads(Data(m), s0, Lead, s3)
  BY <1>12, <1>13, <1>14, <1>15, LeadsThen
<1> QED
  BY <1>5, <1>11, <1>16 DEF d, none

\* The end of a call, up to the STOP.
LEMMA EndingTalk ==
  ASSUME NEW m, NEW d, Out(d, m) = 1, NEW a, NEW g, NEW e, e = AtEdge(d, 0)
  PROVE  Leads(Data(m), Low(m, a, d, <<>>, g), Ending, Talk(0, 1, 1, 0, e, <<>>, g))
<1> DEFINE none == <<>>
           s0 == Talk(a, 0, 1, 0, d, none, g)
           s1 == Talk(0, 0, 1, 0, d, none, g)
           s2 == Talk(0, 1, 1, 1, e, none, g)
           s3 == Talk(0, 1, 1, 0, e, none, g)
<1>1. Low(m, a, d, none, g) = s0 /\ Wired(0, 1) = 0
  BY DEF Low, Wired
<1> HIDE DEF none
<1>2. Move(Data(m), "scl0", s0, s0) /\ Move(Data(m), "sda0", s0, s1)
  BY TalkMoves
<1>3. Move(Data(m), "scl1", s1, s2)
  <2>1. Move(Data(m), "scl1", s1, Talk(0, 1, 1, 1, AtEdge(d, Wired(0, 1)), none, g))
    BY TalkMoves
  <2> QED
    BY <1>1, <2>1
<1>4. Move(Data(m), "pollstop", s2, s3)
  BY TalkMoves
<1>5. {"scl0", "sda0", "scl1", "pollstop"} \subseteq Ops
  BY DEF Ops
<1> HIDE DEF s0, s1, s2, s3
<1>6. Leads(Data(m), s0, <<"scl0", "sda0">>, s1) /\ Leads(Data(m), s1, <<"scl1", "pollstop">>, s3)
  BY <1>2, <1>3, <1>4, <1>5, LeadsTwo
<1>7. <<"scl0", "sda0">> \o <<"scl1", "pollstop">> = Ending
  <2> DEFINE x == <<"scl0", "sda0">>
             y == <<"scl1", "pollstop">>
             z == Ending
  <2>1. x \in Seq(Ops) /\ Len(x) = 2 /\ x[1] = "scl0" /\ x[2] = "sda0"
    BY <1>5
  <2>2. y \in Seq(Ops) /\ Len(y) = 2 /\ y[1] = "scl1" /\ y[2] = "pollstop"
    BY <1>5
  <2>3. /\ z \in Seq(Ops) /\ Len(z) = 4
        /\ z[1] = "scl0" /\ z[2] = "sda0" /\ z[3] = "scl1" /\ z[4] = "pollstop"
    BY <1>5 DEF Ending
  <2> HIDE DEF x, y, z
  <2>4. /\ x \o y \in Seq(Ops) /\ Len(x \o y) = Len(x) + Len(y)
        /\ \A i \in 1 .. Len(x) : (x \o y)[i] = x[i]
        /\ \A i \in 1 .. Len(y) : (x \o y)[Len(x) + i] = y[i]
    BY <2>1, <2>2, ConcatIndex
  <2>5. /\ (x \o y)[1] = x[1] /\ (x \o y)[2] = x[2]
        /\ (x \o y)[2 + 1] = y[1] /\ (x \o y)[2 + 2] = y[2]
    <3>1. 1 \in 1 .. 2 /\ 2 \in 1 .. 2
      OBVIOUS
    <3> QED
      BY <2>1, <2>2, <2>4, <3>1
  <2>6. 2 + 1 = 3 /\ 2 + 2 = 4
    OBVIOUS
  <2>7. Len(x \o y) = 4
    BY <2>1, <2>2, <2>4
  <2>8. \A i \in 1 .. Len(z) : (x \o y)[i] = z[i]
    <3>1. \A i \in 1 .. Len(z) : i = 1 \/ i = 2 \/ i = 3 \/ i = 4
      BY <2>3
    <3> QED
      BY <2>1, <2>2, <2>3, <2>5, <2>6, <3>1
  <2>9. x \o y = z
    BY <2>3, <2>4, <2>7, <2>8, SeqEqual
  <2> QED
    BY <2>9 DEF x, y, z
<1>8. <<"scl0", "sda0">> \in Seq(Ops) /\ <<"scl1", "pollstop">> \in Seq(Ops)
  BY <1>5
<1>9. Leads(Data(m), s0, Ending, s3)
  BY <1>6, <1>7, <1>8, LeadsThen
<1> QED
  BY <1>1, <1>9 DEF s3, none

Memories == [0 .. Cells - 1 -> Byte]

\* What master and device show before the STOP of a call c that is answered: a probe, a
\* write, a read.
Ends(c, att, m) ==
  IF att > 0 THEN Talk(0, 1, 1, 0, Dev("word", 1, 0, 0, 0, <<>>), <<>>, <<>>)
  ELSE IF c.op = "write"
  THEN Talk(0, 1, 1, 0, Dev("data", 1, 0, AddressWidth, c.addr % Cells, c.data), <<>>, <<>>)
  ELSE Talk(0, 1, 1, 0, Dev("idle", Width, 0, AddressWidth, (c.addr + c.len - 1) % Cells, <<>>),
            <<>>, Contents(m, c.addr, c.len))

\* The rest of a program leads there from its START on, ...
Answered(c, att, q) ==
  \E p \in Seq(Ops) :
    /\ q = p \o Final
    /\ \A m \in Memories : \A words, ptr : Leads(Data(m), Afresh(words, ptr), p, Ends(c, att, m))

\* ... or to an ACK that is missed.
Unanswered(q) == \E u : Leads(Deaf, DeafView(0, <<>>, 0), q, u) /\ u.missed = 1

\* A program of eeprom.c.
CallProgram(c, att, ops) ==
  \E q \in Seq(Ops) : ops = Lead \o q /\ Answered(c, att, q) /\ Unanswered(q)

\* The address is not acknowledged.
LEMMA DeafOpen ==
  ASSUME NEW read \in BOOLEAN, NEW rest \in Seq(Ops)
  PROVE  Unanswered(OpenRest(read) \o rest)
<1> DEFINE none == <<>>
           s0 == DeafView(0, none, 0)
           s1 == DeafView(1, <<1>>, 1)
           snd == SendAddress(TargetAddr, read)
           first == <<"scl0">> \o Active
           open == OpenRest(read)
<1>1. /\ "scl0" \in Ops /\ <<"scl0">> \in Seq(Ops) /\ Active \in Seq(Ops) /\ snd \in Seq(Ops)
      /\ Active = <<"active">>
  BY BlockTypes DEF Ops, Active
<1>2. Move(Deaf, "scl0", s0, s0) /\ Move(Deaf, "active", s0, s0)
  <2> HIDE DEF none
  <2> QED
    BY DeafMoves
<1>3. Leads(Deaf, s0, snd, s1)
  BY DeafByte DEF SendAddress
<1>4. s1.missed = 1
  BY DEF DeafView
<1>5. Leads(Deaf, s1, rest, s1)
  BY DeafForGood
<1>6. OpenRest(read) = first \o snd
  BY DEF OpenRest
<1> HIDE DEF s0, s1, snd, open
<1>7. Leads(Deaf, s0, <<"scl0">>, s0)
  BY <1>2, LeadsOne
<1>8. Leads(Deaf, s0, Active, s0)
  BY <1>1, <1>2, LeadsOne
<1>9. first \in Seq(Ops) /\ Leads(Deaf, s0, first, s0)
  BY <1>1, <1>7, <1>8, LeadsJoin
<1> HIDE DEF first
<1>10. first \o snd \in Seq(Ops) /\ Leads(Deaf, s0, first \o snd, s1)
  BY <1>1, <1>3, <1>9, LeadsJoin
<1>11. open \in Seq(Ops) /\ Leads(Deaf, s0, open, s1)
  BY <1>6, <1>10 DEF open
<1>12. Leads(Deaf, s0, open \o rest, s1)
  BY <1>5, <1>11, LeadsJoin
<1> QED
  BY <1>4, <1>12 DEF Unanswered, s0, none, open

\* A program that ends with a STOP.
LEMMA StopShape ==
  ASSUME NEW r \in Seq(Ops), NEW t \in Seq(Ops)
  PROVE  /\ ((Lead \o r) \o t) \o GenerateStop = Lead \o ((r \o (t \o Ending)) \o Final)
         /\ r \o (t \o Ending) \in Seq(Ops) /\ t \o Ending \in Seq(Ops)
         /\ (r \o (t \o Ending)) \o Final \in Seq(Ops)
         /\ (r \o (t \o Ending)) \o Final = r \o ((t \o Ending) \o Final)
         /\ (t \o Ending) \o Final \in Seq(Ops)
<1> DEFINE l == Lead
           e == Ending
           f == Final
           rt == r \o t
           te == t \o e
<1>1. l \in Seq(Ops) /\ e \in Seq(Ops) /\ f \in Seq(Ops) /\ GenerateStop = e \o f
  BY CallShapes
<1> HIDE DEF l, e, f
<1>2. Joins(r, t, e) /\ Joins(l, r, t)
  BY <1>1, ThreePrograms
<1>3. rt \in Seq(Ops) /\ te \in Seq(Ops) /\ rt \o e = r \o te
  BY <1>2 DEF Joins
<1>4. (l \o r) \o t = l \o rt
  BY <1>2 DEF Joins
<1> HIDE DEF rt, te
<1> DEFINE rte == r \o te
           lrt == l \o rt
<1>5. Joins(r, te, f) /\ Joins(l, rt, e)
  BY <1>1, <1>3, ThreePrograms
<1>6. rte \in Seq(Ops) /\ te \o f \in Seq(Ops) /\ rte \o f = r \o (te \o f)
      /\ rte \o f \in Seq(Ops)
  BY <1>5 DEF Joins
<1>7. lrt \in Seq(Ops) /\ lrt \o e = l \o (rt \o e)
  BY <1>5 DEF Joins
<1>8. rt \o e = rte
  BY <1>3
<1> HIDE DEF rte, lrt
<1>9. Joins(lrt, e, f) /\ Joins(l, rte, f)
  BY <1>1, <1>6, <1>7, ThreePrograms
<1>10. (lrt \o e) \o f = lrt \o (e \o f) /\ (l \o rte) \o f = l \o (rte \o f)
  BY <1>9 DEF Joins
<1>11. lrt \o e = l \o rte
  BY <1>7, <1>8
<1>12. (l \o r) \o t = lrt
  BY <1>4 DEF lrt
<1>13. ((l \o r) \o t) \o GenerateStop = l \o (rte \o f)
  BY <1>1, <1>10, <1>11, <1>12
<1>14. /\ ((l \o r) \o t) \o GenerateStop = l \o ((r \o te) \o f)
       /\ r \o te \in Seq(Ops) /\ te \in Seq(Ops) /\ (r \o te) \o f \in Seq(Ops)
       /\ (r \o te) \o f = r \o (te \o f) /\ te \o f \in Seq(Ops)
  BY <1>3, <1>6, <1>13 DEF rte
<1> QED
  BY <1>14 DEF l, e, f, te

\* A device that hears the first bit of a byte which the STOP cuts off.
LEMMA EdgeCut ==
  ASSUME NEW st \in Ears, NEW words, NEW ptr, NEW page, NEW m
  PROVE  /\ AtEdge(Dev(st, 0, 0, words, ptr, page), 0) = Dev(st, 1, 0, words, ptr, page)
         /\ Out(Dev(st, 0, 0, words, ptr, page), m) = 1
<1>1. 0 # Width /\ 0 < Width /\ 0 \in Nat /\ 0 + 1 = 1 /\ 2 * 0 + 0 = 0
  BY PowerFacts
<1>2. AtEdge(Dev(st, 0, 0, words, ptr, page), 0) = Dev(st, 0 + 1, 2 * 0 + 0, words, ptr, page)
  BY <1>1, EdgeBit
<1>3. Out(Dev(st, 0, 0, words, ptr, page), m) = 1
  BY <1>1, OutDevs
<1> QED
  BY <1>1, <1>2, <1>3

\* A device that is idle stays so.
LEMMA EdgeIdle ==
  ASSUME NEW n, NEW sh, NEW words, NEW ptr, NEW page, NEW bit, NEW m
  PROVE  /\ AtEdge(Dev("idle", n, sh, words, ptr, page), bit) = Dev("idle", n, sh, words, ptr, page)
         /\ Out(Dev("idle", n, sh, words, ptr, page), m) = 1
<1> DEFINE d == Dev("idle", n, sh, words, ptr, page)
<1>1. d.st = "idle"
  BY DevFields
<1>2. Out(d, m) = 1
  BY OutDevs
<1> HIDE DEF d
<1>3. AtEdge(d, bit) = d
  BY <1>1 DEF AtEdge, Hears
<1> QED
  BY <1>2, <1>3 DEF d

\* A probe.
LEMMA ProbeProgram ==
  ASSUME NEW c, NEW att, att > 0
  PROVE  CallProgram(c, att, ProbeOps(TargetAddr))
<1> DEFINE r == OpenRest(FALSE)
           t == <<>>
           p == r \o Ending
           q == p \o Final
<1>1. /\ r \in Seq(Ops) /\ Ending \in Seq(Ops) /\ Final \in Seq(Ops) /\ Lead \in Seq(Ops)
      /\ GenerateStop = Ending \o Final /\ Opening(TargetAddr, FALSE) = Lead \o r
  BY CallShapes
<1>2. p \in Seq(Ops) /\ q \in Seq(Ops) /\ q = r \o (Ending \o Final) /\ Ending \o Final \in Seq(Ops)
  <2> HIDE DEF r
  <2>1. Joins(r, Ending, Final)
    BY <1>1, ThreePrograms
  <2> QED
    BY <2>1 DEF Joins
<1>3. ProbeOps(TargetAddr) = Lead \o q
  <2> DEFINE ef == Ending \o Final
  <2>1. ProbeOps(TargetAddr) = (Lead \o r) \o ef
    BY <1>1 DEF ProbeOps
  <2>2. ef \in Seq(Ops) /\ q = r \o ef
    BY <1>2
  <2> HIDE DEF ef, r, q
  <2>3. Joins(Lead, r, ef)
    BY <1>1, <2>2, ThreePrograms
  <2>4. (Lead \o r) \o ef = Lead \o (r \o ef)
    BY <2>3 DEF Joins
  <2> QED
    BY <2>1, <2>2, <2>4
<1>4. Unanswered(q)
  <2> DEFINE ef == Ending \o Final
  <2>1. ef \in Seq(Ops) /\ q = r \o ef
    BY <1>2
  <2> HIDE DEF ef, q
  <2>2. Unanswered(r \o ef)
    BY <2>1, DeafOpen
  <2> QED
    BY <2>1, <2>2
<1>5. Answered(c, att, q)
  <2>1. ASSUME NEW m \in Memories, NEW words, NEW ptr
        PROVE  Leads(Data(m), Afresh(words, ptr), p, Ends(c, att, m))
    <3> DEFINE none == <<>>
               d == Dev("word", 0, 0, 0, 0, none)
               e == Dev("word", 1, 0, 0, 0, none)
               s1 == Low(m, 1, d, none, none)
               s2 == Talk(0, 1, 1, 0, e, none, none)
    <3>1. Ends(c, att, m) = s2
      BY DEF Ends
    <3>2. "word" \in Ears
      BY DEF Ears
    <3>3. AtEdge(d, 0) = e /\ Out(d, m) = 1
      BY <3>2, EdgeCut
    <3>4. Leads(Data(m), Afresh(words, ptr), r, s1)
      <4>1. Leads(Data(m), Afresh(words, ptr), r, Low(m, 1, d, <<>>, <<>>))
        BY OpenTalk
      <4> QED
        BY <4>1
    <3>5. Leads(Data(m), s1, Ending, s2)
      <4> HIDE DEF d, e
      <4>1. Leads(Data(m), Low(m, 1, d, <<>>, none), Ending, Talk(0, 1, 1, 0, e, <<>>, none))
        BY <3>3, EndingTalk
      <4> QED
        BY <4>1
    <3> HIDE DEF s1, s2, r
    <3>6. Leads(Data(m), Afresh(words, ptr), r \o Ending, s2)
      BY <1>1, <3>4, <3>5, LeadsJoin
    <3> QED
      BY <3>1, <3>6
  <2> HIDE DEF p
  <2> QED
    BY <1>2, <2>1 DEF Answered
<1> HIDE DEF q
<1> QED
  BY <1>2, <1>3, <1>4, <1>5 DEF CallProgram

\* The message of a write, and the two of a read.
WriteMessage(c) == Message(MemoryAddress(c.addr) \o c.data, FALSE, TRUE, FALSE)
AddressMessage(c) == Message(MemoryAddress(c.addr), FALSE, FALSE, FALSE)
ReadMessage(c) == Message([i \in 1 .. c.len |-> 0], TRUE, TRUE, TRUE)

\* What they are made of.
LEMMA CallMessages ==
  ASSUME NEW c, c.addr \in Nat, c.addr < Limit
  PROVE  /\ c.data \in Seq(Byte) =>
              /\ WriteMessage(c) \in Msgs /\ ~WriteMessage(c).read
              /\ WriteMessage(c).buf = MemoryAddress(c.addr) \o c.data
              /\ WriteMessage(c).buf # <<>>
              /\ MessageOps(TargetAddr, WriteMessage(c))
                 = (Opening(TargetAddr, FALSE) \o MessageBody(WriteMessage(c))) \o GenerateStop
         /\ AddressMessage(c) \in Msgs /\ ~AddressMessage(c).read
         /\ AddressMessage(c).buf = MemoryAddress(c.addr) \o <<>>
         /\ AddressMessage(c).buf # <<>>
         /\ MessageOps(TargetAddr, AddressMessage(c))
            = (Opening(TargetAddr, FALSE) \o MessageBody(AddressMessage(c))) \o <<>>
         /\ c.len \in Nat \ {0} =>
              /\ ReadMessage(c) \in Msgs /\ ReadMessage(c).read
              /\ Len(ReadMessage(c).buf) = c.len /\ ReadMessage(c).buf # <<>>
              /\ MessageOps(TargetAddr, ReadMessage(c))
                 = (Opening(TargetAddr, TRUE) \o MessageBody(ReadMessage(c))) \o GenerateStop
<1>1. /\ MemoryAddress(c.addr) \in Seq(Byte) /\ MemoryAddress(c.addr) # <<>>
      /\ Len(MemoryAddress(c.addr)) \in Nat \ {0}
  <2>1. /\ MemoryAddress(c.addr) \in Seq(Byte) /\ MemoryAddress(c.addr) # <<>>
        /\ Len(MemoryAddress(c.addr)) = AddressWidth
    BY AddressBytes
  <2> QED
    BY <2>1, BusAssumption
<1>2. 0 \in Byte
  BY PowerFacts DEF Byte
<1>3. \A m : MessageOps(TargetAddr, m)
             = (Opening(TargetAddr, m.read) \o MessageBody(m))
               \o (IF m.stop THEN GenerateStop ELSE <<>>)
  BY DEF MessageOps, Opening, Active
<1>4. ASSUME c.data \in Seq(Byte)
      PROVE  /\ WriteMessage(c) \in Msgs /\ ~WriteMessage(c).read /\ WriteMessage(c).stop
             /\ WriteMessage(c).buf = MemoryAddress(c.addr) \o c.data
             /\ WriteMessage(c).buf # <<>> /\ WriteMessage(c).read = FALSE
  <2> DEFINE a == MemoryAddress(c.addr)
             b == c.data
             ab == a \o b
  <2>1. a \in Seq(Byte) /\ b \in Seq(Byte) /\ a # <<>>
    BY <1>1, <1>4
  <2> HIDE DEF a, b
  <2>2. ab \in Seq(Byte)
    BY <2>1, ConcatProperties
  <2>3. ab # <<>>
    BY <2>1, ConcatEqualIffEmpty
  <2>4. WriteMessage(c) = [buf |-> ab, read |-> FALSE, stop |-> TRUE, restart |-> FALSE]
    BY DEF WriteMessage, Message, a, b
  <2> HIDE DEF ab
  <2>5. WriteMessage(c) \in Msgs /\ ~WriteMessage(c).read /\ WriteMessage(c).stop
        /\ WriteMessage(c).buf = ab /\ WriteMessage(c).read = FALSE
    BY <2>2, <2>4 DEF Msgs
  <2> QED
    BY <2>3, <2>5 DEF ab, a, b
<1>5. /\ AddressMessage(c) \in Msgs /\ ~AddressMessage(c).read /\ ~AddressMessage(c).stop
      /\ AddressMessage(c).buf = MemoryAddress(c.addr) /\ AddressMessage(c).read = FALSE
  <2> DEFINE a == MemoryAddress(c.addr)
  <2>1. AddressMessage(c) = [buf |-> a, read |-> FALSE, stop |-> FALSE, restart |-> FALSE]
    BY DEF AddressMessage, Message
  <2>2. a \in Seq(Byte)
    BY <1>1
  <2> HIDE DEF a
  <2>3. AddressMessage(c) \in Msgs /\ ~AddressMessage(c).read /\ ~AddressMessage(c).stop
        /\ AddressMessage(c).buf = a /\ AddressMessage(c).read = FALSE
    BY <2>1, <2>2 DEF Msgs
  <2> QED
    BY <2>3 DEF a
<1>6. MemoryAddress(c.addr) = MemoryAddress(c.addr) \o <<>>
  BY <1>1, ConcatEmptySeq
<1>7. ASSUME c.len \in Nat \ {0}
      PROVE  /\ ReadMessage(c) \in Msgs /\ ReadMessage(c).read /\ ReadMessage(c).stop
             /\ Len(ReadMessage(c).buf) = c.len /\ ReadMessage(c).buf # <<>>
             /\ ReadMessage(c).read = TRUE
  <2> DEFINE z == [i \in 1 .. c.len |-> 0]
  <2>1. ReadMessage(c) = [buf |-> z, read |-> TRUE, stop |-> TRUE, restart |-> TRUE]
    BY DEF ReadMessage, Message
  <2>2. z \in Seq(Byte) /\ Len(z) = c.len /\ z # <<>>
    BY <1>2, <1>7
  <2> HIDE DEF z
  <2>3. ReadMessage(c) \in Msgs /\ ReadMessage(c).read /\ ReadMessage(c).stop
        /\ ReadMessage(c).buf = z /\ ReadMessage(c).read = TRUE
    BY <2>1, <2>2 DEF Msgs
  <2> QED
    BY <2>2, <2>3
<1>8. ASSUME c.data \in Seq(Byte)
      PROVE  MessageOps(TargetAddr, WriteMessage(c))
             = (Opening(TargetAddr, FALSE) \o MessageBody(WriteMessage(c))) \o GenerateStop
  BY <1>3, <1>4, <1>8
<1>9. MessageOps(TargetAddr, AddressMessage(c))
      = (Opening(TargetAddr, FALSE) \o MessageBody(AddressMessage(c))) \o <<>>
  BY <1>3, <1>5
<1>10. ASSUME c.len \in Nat \ {0}
       PROVE  MessageOps(TargetAddr, ReadMessage(c))
              = (Opening(TargetAddr, TRUE) \o MessageBody(ReadMessage(c))) \o GenerateStop
  BY <1>3, <1>7, <1>10
<1> QED
  BY <1>1, <1>4, <1>5, <1>6, <1>7, <1>8, <1>9, <1>10

\* A write.
LEMMA WriteProgram ==
  ASSUME NEW c, c.op = "write", c.addr \in Nat, c.addr < Limit, c.data \in Seq(Byte)
  PROVE  CallProgram(c, 0, Messages(TargetAddr, <<WriteMessage(c)>>))
<1> DEFINE x == WriteMessage(c)
           r == OpenRest(FALSE)
           b == MessageBody(x)
           p == r \o (b \o Ending)
           q == p \o Final
<1>1. /\ r \in Seq(Ops) /\ Ending \in Seq(Ops) /\ Final \in Seq(Ops) /\ Lead \in Seq(Ops)
      /\ Opening(TargetAddr, FALSE) = Lead \o r
  BY CallShapes
<1>2. /\ x \in Msgs /\ ~x.read /\ x.buf = MemoryAddress(c.addr) \o c.data /\ x.buf # <<>>
      /\ MessageOps(TargetAddr, x) = (Opening(TargetAddr, FALSE) \o b) \o GenerateStop
  BY CallMessages
<1>3. b \in Seq(Ops)
  <2> HIDE DEF x
  <2> QED
    BY <1>2, BodyLines
<1> HIDE DEF b, r
<1>4. /\ MessageOps(TargetAddr, x) = Lead \o q /\ p \in Seq(Ops) /\ q \in Seq(Ops)
      /\ b \o Ending \in Seq(Ops) /\ q = r \o ((b \o Ending) \o Final)
      /\ (b \o Ending) \o Final \in Seq(Ops)
  <2>1. /\ ((Lead \o r) \o b) \o GenerateStop = Lead \o q
        /\ p \in Seq(Ops) /\ b \o Ending \in Seq(Ops) /\ q \in Seq(Ops)
        /\ q = r \o ((b \o Ending) \o Final) /\ (b \o Ending) \o Final \in Seq(Ops)
    BY <1>1, <1>3, StopShape
  <2> HIDE DEF q, p, x
  <2> QED
    BY <1>1, <1>2, <2>1
<1>5. Messages(TargetAddr, <<x>>) = Lead \o q
  <2> DEFINE ops == MessageOps(TargetAddr, x)
             ss == [k \in 1 .. Len(<<x>>) |-> MessageOps(TargetAddr, <<x>>[k])]
  <2>1. Messages(TargetAddr, <<x>>) = FlattenSeq(ss)
    BY DEF Messages
  <2>2. ss = <<ops>>
    <3>1. Len(<<x>>) = 1 /\ <<x>>[1] = x
      OBVIOUS
    <3>2. \A k \in 1 .. 1 : MessageOps(TargetAddr, <<x>>[k]) = ops
      BY <3>1
    <3>3. ss = [k \in 1 .. 1 |-> ops]
      BY <3>1, <3>2
    <3> HIDE DEF ops, ss
    <3> QED
      BY <3>3
  <2>3. ops = Lead \o q /\ ops \in Seq(Ops)
    <3>1. ops = Lead \o q
      BY <1>4
    <3>2. q \in Seq(Ops)
      BY <1>4
    <3> HIDE DEF q, ops
    <3> QED
      BY <1>1, <3>1, <3>2, ConcatProperties
  <2> HIDE DEF ops, ss, q, x
  <2>4. FlattenSeq(<<ops>>) = ops
    BY <2>3, FlattenTwo
  <2> QED
    BY <2>1, <2>2, <2>3, <2>4
<1>6. Unanswered(q)
  <2> DEFINE rest == (b \o Ending) \o Final
  <2>1. rest \in Seq(Ops) /\ q = r \o rest
    BY <1>4
  <2> HIDE DEF rest, q
  <2>2. Unanswered(r \o rest)
    BY <2>1, DeafOpen DEF r
  <2> QED
    BY <2>1, <2>2
<1>7. Answered(c, 0, q)
  <2>1. ASSUME NEW m \in Memories, NEW words, NEW ptr
        PROVE  Leads(Data(m), Afresh(words, ptr), p, Ends(c, 0, m))
    <3> DEFINE none == <<>>
               a == c.addr % Cells
               d0 == Dev("word", 0, 0, 0, 0, none)
               d == Dev("data", 0, 0, AddressWidth, a, c.data)
               e == Dev("data", 1, 0, AddressWidth, a, c.data)
               s1 == Low(m, 1, d0, none, none)
               s2 == Low(m, 1, d, none, none)
               s3 == Talk(0, 1, 1, 0, e, none, none)
               be == b \o Ending
    <3>1. Ends(c, 0, m) = s3
      BY DEF Ends
    <3>2. "data" \in Ears
      BY DEF Ears
    <3>3. AtEdge(d, 0) = e /\ Out(d, m) = 1
      BY <3>2, EdgeCut
    <3>4. Leads(Data(m), Afresh(words, ptr), r, s1)
      <4>1. Leads(Data(m), Afresh(words, ptr), r, Low(m, 1, d0, <<>>, <<>>))
        BY OpenTalk DEF r
      <4> QED
        BY <4>1
    <3>5. Leads(Data(m), s1, b, s2)
      <4> DEFINE g == <<>>
      <4> HIDE DEF g, x
      <4>1. Leads(Data(m), Low(m, 1, Dev("word", 0, 0, 0, 0, <<>>), <<>>, g), MessageBody(x),
                  Low(m, 1, Dev("data", 0, 0, AddressWidth, c.addr % Cells, c.data), <<>>, g))
        BY <1>2, WriteBodyTalk
      <4> QED
        BY <4>1 DEF g, b
    <3>6. Leads(Data(m), s2, Ending, s3)
      <4> HIDE DEF d, e
      <4>1. Leads(Data(m), Low(m, 1, d, <<>>, none), Ending, Talk(0, 1, 1, 0, e, <<>>, none))
        BY <3>3, EndingTalk
      <4> QED
        BY <4>1
    <3> HIDE DEF s1, s2, s3
    <3>7. Leads(Data(m), s1, be, s3) /\ be \in Seq(Ops)
      BY <1>1, <1>3, <3>5, <3>6, LeadsJoin
    <3> HIDE DEF be
    <3>8. Leads(Data(m), Afresh(words, ptr), r \o be, s3)
      BY <1>1, <3>4, <3>7, LeadsJoin
    <3>9. r \o be = p
      BY DEF be
    <3> QED
      BY <3>1, <3>8, <3>9
  <2>2. p \in Seq(Ops)
    BY <1>4
  <2> HIDE DEF p
  <2> QED
    BY <2>1, <2>2 DEF Answered
<1>8. q \in Seq(Ops)
  BY <1>4
<1> HIDE DEF q, x
<1>9. CallProgram(c, 0, Messages(TargetAddr, <<x>>))
  BY <1>5, <1>6, <1>7, <1>8 DEF CallProgram
<1> QED
  BY <1>9 DEF x

\* Two programs, the second with a STOP.
JoinsTwo(r, a, s) ==
  LET q == (r \o a) \o (Lead \o s)
      rest == a \o ((Lead \o s) \o Final)
  IN /\ ((Lead \o r) \o a) \o (Lead \o (s \o Final)) = Lead \o (q \o Final)
     /\ q \in Seq(Ops) /\ q \o Final \in Seq(Ops) /\ r \o a \in Seq(Ops)
     /\ Lead \o s \in Seq(Ops) /\ rest \in Seq(Ops) /\ q \o Final = r \o rest

\* They make a program, whichever of its parts are joined first.
LEMMA TwoShapes ==
  ASSUME NEW r \in Seq(Ops), NEW a \in Seq(Ops), NEW s \in Seq(Ops)
  PROVE  JoinsTwo(r, a, s)
<1> DEFINE l == Lead
           f == Final
           ra == r \o a
           ls == l \o s
           lsf == ls \o f
           q == ra \o ls
           rest == a \o lsf
<1>1. l \in Seq(Ops) /\ f \in Seq(Ops)
  BY CallShapes
<1> HIDE DEF l, f
<1>2. Joins(l, s, f) /\ Joins(l, r, a)
  BY <1>1, ThreePrograms
<1>3. /\ ls \in Seq(Ops) /\ ls \o f = l \o (s \o f) /\ ls \o f \in Seq(Ops)
      /\ ra \in Seq(Ops) /\ (l \o r) \o a = l \o ra
  BY <1>2 DEF Joins
<1> HIDE DEF ls, ra
<1>4. lsf \in Seq(Ops) /\ lsf = l \o (s \o f)
  BY <1>3
<1>5. Joins(ra, ls, f)
  BY <1>1, <1>3, ThreePrograms
<1>6. q \in Seq(Ops) /\ q \o f = ra \o lsf /\ q \o f \in Seq(Ops)
  BY <1>5 DEF Joins
<1> HIDE DEF lsf, q
<1>7. Joins(l, ra, lsf) /\ Joins(r, a, lsf)
  BY <1>1, <1>3, <1>4, ThreePrograms
<1>8. (l \o ra) \o lsf = l \o (ra \o lsf)
  BY <1>7 DEF Joins
<1>9. rest \in Seq(Ops) /\ ra \o lsf = r \o rest
  BY <1>7 DEF Joins, ra
<1> HIDE DEF rest
<1>10. ((l \o r) \o a) \o lsf = l \o (q \o f)
  BY <1>3, <1>6, <1>8
<1>11. q \o f = r \o rest
  BY <1>6, <1>9
<1>12. ((l \o r) \o a) \o (l \o (s \o f)) = l \o (q \o f)
  BY <1>4, <1>10
<1> QED
  BY <1>3, <1>6, <1>9, <1>11, <1>12 DEF q, rest, ra, ls, lsf, l, f, JoinsTwo

\* A read.
LEMMA ReadProgram ==
  ASSUME NEW c, c.op = "read", c.addr \in Nat, c.addr < Limit, c.len \in Nat \ {0}
  PROVE  CallProgram(c, 0, Messages(TargetAddr, <<AddressMessage(c), ReadMessage(c)>>))
<1> DEFINE x == AddressMessage(c)
           y == ReadMessage(c)
           r == OpenRest(FALSE)
           t == OpenRest(TRUE)
           a == MessageBody(x)
           b == MessageBody(y)
           s == t \o (b \o Ending)
           ls == Lead \o s
           p == (r \o a) \o ls
           q == p \o Final
<1>1. /\ r \in Seq(Ops) /\ t \in Seq(Ops) /\ Ending \in Seq(Ops) /\ Final \in Seq(Ops)
      /\ Lead \in Seq(Ops) /\ Opening(TargetAddr, FALSE) = Lead \o r
      /\ Opening(TargetAddr, TRUE) = Lead \o t
  BY CallShapes
<1>2. /\ x \in Msgs /\ ~x.read /\ x.buf = MemoryAddress(c.addr) \o <<>> /\ x.buf # <<>>
      /\ MessageOps(TargetAddr, x) = (Opening(TargetAddr, FALSE) \o a) \o <<>>
  BY CallMessages
<1>3. /\ y \in Msgs /\ y.read /\ Len(y.buf) = c.len /\ y.buf # <<>>
      /\ MessageOps(TargetAddr, y) = (Opening(TargetAddr, TRUE) \o b) \o GenerateStop
  BY CallMessages
<1>4. a \in Seq(Ops) /\ b \in Seq(Ops)
  <2> HIDE DEF x, y
  <2> QED
    BY <1>2, <1>3, BodyLines
<1> HIDE DEF a, b, r, t
<1>5. /\ ((Lead \o t) \o b) \o GenerateStop = Lead \o (s \o Final)
      /\ s \in Seq(Ops) /\ b \o Ending \in Seq(Ops) /\ s \o Final \in Seq(Ops)
  BY <1>1, <1>4, StopShape
<1>6. Joins(Lead, r, a)
  BY <1>1, <1>4, ThreePrograms
<1>7. (Lead \o r) \o a \in Seq(Ops)
  BY <1>6 DEF Joins
<1> HIDE DEF s
<1> DEFINE rest == a \o (ls \o Final)
<1>8. /\ ((Lead \o r) \o a) \o (Lead \o (s \o Final)) = Lead \o q
      /\ p \in Seq(Ops) /\ q \in Seq(Ops) /\ r \o a \in Seq(Ops) /\ ls \in Seq(Ops)
      /\ rest \in Seq(Ops) /\ q = r \o rest
  <2>1. JoinsTwo(r, a, s)
    BY <1>1, <1>4, <1>5, TwoShapes
  <2> QED
    BY <2>1 DEF JoinsTwo
<1> HIDE DEF ls
<1>9. Messages(TargetAddr, <<x, y>>) = Lead \o q
  <2> DEFINE one == MessageOps(TargetAddr, x)
             two == MessageOps(TargetAddr, y)
             ss == [k \in 1 .. Len(<<x, y>>) |-> MessageOps(TargetAddr, <<x, y>>[k])]
  <2>1. Messages(TargetAddr, <<x, y>>) = FlattenSeq(ss)
    BY DEF Messages
  <2>2. ss = <<one, two>>
    <3>1. Len(<<x, y>>) = 2 /\ <<x, y>>[1] = x /\ <<x, y>>[2] = y
      OBVIOUS
    <3>2. \A k \in 1 .. 2 : MessageOps(TargetAddr, <<x, y>>[k]) = IF k = 1 THEN one ELSE two
      <4>1. \A k \in 1 .. 2 : k = 1 \/ k = 2
        OBVIOUS
      <4> HIDE DEF x, y
      <4> QED
        BY <3>1, <4>1
    <3>3. ss = [k \in 1 .. 2 |-> IF k = 1 THEN one ELSE two]
      BY <3>1, <3>2
    <3> HIDE DEF one, two, ss
    <3> QED
      BY <3>3
  <2>3. one = (Lead \o r) \o a /\ one \in Seq(Ops)
    <3>1. one = ((Lead \o r) \o a) \o <<>>
      BY <1>1, <1>2
    <3> HIDE DEF one
    <3>2. ((Lead \o r) \o a) \o <<>> = (Lead \o r) \o a
      BY <1>7, ConcatEmptySeq
    <3> QED
      BY <1>7, <3>1, <3>2
  <2>4. two = Lead \o (s \o Final) /\ two \in Seq(Ops)
    <3> DEFINE sf == s \o Final
    <3>1. two = Lead \o sf
      BY <1>1, <1>3, <1>5
    <3>2. sf \in Seq(Ops)
      BY <1>5
    <3> HIDE DEF two, sf
    <3>3. Lead \o sf \in Seq(Ops)
      BY <1>1, <3>2, ConcatProperties
    <3> QED
      BY <3>1, <3>3 DEF sf
  <2> HIDE DEF one, two, ss, q, x, y
  <2>5. FlattenSeq(<<one, two>>) = one \o two
    BY <2>3, <2>4, FlattenTwo
  <2> QED
    BY <1>8, <2>1, <2>2, <2>3, <2>4, <2>5
<1>10. Unanswered(q)
  <2>1. rest \in Seq(Ops) /\ q = r \o rest
    BY <1>8
  <2> HIDE DEF rest, q
  <2>2. Unanswered(r \o rest)
    BY <2>1, DeafOpen DEF r
  <2> QED
    BY <2>1, <2>2
<1>11. Answered(c, 0, q)
  <2>1. ASSUME NEW m \in Memories, NEW words, NEW ptr
        PROVE  Leads(Data(m), Afresh(words, ptr), p, Ends(c, 0, m))
    <3> DEFINE none == <<>>
               adr == c.addr % Cells
               g == Contents(m, c.addr, c.len)
               d0 == Dev("word", 0, 0, 0, 0, none)
               d1 == Dev("data", 0, 0, AddressWidth, adr, none)
               d2 == Dev("read", 0, 0, AddressWidth, adr, none)
               d3 == Dev("idle", Width, 0, AddressWidth, (c.addr + c.len - 1) % Cells, none)
               s0 == Afresh(words, ptr)
               s1 == Low(m, 1, d0, none, none)
               s2 == Low(m, 1, d1, none, none)
               s3 == Afresh(AddressWidth, adr)
               s4 == Low(m, 1, d2, none, none)
               s5 == Low(m, 1, d3, none, g)
               s6 == Talk(0, 1, 1, 0, d3, none, g)
               be == b \o Ending
    <3>1. Ends(c, 0, m) = s6
      BY DEF Ends
    <3>2. "data" \in Ears /\ m \in [0 .. Cells - 1 -> Byte]
      BY DEF Ears, Memories
    <3>3. AtEdge(d3, 0) = d3 /\ Out(d3, m) = 1
      BY EdgeIdle
    <3>4. Leads(Data(m), s0, r, s1)
      <4>1. Leads(Data(m), Afresh(words, ptr), r, Low(m, 1, d0, <<>>, <<>>))
        BY OpenTalk DEF r
      <4> QED
        BY <4>1
    <3>5. Leads(Data(m), s1, a, s2)
      <4> DEFINE h == <<>>
                 data == <<>>
      <4>1. data \in Seq(Byte)
        OBVIOUS
      <4>2. x.buf = MemoryAddress(c.addr) \o data
        BY <1>2
      <4> HIDE DEF h, x, data
      <4>3. Leads(Data(m), Low(m, 1, Dev("word", 0, 0, 0, 0, <<>>), <<>>, h), MessageBody(x),
                  Low(m, 1, Dev("data", 0, 0, AddressWidth, c.addr % Cells, data), <<>>, h))
        BY <1>2, <4>1, <4>2, WriteBodyTalk
      <4> QED
        BY <4>3 DEF h, a, data
    <3>6. Leads(Data(m), s2, Lead, s3)
      <4>1. Leads(Data(m), Low(m, 1, d1, <<>>, <<>>), Lead, s3)
        BY <3>2, RestartTalk
      <4> QED
        BY <4>1
    <3>7. Leads(Data(m), s3, t, s4)
      <4>1. Leads(Data(m), s3, t, Low(m, 1, d2, <<>>, <<>>))
        BY OpenTalk DEF t
      <4> QED
        BY <4>1
    <3>8. Leads(Data(m), s4, b, s5)
      <4> DEFINE n == Len(y.buf)
      <4>1. n = c.len
        BY <1>3
      <4>2. ReadView(m, c.addr, n, n) = s5
        <5>1. ~(n < n)
          BY <4>1
        <5>2. Reading(c.addr, n, n) = d3
          BY <4>1, <5>1 DEF Reading
        <5> HIDE DEF d3
        <5> QED
          BY <4>1, <5>2 DEF ReadView
      <4> HIDE DEF y
      <4>3. Leads(Data(m),
                  Low(m, 1, Dev("read", 0, 0, AddressWidth, c.addr % Cells, <<>>), <<>>, <<>>),
                  MessageBody(y), ReadView(m, c.addr, Len(y.buf), Len(y.buf)))
        BY <1>3, <3>2, ReadBodyTalk
      <4> HIDE DEF s5
      <4> QED
        BY <4>2, <4>3 DEF b
    <3>9. Leads(Data(m), s5, Ending, s6)
      <4> HIDE DEF d3, g
      <4>1. Leads(Data(m), Low(m, 1, d3, <<>>, g), Ending, Talk(0, 1, 1, 0, d3, <<>>, g))
        BY <3>3, EndingTalk
      <4> QED
        BY <4>1
    <3> HIDE DEF s0, s1, s2, s3, s4, s5, s6
    <3>10. be \in Seq(Ops) /\ Leads(Data(m), s4, be, s6)
      BY <1>1, <1>4, <3>8, <3>9, LeadsJoin
    <3> HIDE DEF be
    <3>11. Leads(Data(m), s3, t \o be, s6)
      BY <1>1, <3>7, <3>10, LeadsJoin
    <3>12. t \o be = s
      BY DEF s, be
    <3>13. Leads(Data(m), s2, Lead \o s, s6)
      <4>1. Leads(Data(m), s3, s, s6)
        BY <3>11, <3>12
      <4> QED
        BY <1>1, <1>5, <3>6, <4>1, LeadsJoin
    <3>14. Leads(Data(m), s2, ls, s6)
      BY <3>13 DEF ls
    <3> DEFINE ra == r \o a
    <3>15. Leads(Data(m), s0, ra, s2) /\ ra \in Seq(Ops)
      BY <1>1, <1>4, <3>4, <3>5, LeadsJoin
    <3> HIDE DEF ra
    <3>16. Leads(Data(m), s0, ra \o ls, s6)
      BY <1>8, <3>14, <3>15, LeadsJoin
    <3>17. ra \o ls = p
      BY DEF ra
    <3> QED
      BY <3>1, <3>16, <3>17 DEF s0
  <2>2. p \in Seq(Ops)
    BY <1>8
  <2> HIDE DEF p
  <2> QED
    BY <2>1, <2>2 DEF Answered
<1>12. q \in Seq(Ops)
  BY <1>8
<1> HIDE DEF q, x, y
<1>13. CallProgram(c, 0, Messages(TargetAddr, <<x, y>>))
  BY <1>9, <1>10, <1>11, <1>12 DEF CallProgram
<1> QED
  BY <1>13 DEF x, y

-----------------------------------------------------------------------------
(* Calls of eeprom.c on the bus: what master and device know of each other. *)

\* The memory holds the data of a write, ...
Holds(c, m) == \A i \in DOMAIN c.data : m[(c.addr + i - 1) % Cells] = c.data[i]

\* ... or the device is writing them.
Stored ==
  \/ dev.busy /\ dev.page = call.data /\ dev.ptr = call.addr % Cells
  \/ ~dev.busy /\ Holds(call, mem)

\* The START is still to come.
Leaders == {<<"sda1", "scl1", "poll", "free", "start">>, <<"scl1", "poll", "free", "start">>,
            <<"poll", "free", "start">>, <<"free", "start">>, <<"start">>}

Ahead ==
  /\ \E l \in Leaders, q \in Seq(Ops) :
       /\ todo = l \o q /\ Answered(call, attempt, q) /\ Unanswered(q)
       /\ Head(l) \in {"free", "start"} => SCL(bus)
       /\ Head(l) = "start" => SDA(bus)
  /\ in = <<>> /\ got = <<>> /\ bus.msda = 1 /\ bus.mscl = 1
  /\ attempt > 0 => dev.st = "idle" /\ Stored

\* The device was busy at the START: there will be no ACK.
Doomed ==
  /\ dev.st = "idle" /\ (attempt > 0 => Stored)
  /\ \E u : Leads(Deaf, DeafView(bus.msda, in, 0), todo, u) /\ u.missed = 1

\* The device has heard the START and follows.
Heard == IF bus.hold /\ bus.mscl = 1 THEN AtEdge(dev, Level(bus)) ELSE dev
ViewNow(w) == Talk(bus.msda, bus.mscl, bus.dsda, w, Heard, in, got)

Tracking ==
  /\ ~dev.busy /\ (attempt > 0 => Holds(call, mem))
  /\ \E p \in Seq(Ops) : \E w :
       /\ todo = p \o Final /\ Leads(Data(mem), ViewNow(w), p, Ends(call, attempt, mem))
       /\ w = 0 => ~(bus.hold /\ bus.mscl = 1)

\* The STOP has been seen.
Done ==
  IF call.op = "write"
  THEN (attempt = 0 => Stored) /\ (attempt > 0 => ~dev.busy /\ Holds(call, mem))
  ELSE ~dev.busy /\ got = Contents(mem, call.addr, call.len)
Closing == dev.st = "idle" /\ todo \in {<<"idle">>, <<>>} /\ Done

\* Operations of a STOP.
StopOps == {"scl0", "sda0", "scl1", "pollstop", "stop", "idle"}

\* What a call of eeprom.c knows: the stage it is in, and what it has when it fails and
\* when it has returned.
DataInv ==
  call.op \in {"write", "read"} =>
    /\ attempt > 0 => call.op = "write"
    /\ call.op = "write" /\ (rc = "OK" \/ attempt > 0) => WriteResult(call.addr, call.data) = "OK"
    /\ ret = "none" /\ rc = "OK" => Ahead \/ Doomed \/ Tracking \/ Closing
    /\ rc # "OK" => todo \in Seq(StopOps)
    /\ ret = "none" /\ rc = "NACK" /\ attempt > 0 => dev.st = "idle" /\ Stored
    /\ ret = "OK" => Done /\ (call.op = "write" => attempt = 0 /\ ~dev.busy /\ Holds(call, mem))

\* A device that is not busy, by its fields.
LEMMA DevIs ==
  ASSUME BusTypeOK, ~dev.busy
  PROVE  dev = Dev(dev.st, dev.n, dev.sh, dev.words, dev.ptr, dev.page)
<1>1. dev = [st |-> dev.st, n |-> dev.n, sh |-> dev.sh, words |-> dev.words, ptr |-> dev.ptr,
             page |-> dev.page, busy |-> dev.busy]
  BY DEF BusTypeOK
<1>2. dev.busy = NotBusy
  BY DEF BusTypeOK, NotBusy
<1> QED
  BY <1>1, <1>2 DEF Dev

\* What stays of a device.
SameDevice == dev'.busy = dev.busy /\ dev'.page = dev.page /\ dev'.ptr = dev.ptr /\ mem' = mem

\* An idle device is only moved by a START.
LEMMA IdleDrive ==
  ASSUME DeviceInv, dev.st = "idle", NEW b \in Levels, b.dsda = bus.dsda, b.hold = bus.hold,
         Drive(b), ~(SCL(bus) /\ SCL(b) /\ SDA(bus) /\ ~SDA(b))
  PROVE  dev'.st = "idle" /\ SameDevice
<1>1. /\ dev.page # <<>> => dev.busy
      /\ dev \in [st : {"idle", "addr", "word", "data", "read"}, n : 0 .. Width + 1, sh : Byte,
                  words : 0 .. AddressWidth, ptr : 0 .. Cells - 1, page : Seq(Byte), busy : BOOLEAN]
  BY DEF DeviceInv, BusTypeOK
<1>2. CASE StopSeen(b)
  <2>1. dev' = [dev EXCEPT !.st = "idle", !.n = 0, !.busy = @ \/ dev.page # <<>>] /\ mem' = mem
    BY <1>2 DEF StopSeen
  <2>2. (dev.busy \/ dev.page # <<>>) = dev.busy
    BY <1>1
  <2> QED
    BY <1>1, <2>1, <2>2 DEF SameDevice
<1>3. CASE Clocked(b)
  <2>1. dev' = AtEdge(dev, Level(b)) /\ mem' = mem
    BY <1>3, EdgeCases
  <2>2. AtEdge(dev, Level(b)) = dev
    BY DEF AtEdge, Hears
  <2> QED
    BY <2>1, <2>2 DEF SameDevice
<1>4. CASE Shifted(b)
  <2>1. dev' = Fallen(dev) /\ mem' = mem
    BY <1>4, FallCases
  <2> QED
    BY <1>1, <2>1 DEF Fallen, SameDevice
<1>5. CASE UNCHANGED <<dev, mem, stretches>>
  BY <1>5 DEF SameDevice
<1> QED
  BY <1>2, <1>3, <1>4, <1>5 DEF Drive

\* What a step of a call makes of it: the next stage, or the way out of an error.
Follows ==
  \/ rc' = "OK" /\ (Ahead' \/ Doomed' \/ Tracking' \/ Closing')
  \/ /\ rc' # "OK" /\ todo' \in Seq(StopOps)
     /\ rc' = "NACK" /\ attempt > 0 => dev'.st = "idle" /\ Stored'

\* The operation says which step it is.
LEMMA OpSteps ==
  ASSUME LineStep
  PROVE  /\ todo # <<>> /\ Op = Head(todo)
         /\ Op \in {"sda0", "sda1", "scl0", "scl1", "start", "stop"} => WriteControl
         /\ Op \in {"poll", "pollstop"} /\ SCL(bus) => Advance
         /\ Op = "poll" /\ ~SCL(bus) => Fail("TIMEOUT")
         /\ Op = "pollstop" /\ ~SCL(bus) => StopTimeout
         /\ Op = "free" /\ SDA(bus) => Advance
         /\ Op = "free" /\ ~SDA(bus) => Fail("BUSY")
         /\ Op = "idle" => StopChecked
         /\ Op = "sample" => Sample
         /\ Op = "ack" => CheckAck
         /\ Op = "byte" => ByteRead
         /\ Op = "active" => BusActive
<1> DEFINE o == Op
<1>1. todo # <<>> /\ Op = Head(todo)
  BY DEF LineStep, Op, WriteControl, PollSucceeds, PollTimeout, StopTimeout, BusFree, StopChecked,
     Sample, CheckAck, ByteRead, BusActive, Booted, BusRecovered, PulseChecked, Rejected
<1>2. \/ o \in {"sda0", "sda1", "scl0", "scl1", "start", "stop"} /\ WriteControl
      \/ o \in {"poll", "pollstop"} /\ SCL(bus) /\ Advance
      \/ o = "poll" /\ ~SCL(bus) /\ Fail("TIMEOUT")
      \/ o = "pollstop" /\ ~SCL(bus) /\ StopTimeout
      \/ o = "free" /\ SDA(bus) /\ Advance
      \/ o = "free" /\ ~SDA(bus) /\ Fail("BUSY")
      \/ o = "idle" /\ StopChecked
      \/ o = "sample" /\ Sample
      \/ o = "ack" /\ CheckAck
      \/ o = "byte" /\ ByteRead
      \/ o = "active" /\ BusActive
      \/ o \in {"boot", "quit", "break", "reject", "unsupported"}
  <2>1. CASE WriteControl
    BY <2>1 DEF WriteControl
  <2>2. CASE PollSucceeds \/ PollTimeout \/ StopTimeout
    BY <2>2 DEF PollSucceeds, PollTimeout, StopTimeout
  <2>3. CASE BusFree \/ StopChecked
    BY <2>3 DEF BusFree, StopChecked
  <2>4. CASE Sample \/ CheckAck \/ ByteRead \/ BusActive
    BY <2>4 DEF Sample, CheckAck, ByteRead, BusActive
  <2>5. CASE Booted \/ BusRecovered \/ PulseChecked \/ Rejected
    BY <2>5 DEF Booted, BusRecovered, PulseChecked, Rejected
  <2> QED
    BY <2>1, <2>2, <2>3, <2>4, <2>5 DEF LineStep
<1> HIDE DEF o
<1>3. /\ o \in {"sda0", "sda1", "scl0", "scl1", "start", "stop"} => WriteControl
      /\ o \in {"poll", "pollstop"} /\ SCL(bus) => Advance
      /\ o = "poll" /\ ~SCL(bus) => Fail("TIMEOUT")
      /\ o = "pollstop" /\ ~SCL(bus) => StopTimeout
      /\ o = "free" /\ SDA(bus) => Advance
      /\ o = "free" /\ ~SDA(bus) => Fail("BUSY")
      /\ o = "idle" => StopChecked
      /\ o = "sample" => Sample
      /\ o = "ack" => CheckAck
      /\ o = "byte" => ByteRead
      /\ o = "active" => BusActive
  BY <1>2
<1> QED
  BY <1>1, <1>3 DEF o

\* A STOP is made of its operations.
LEMMA StopTypes ==
  GenerateStop \in Seq(StopOps) /\ <<>> \in Seq(StopOps) /\ <<"stop">> \in Seq(StopOps)
<1>1. {"scl0", "sda0", "scl1", "pollstop", "stop", "idle"} \subseteq StopOps
  BY DEF StopOps
<1>2. <<"scl0", "sda0", "scl1", "pollstop", "stop", "idle">> \in Seq(StopOps)
  BY <1>1
<1> QED
  BY <1>1, <1>2, Blocks

\* An error.
LEMMA FailFollows ==
  ASSUME cleanup \in {"return", "stop"}, UNCHANGED boardVars, NEW e, Fail(e),
         e \in {"TIMEOUT", "BUSY", "NACK"},
         e = "NACK" /\ attempt > 0 => dev.st = "idle" /\ Stored
  PROVE  Follows
<1>1. rc' = e /\ todo' \in {GenerateStop, <<>>} /\ UNCHANGED <<busVars, call>>
  BY DEF Fail, boardVars
<1>2. todo' \in Seq(StopOps)
  BY <1>1, StopTypes
<1>3. Stored => Stored'
  BY <1>1 DEF Stored, busVars
<1>4. dev' = dev
  BY <1>1 DEF busVars
<1> QED
  BY <1>1, <1>2, <1>3, <1>4 DEF Follows

\* A STOP that times out, or finds the bus not free.
LEMMA StopFollows ==
  ASSUME rc = "OK", StopTimeout \/ (StopChecked /\ ~Advance)
  PROVE  Follows
<1>1. rc' \in {"TIMEOUT", "BUSY"} /\ todo' \in {<<"stop">>, <<>>}
  BY DEF StopTimeout, StopChecked
<1> QED
  BY <1>1, StopTypes DEF Follows

\* The heads of what comes before the START.
LEMMA LeaderHeads ==
  ASSUME NEW l \in Leaders
  PROVE  /\ l \in Seq(Ops) /\ l # <<>> /\ Head(l) \in {"sda1", "scl1", "poll", "free", "start"}
         /\ Head(l) = "sda1" => Tail(l) \in Leaders /\ Head(Tail(l)) = "scl1"
         /\ Head(l) = "scl1" => Tail(l) \in Leaders /\ Head(Tail(l)) = "poll"
         /\ Head(l) = "poll" => Tail(l) \in Leaders /\ Head(Tail(l)) = "free"
         /\ Head(l) = "free" => Tail(l) \in Leaders /\ Head(Tail(l)) = "start"
         /\ Head(l) = "start" => Tail(l) = <<>>
<1> DEFINE a == <<"sda1", "scl1", "poll", "free", "start">>
           b == <<"scl1", "poll", "free", "start">>
           c == <<"poll", "free", "start">>
           d == <<"free", "start">>
           e == <<"start">>
<1>1. {"sda1", "scl1", "poll", "free", "start"} \subseteq Ops
  BY DEF Ops
<1>2. a \in Seq(Ops) /\ a # <<>> /\ Head(a) = "sda1" /\ Tail(a) = b
  BY <1>1
<1>3. b \in Seq(Ops) /\ b # <<>> /\ Head(b) = "scl1" /\ Tail(b) = c
  BY <1>1
<1>4. c \in Seq(Ops) /\ c # <<>> /\ Head(c) = "poll" /\ Tail(c) = d
  BY <1>1
<1>5. d \in Seq(Ops) /\ d # <<>> /\ Head(d) = "free" /\ Tail(d) = e
  BY <1>1
<1>6. e \in Seq(Ops) /\ e # <<>> /\ Head(e) = "start" /\ Tail(e) = <<>>
  BY <1>1
<1>7. Leaders = {a, b, c, d, e}
  BY DEF Leaders
<1> HIDE DEF a, b, c, d, e
<1>8. l = a \/ l = b \/ l = c \/ l = d \/ l = e
  BY <1>7
<1> QED
  BY <1>2, <1>3, <1>4, <1>5, <1>6, <1>7, <1>8

\* What the operations that write CONTROL do to the lines and to the program.
LEMMA ControlStep ==
  ASSUME DeviceInv, WriteControl
  PROVE  \E b \in Levels :
           /\ Drive(b) /\ b.dsda = bus.dsda /\ b.hold = bus.hold
           /\ bus'.msda = b.msda /\ bus'.mscl = b.mscl
           /\ Op \in {"sda0", "start"} => b.msda = 0 /\ b.mscl = bus.mscl
           /\ Op \in {"sda1", "stop"} => b.msda = 1 /\ b.mscl = bus.mscl
           /\ Op = "scl0" => b.msda = bus.msda /\ b.mscl = 0
           /\ Op = "scl1" => b.msda = bus.msda /\ b.mscl = 1
           /\ todo' = Tail(todo) /\ UNCHANGED <<cleanup, rc, in, got>>
<1> DEFINE o == Op
<1>1. PICK b \in Levels :
           /\ Drive(b) /\ b.dsda = bus.dsda /\ b.hold = bus.hold
           /\ b = CASE o \in {"sda0", "start"} -> [bus EXCEPT !.msda = 0]
                    [] o \in {"sda1", "stop"}  -> [bus EXCEPT !.msda = 1]
                    [] o = "scl0" -> [bus EXCEPT !.mscl = 0]
                    [] o = "scl1" -> [bus EXCEPT !.mscl = 1]
  BY WriteControlLevels
<1>2. bus'.msda = b.msda /\ bus'.mscl = b.mscl
  BY <1>1, DriveLines
<1>3. bus \in Levels /\ todo' = Tail(todo) /\ UNCHANGED <<cleanup, rc, in, got>>
  BY DEF WriteControl, Pop, DeviceInv, BusTypeOK, Levels
<1> HIDE DEF o
<1>4. o \in {"sda0", "start"} => b.msda = 0 /\ b.mscl = bus.mscl
  BY <1>1, <1>3 DEF Levels
<1>5. o \in {"sda1", "stop"} => b.msda = 1 /\ b.mscl = bus.mscl
  BY <1>1, <1>3 DEF Levels
<1>6. o = "scl0" => b.msda = bus.msda /\ b.mscl = 0
  BY <1>1, <1>3 DEF Levels
<1>7. o = "scl1" => b.msda = bus.msda /\ b.mscl = 1
  BY <1>1, <1>3 DEF Levels
<1> QED
  BY <1>1, <1>2, <1>3, <1>4, <1>5, <1>6, <1>7 DEF o

\* Lines driven as they are.
LEMMA DriveSame ==
  ASSUME DeviceInv, NEW b \in Levels, Drive(b), b.msda = bus.msda, b.mscl = bus.mscl,
         b.dsda = bus.dsda, b.hold = bus.hold
  PROVE  bus' = bus /\ dev' = dev /\ mem' = mem
<1>1. bus \in Levels
  BY DEF DeviceInv, BusTypeOK, Levels
<1>2. b = bus
  BY <1>1 DEF Levels
<1> QED
  BY <1>2 DEF Drive, SDA, SCL

\* Before and at the START.
LEMMA AheadStep ==
  ASSUME DeviceInv, DeviceInv', cleanup \in {"return", "stop"}, Ahead, rc = "OK", LineStep,
         UNCHANGED boardVars
  PROVE  Follows
<1>1. PICK l \in Leaders, q \in Seq(Ops) :
        /\ todo = l \o q /\ Answered(call, attempt, q) /\ Unanswered(q)
        /\ Head(l) \in {"free", "start"} => SCL(bus)
        /\ Head(l) = "start" => SDA(bus)
  BY DEF Ahead
<1> DEFINE o == Head(l)
           t == Tail(l)
<1>2. /\ l \in Seq(Ops) /\ l # <<>> /\ o \in {"sda1", "scl1", "poll", "free", "start"}
      /\ o = "sda1" => t \in Leaders /\ Head(t) = "scl1"
      /\ o = "scl1" => t \in Leaders /\ Head(t) = "poll"
      /\ o = "poll" => t \in Leaders /\ Head(t) = "free"
      /\ o = "free" => t \in Leaders /\ Head(t) = "start"
      /\ o = "start" => t = <<>>
  BY LeaderHeads
<1>3. Op = o /\ Tail(todo) = t \o q
  <2>1. Head(l \o q) = Head(l) /\ Tail(l \o q) = Tail(l) \o q
    BY <1>2, ConcatHead
  <2>2. Op = Head(todo)
    BY OpSteps
  <2> QED
    BY <1>1, <2>1, <2>2
<1>4. /\ in = <<>> /\ got = <<>> /\ bus.msda = 1 /\ bus.mscl = 1
      /\ attempt > 0 => dev.st = "idle" /\ Stored
  BY DEF Ahead
<1>5. call' = call /\ attempt' = attempt
  BY DEF boardVars
<1> HIDE DEF o, t
<1>6. ASSUME bus' = bus, dev' = dev, mem' = mem, UNCHANGED <<rc, in, got>>, todo' = t \o q,
             t \in Leaders, Head(t) \in {"free", "start"} => SCL(bus), Head(t) = "start" => SDA(bus)
      PROVE  Follows
  <2>1. Stored => Stored'
    BY <1>5, <1>6 DEF Stored
  <2>2. Ahead'
    <3>1. /\ todo' = t \o q /\ Answered(call', attempt', q) /\ Unanswered(q)
          /\ Head(t) \in {"free", "start"} => SCL(bus')
          /\ Head(t) = "start" => SDA(bus')
      BY <1>1, <1>5, <1>6
    <3>2. in' = <<>> /\ got' = <<>> /\ bus'.msda = 1 /\ bus'.mscl = 1
      BY <1>4, <1>6
    <3>3. attempt' > 0 => dev'.st = "idle" /\ Stored'
      BY <1>4, <1>5, <1>6, <2>1
    <3> QED
      BY <1>6, <3>1, <3>2, <3>3 DEF Ahead
  <2> QED
    BY <1>6, <2>2 DEF Follows
<1>7. CASE o \in {"sda1", "scl1"}
  <2>1. WriteControl
    BY <1>3, <1>7, OpSteps
  <2>2. PICK b \in Levels :
           /\ Drive(b) /\ b.dsda = bus.dsda /\ b.hold = bus.hold
           /\ Op \in {"sda1", "stop"} => b.msda = 1 /\ b.mscl = bus.mscl
           /\ Op = "scl1" => b.msda = bus.msda /\ b.mscl = 1
           /\ todo' = Tail(todo) /\ UNCHANGED <<cleanup, rc, in, got>>
    BY <2>1, ControlStep
  <2>3. b.msda = bus.msda /\ b.mscl = bus.mscl
    BY <1>3, <1>4, <1>7, <2>2
  <2>4. bus' = bus /\ dev' = dev /\ mem' = mem
    BY <2>2, <2>3, DriveSame
  <2> QED
    BY <1>2, <1>3, <1>6, <1>7, <2>2, <2>4
<1>8. ASSUME Advance
      PROVE  /\ bus' = bus /\ dev' = dev /\ mem' = mem /\ UNCHANGED <<rc, in, got>>
             /\ todo' = t \o q
  BY <1>3, <1>8 DEF Advance, Pop, busVars
<1>9. CASE o = "poll"
  <2>1. CASE SCL(bus)
    <3>1. Advance
      BY <1>3, <1>9, <2>1, OpSteps
    <3> QED
      BY <1>2, <1>6, <1>8, <1>9, <2>1, <3>1
  <2>2. CASE ~SCL(bus)
    <3>1. Fail("TIMEOUT")
      BY <1>3, <1>9, <2>2, OpSteps
    <3> QED
      BY <3>1, FailFollows
  <2> QED
    BY <2>1, <2>2
<1>10. CASE o = "free"
  <2>1. CASE SDA(bus)
    <3>1. Advance
      BY <1>3, <1>10, <2>1, OpSteps
    <3>2. SCL(bus)
      BY <1>1, <1>10 DEF o
    <3> QED
      BY <1>2, <1>6, <1>8, <1>10, <2>1, <3>1, <3>2
  <2>2. CASE ~SDA(bus)
    <3>1. Fail("BUSY")
      BY <1>3, <1>10, <2>2, OpSteps
    <3> QED
      BY <3>1, FailFollows
  <2> QED
    BY <2>1, <2>2
<1>11. CASE o = "start"
  <2>1. WriteControl
    BY <1>3, <1>11, OpSteps
  <2>2. PICK b \in Levels :
           /\ Drive(b) /\ b.dsda = bus.dsda /\ b.hold = bus.hold
           /\ bus'.msda = b.msda /\ bus'.mscl = b.mscl
           /\ Op \in {"sda0", "start"} => b.msda = 0 /\ b.mscl = bus.mscl
           /\ todo' = Tail(todo) /\ UNCHANGED <<cleanup, rc, in, got>>
    BY <2>1, ControlStep
  <2>3. b.msda = 0 /\ b.mscl = 1
    BY <1>3, <1>4, <1>11, <2>2
  <2>4. SCL(bus) /\ SDA(bus)
    BY <1>1, <1>11 DEF o
  <2>5. SCL(b) /\ ~SDA(b) /\ b.hold = FALSE
    <3>1. ~bus.hold
      BY <2>4 DEF SCL
    <3> QED
      BY <2>2, <2>3, <3>1 DEF SCL, SDA, Levels
  <2>6. StartSeen(b)
    BY <2>2, <2>4, <2>5 DEF Drive
  <2>7. bus' = [b EXCEPT !.dsda = 1] /\ mem' = mem
    BY <2>6 DEF StartSeen
  <2>8. bus'.msda = 0 /\ bus'.mscl = 1 /\ bus'.dsda = 1 /\ bus'.hold = FALSE
    BY <2>3, <2>5, <2>7 DEF Levels
  <2>9. todo' = q /\ in' = <<>> /\ got' = <<>> /\ rc' = "OK"
    <3>1. t \o q = q
      BY <1>2, <1>11, ConcatEmptySeq
    <3> QED
      BY <1>3, <1>4, <2>2, <3>1
  <2>10. dev' = [dev EXCEPT !.st = IF dev.busy THEN "idle" ELSE "addr", !.n = 0, !.sh = 0,
                            !.page = IF dev.busy THEN @ ELSE <<>>]
    BY <2>6 DEF StartSeen
  <2>11. BusTypeOK
    BY DEF DeviceInv
  <2>12. CASE dev.busy
    <3>1. dev'.st = "idle" /\ SameDevice
      <4>1. dev' = [dev EXCEPT !.st = "idle", !.n = 0, !.sh = 0]
        BY <2>10, <2>11, <2>12 DEF BusTypeOK
      <4> QED
        BY <2>7, <2>11, <4>1 DEF SameDevice, BusTypeOK
    <3>2. Stored => Stored'
      BY <1>5, <3>1 DEF Stored, SameDevice
    <3>3. PICK u : Leads(Deaf, DeafView(0, <<>>, 0), q, u) /\ u.missed = 1
      BY <1>1 DEF Unanswered
    <3>4. Leads(Deaf, DeafView(bus'.msda, in', 0), todo', u)
      BY <2>8, <2>9, <3>3
    <3>5. Doomed'
      BY <1>4, <1>5, <3>1, <3>2, <3>3, <3>4 DEF Doomed
    <3> QED
      BY <2>9, <3>5 DEF Follows
  <2>13. CASE ~dev.busy
    <3> DEFINE w == dev.words
               p == dev.ptr
    <3>1. dev = Dev(dev.st, dev.n, dev.sh, w, p, dev.page)
      BY <2>11, <2>13, DevIs
    <3>2. dev' = Started(dev)
      BY <2>10, <2>13 DEF Started
    <3>3. Started(Dev(dev.st, dev.n, dev.sh, w, p, dev.page)) = Dev("addr", 0, 0, w, p, <<>>)
      BY StartDevs
    <3>4. dev' = Dev("addr", 0, 0, w, p, <<>>)
      BY <3>1, <3>2, <3>3
    <3>5. ~dev'.busy
      <4>1. dev'.busy = NotBusy
        BY <3>4, DevFields
      <4> QED
        BY <4>1 DEF NotBusy
    <3>6. attempt' > 0 => Holds(call', mem')
      BY <1>4, <1>5, <2>7, <2>13 DEF Stored
    <3>7. PICK r \in Seq(Ops) :
            /\ q = r \o Final
            /\ \A m \in Memories : \A words, ptr :
                 Leads(Data(m), Afresh(words, ptr), r, Ends(call, attempt, m))
      BY <1>1 DEF Answered
    <3>8. mem \in Memories
      BY <2>11 DEF BusTypeOK, Memories
    <3>9. ViewNow(0)' = Afresh(w, p)
      <4>1. Heard' = dev'
        BY <2>8 DEF Heard
      <4> QED
        BY <2>8, <2>9, <3>4, <4>1 DEF ViewNow, Afresh
    <3>10. Leads(Data(mem'), ViewNow(0)', r, Ends(call', attempt', mem'))
      <4>1. Leads(Data(mem), Afresh(w, p), r, Ends(call, attempt, mem))
        BY <3>7, <3>8
      <4> QED
        BY <1>5, <2>7, <3>9, <4>1
    <3>11. todo' = r \o Final /\ ~(bus'.hold /\ bus'.mscl = 1)
      BY <2>8, <2>9, <3>7
    <3>12. Tracking'
      BY <3>5, <3>6, <3>10, <3>11 DEF Tracking
    <3> QED
      BY <2>9, <3>12 DEF Follows
  <2> QED
    BY <2>12, <2>13
<1> QED
  BY <1>2, <1>7, <1>9, <1>10, <1>11

\* Lines driven without a START leave an idle device idle.
LEMMA IdleControl ==
  ASSUME DeviceInv, Heading(LineView, todo), dev.st = "idle", WriteControl, Op # "start"
  PROVE  dev'.st = "idle" /\ SameDevice
<1> DEFINE o == Op
           s == LineView
<1>1. todo # <<>> /\ o = Head(todo)
  BY DEF WriteControl, Op
<1>2. PICK t : LineMove(o, s, t)
  BY <1>1, HeadMoves
<1>3. s.msda = bus.msda /\ s.mscl = bus.mscl
  BY DEF LineView, View
<1>4. PICK b \in Levels :
        /\ Drive(b) /\ b.dsda = bus.dsda /\ b.hold = bus.hold
        /\ o \in {"sda0", "start"} => b.msda = 0 /\ b.mscl = bus.mscl
        /\ o \in {"sda1", "stop"} => b.msda = 1 /\ b.mscl = bus.mscl
        /\ o = "scl0" => b.msda = bus.msda /\ b.mscl = 0
        /\ o = "scl1" => b.msda = bus.msda /\ b.mscl = 1
  BY ControlStep
<1>5. o \in {"sda0", "sda1", "scl0", "scl1", "stop"}
  BY DEF WriteControl
<1>6. bus.dsda = 1
  BY DEF DeviceInv
<1> HIDE DEF o, s
<1>7. ~(SCL(bus) /\ SCL(b) /\ SDA(bus) /\ ~SDA(b))
  <2>1. CASE o = "sda0"
    <3>1. bus.mscl = 0
      BY <1>2, <1>3, <2>1 DEF LineMove
    <3> QED
      BY <3>1 DEF SCL
  <2>2. CASE o \in {"sda1", "stop"}
    BY <1>4, <1>6, <2>2 DEF SDA
  <2>3. CASE o \in {"scl0", "scl1"}
    BY <1>4, <2>3 DEF SDA
  <2> QED
    BY <1>5, <2>1, <2>2, <2>3
<1> QED
  BY <1>4, <1>7, IdleDrive

\* A call that is not heard.
LEMMA DoomedStep ==
  ASSUME DeviceInv, DeviceInv', cleanup \in {"return", "stop"}, Heading(LineView, todo),
         Doomed, rc = "OK", LineStep, UNCHANGED boardVars
  PROVE  Follows
<1> DEFINE o == Op
           s == DeafView(bus.msda, in, 0)
<1>1. PICK u : Leads(Deaf, s, todo, u) /\ u.missed = 1
  BY DEF Doomed
<1>2. todo # <<>> /\ o = Head(todo) /\ todo \in Seq(Ops)
  BY OpSteps DEF Heading
<1>3. PICK t : Move(Deaf, o, s, t) /\ Leads(Deaf, t, Tail(todo), u)
  <2> HIDE DEF s
  <2>1. \E t : Move(Deaf, Head(todo), s, t) /\ Leads(Deaf, t, Tail(todo), u)
    BY <1>1, <1>2, LeadsStep
  <2> QED
    BY <1>2, <2>1
<1>4. DeafMove(o, s, t)
  BY <1>3, Kinds
<1>5. s.missed = 0 /\ s.in = in /\ s.msda = bus.msda
  BY DEF DeafView
<1>6. dev.st = "idle" /\ (attempt > 0 => Stored) /\ bus.dsda = 1 /\ bus.msda \in {0, 1}
  BY DEF Doomed, DeviceInv, BusTypeOK
<1>7. call' = call /\ attempt' = attempt
  BY DEF boardVars
<1>8. ASSUME SameDevice
      PROVE  Stored => Stored'
  BY <1>7, <1>8 DEF Stored, SameDevice
<1>9. ASSUME dev'.st = "idle", SameDevice, todo' = Tail(todo), rc' = rc,
             t = DeafView(bus'.msda, in', 0)
      PROVE  Follows
  <2>1. Leads(Deaf, DeafView(bus'.msda, in', 0), todo', u)
    BY <1>3, <1>9
  <2>2. attempt' > 0 => Stored'
    BY <1>6, <1>7, <1>8, <1>9
  <2>3. Doomed'
    BY <1>1, <1>9, <2>1, <2>2 DEF Doomed
  <2> QED
    BY <1>9, <2>3 DEF Follows
<1>10. /\ o \in {"sda0", "sda1", "scl0", "scl1", "poll", "active", "sample", "ack"}
       /\ o = "sda0" => t = DeafView(0, in, 0)
       /\ o = "sda1" => t = DeafView(1, in, 0)
       /\ o \in {"scl0", "scl1", "poll", "active"} => t = s
       /\ o = "sample" => t = DeafView(bus.msda, Append(in, bus.msda), 0)
       /\ o = "ack" => Last(in) = 1
  <2> HIDE DEF o
  <2>1. o \in {"sda0", "sda1", "scl0", "scl1", "poll", "active", "sample", "ack"}
    BY <1>4, <1>5 DEF DeafMove
  <2>2. o \in {"scl0", "scl1", "poll", "active"} => t = s
    <3> HIDE DEF s
    <3> QED
      BY <1>4, <1>5 DEF DeafMove
  <2>3. o = "ack" => Last(in) = 1
    <3> HIDE DEF s
    <3> QED
      BY <1>4, <1>5 DEF DeafMove
  <2>4. /\ o = "sda0" => t = [s EXCEPT !.msda = 0]
        /\ o = "sda1" => t = [s EXCEPT !.msda = 1]
        /\ o = "sample" => t = [s EXCEPT !.in = Append(@, s.msda)]
    <3> HIDE DEF s
    <3> QED
      BY <1>4, <1>5 DEF DeafMove
  <2>5. /\ [s EXCEPT !.msda = 0] = DeafView(0, in, 0)
        /\ [s EXCEPT !.msda = 1] = DeafView(1, in, 0)
    BY DEF DeafView
  <2>6. [s EXCEPT !.in = Append(@, s.msda)] = DeafView(bus.msda, Append(in, bus.msda), 0)
    <3> DEFINE k == Append(s.in, s.msda)
    <3>1. k = Append(in, bus.msda)
      BY <1>5
    <3> HIDE DEF k
    <3>2. [s EXCEPT !.in = k] = DeafView(bus.msda, k, 0)
      BY DEF DeafView
    <3>3. [s EXCEPT !.in = k] = DeafView(bus.msda, Append(in, bus.msda), 0)
      BY <3>1, <3>2
    <3> QED
      BY <3>3 DEF k
  <2> QED
    BY <2>1, <2>2, <2>3, <2>4, <2>5, <2>6
<1> HIDE DEF s
<1>11. CASE o \in {"sda0", "sda1", "scl0", "scl1"}
  <2>1. WriteControl
    BY <1>11, OpSteps
  <2>2. dev'.st = "idle" /\ SameDevice
    BY <1>6, <1>11, <2>1, IdleControl
  <2>3. PICK b \in Levels :
           /\ bus'.msda = b.msda
           /\ Op \in {"sda0", "start"} => b.msda = 0 /\ b.mscl = bus.mscl
           /\ Op \in {"sda1", "stop"} => b.msda = 1 /\ b.mscl = bus.mscl
           /\ Op = "scl0" => b.msda = bus.msda /\ b.mscl = 0
           /\ Op = "scl1" => b.msda = bus.msda /\ b.mscl = 1
           /\ todo' = Tail(todo) /\ UNCHANGED <<cleanup, rc, in, got>>
    BY <2>1, ControlStep
  <2> HIDE DEF o
  <2>4. o = Op
    BY DEF o
  <2>5. in' = in
    BY <2>3
  <2>6. CASE o = "sda0"
    <3>1. bus'.msda = 0 /\ t = DeafView(0, in, 0)
      BY <1>10, <2>3, <2>4, <2>6
    <3> QED
      BY <1>9, <2>2, <2>3, <2>5, <3>1
  <2>7. CASE o = "sda1"
    <3>1. bus'.msda = 1 /\ t = DeafView(1, in, 0)
      BY <1>10, <2>3, <2>4, <2>7
    <3> QED
      BY <1>9, <2>2, <2>3, <2>5, <3>1
  <2>8. CASE o \in {"scl0", "scl1"}
    <3>1. bus'.msda = bus.msda /\ t = s
      BY <1>10, <2>3, <2>4, <2>8
    <3>2. t = DeafView(bus'.msda, in', 0)
      BY <2>5, <3>1 DEF s
    <3> QED
      BY <1>9, <2>2, <2>3, <3>2
  <2> QED
    BY <1>11, <2>6, <2>7, <2>8
<1>12. ASSUME UNCHANGED busVars
       PROVE  bus' = bus /\ dev'.st = "idle" /\ SameDevice
  BY <1>6, <1>12 DEF busVars, SameDevice
<1>13. CASE o \in {"poll", "active"}
  <2>1. t = s
    BY <1>10, <1>13
  <2>2. CASE Advance \/ BusActive
    <3>1. UNCHANGED busVars /\ todo' = Tail(todo) /\ rc' = rc /\ in' = in
      BY <2>2 DEF Advance, BusActive, Pop
    <3>2. t = DeafView(bus'.msda, in', 0)
      BY <1>12, <2>1, <3>1 DEF s
    <3> QED
      BY <1>9, <1>12, <3>1, <3>2
  <2>3. CASE Fail("TIMEOUT")
    BY <2>3, FailFollows
  <2> QED
    BY <1>13, <2>2, <2>3, OpSteps
<1>14. CASE o = "sample"
  <2>1. Sample
    BY <1>14, OpSteps
  <2>2. /\ UNCHANGED busVars /\ todo' = Tail(todo) /\ rc' = rc
        /\ in' = Append(in, IF SDA(bus) THEN 1 ELSE 0)
    BY <2>1 DEF Sample, Pop
  <2>3. (IF SDA(bus) THEN 1 ELSE 0) = bus.msda
    BY <1>6 DEF SDA
  <2>4. t = DeafView(bus'.msda, in', 0)
    BY <1>10, <1>12, <1>14, <2>2, <2>3
  <2> QED
    BY <1>9, <1>12, <2>2, <2>4
<1>15. CASE o = "ack"
  <2>1. CheckAck
    BY <1>15, OpSteps
  <2>2. Fail("NACK")
    BY <1>10, <1>15, <2>1 DEF CheckAck
  <2> QED
    BY <1>6, <2>2, FailFollows
<1> QED
  BY <1>10, <1>11, <1>13, <1>14, <1>15

\* After the STOP.
LEMMA ClosingStep ==
  ASSUME Closing, rc = "OK", LineStep, UNCHANGED boardVars
  PROVE  Follows
<1>1. todo # <<>> /\ Op = Head(todo)
  BY OpSteps
<1>2. todo = <<"idle">>
  BY <1>1 DEF Closing
<1>3. StopChecked
  BY <1>1, <1>2, OpSteps
<1>4. CASE Advance
  <2>1. todo' = <<>> /\ UNCHANGED <<busVars, rc, got, call, attempt>>
    <3>1. todo' = Tail(todo) /\ UNCHANGED <<busVars, rc, got, call, attempt>>
      BY <1>4 DEF Advance, Pop, boardVars
    <3> QED
      BY <1>2, <3>1
  <2>2. Done => Done'
    BY <2>1 DEF Done, Stored, busVars
  <2>3. Closing'
    BY <2>1, <2>2 DEF Closing, busVars
  <2> QED
    BY <2>1, <2>3 DEF Follows
<1> QED
  BY <1>3, <1>4, StopFollows

\* On the way out of an error.
LEMMA RefusedStep ==
  ASSUME DeviceInv, Heading(LineView, todo), todo \in Seq(StopOps), rc # "OK", LineStep,
         UNCHANGED boardVars
  PROVE  /\ rc' = rc /\ todo' \in Seq(StopOps)
         /\ dev.st = "idle" /\ Stored => dev'.st = "idle" /\ Stored'
<1> DEFINE o == Op
<1>1. todo # <<>> /\ o = Head(todo)
  BY OpSteps
<1>2. o \in {"scl0", "sda0", "scl1", "pollstop", "stop", "idle"} /\ Tail(todo) \in Seq(StopOps)
  BY <1>1, HeadTailProperties DEF StopOps
<1>3. call' = call
  BY DEF boardVars
<1>4. ASSUME SameDevice
      PROVE  Stored => Stored'
  BY <1>3, <1>4 DEF Stored, SameDevice
<1>5. CASE o \in {"scl0", "sda0", "scl1", "stop"}
  <2>1. WriteControl /\ Op # "start"
    BY <1>5, OpSteps
  <2>2. todo' = Tail(todo) /\ rc' = rc
    BY <2>1 DEF WriteControl, Pop
  <2>3. dev.st = "idle" => dev'.st = "idle" /\ SameDevice
    BY <2>1, IdleControl
  <2> QED
    BY <1>2, <1>4, <2>2, <2>3
<1>6. ASSUME UNCHANGED busVars
      PROVE  dev.st = "idle" /\ Stored => dev'.st = "idle" /\ Stored'
  BY <1>4, <1>6 DEF busVars, SameDevice
<1>7. CASE o \in {"pollstop", "idle"}
  <2>1. Advance \/ StopTimeout \/ StopChecked
    BY <1>7, OpSteps
  <2>2. UNCHANGED busVars /\ rc' = rc /\ todo' \in {Tail(todo), <<"stop">>, <<>>}
    BY <2>1 DEF Advance, StopTimeout, StopChecked, Pop
  <2> QED
    BY <1>2, <1>6, <2>2, StopTypes
<1> QED
  BY <1>2, <1>5, <1>7

\* An edge leaves a device that is not busy so.
LEMMA EdgeBusy ==
  ASSUME BusTypeOK, ~dev.busy, NEW bit
  PROVE  ~AtEdge(dev, bit).busy /\ ~Fallen(dev).busy /\ ~Started(dev).busy
<1> DEFINE R == [st : {"idle", "addr", "word", "data", "read"}, n : 0 .. Width + 1, sh : Byte,
                 words : 0 .. AddressWidth, ptr : 0 .. Cells - 1, page : Seq(Byte), busy : BOOLEAN]
<1>1. dev \in R
  BY DEF BusTypeOK
<1>2. ~BitHeard(dev, bit).busy
  BY <1>1 DEF BitHeard
<1>3. ~ByteTaken(dev).busy
  BY <1>1 DEF ByteTaken
<1>4. ~AckHeard(dev, bit).busy
  BY <1>1 DEF AckHeard
<1>5. ~AtEdge(dev, bit).busy
  BY <1>1, <1>2, <1>3, <1>4 DEF AtEdge
<1>6. ~Fallen(dev).busy /\ ~Started(dev).busy
  BY <1>1 DEF Fallen, Started
<1> QED
  BY <1>5, <1>6

\* What a step does to the lines and the device of a call that is followed.
LEMMA DriveLow ==
  ASSUME DeviceInv, NEW b \in Levels, Drive(b), b.dsda = bus.dsda, b.hold = bus.hold
  PROVE  /\ ~SCL(bus) /\ ~SCL(b) => bus' = b /\ dev' = dev /\ mem' = mem
         /\ ~SCL(bus) /\ SCL(b) => bus' = b /\ dev' = AtEdge(dev, Level(b)) /\ mem' = mem
         /\ SCL(bus) /\ ~SCL(b) =>
              /\ dev' = Fallen(dev) /\ mem' = mem
              /\ bus'.msda = b.msda /\ bus'.mscl = b.mscl /\ bus'.dsda = Out(dev', mem)
         /\ SCL(bus) /\ SCL(b) /\ SDA(bus) /\ ~SDA(b) =>
              /\ StartSeen(b) /\ mem' = mem
              /\ bus'.msda = b.msda /\ bus'.mscl = b.mscl /\ bus'.dsda = 1 /\ bus'.hold = b.hold
         /\ SCL(bus) /\ SCL(b) /\ ~SDA(bus) /\ SDA(b) =>
              /\ StopSeen(b) /\ mem' = mem
<1>1. ASSUME ~SCL(bus), ~SCL(b)
      PROVE  bus' = b /\ dev' = dev /\ mem' = mem
  BY <1>1 DEF Drive
<1>2. ASSUME ~SCL(bus), SCL(b)
      PROVE  bus' = b /\ dev' = AtEdge(dev, Level(b)) /\ mem' = mem
  <2>1. Clocked(b)
    BY <1>2 DEF Drive
  <2> QED
    BY <2>1, EdgeCases
<1>3. ASSUME SCL(bus), ~SCL(b)
      PROVE  /\ dev' = Fallen(dev) /\ mem' = mem
             /\ bus'.msda = b.msda /\ bus'.mscl = b.mscl /\ bus'.dsda = Out(dev', mem)
  <2>1. Shifted(b)
    BY <1>3 DEF Drive
  <2>2. dev' = Fallen(dev) /\ mem' = mem
    BY <2>1, FallCases
  <2>3. PICK h \in BOOLEAN : bus' = [b EXCEPT !.dsda = Out(dev', mem), !.hold = h]
    BY <2>1, FallCases
  <2> QED
    BY <2>2, <2>3 DEF Levels
<1>4. ASSUME SCL(bus), SCL(b), SDA(bus), ~SDA(b)
      PROVE  /\ StartSeen(b) /\ mem' = mem
             /\ bus'.msda = b.msda /\ bus'.mscl = b.mscl /\ bus'.dsda = 1 /\ bus'.hold = b.hold
  <2>1. StartSeen(b)
    BY <1>4 DEF Drive
  <2>2. bus' = [b EXCEPT !.dsda = 1] /\ mem' = mem
    BY <2>1 DEF StartSeen
  <2> QED
    BY <2>1, <2>2 DEF Levels
<1>5. ASSUME SCL(bus), SCL(b), ~SDA(bus), SDA(b)
      PROVE  StopSeen(b) /\ mem' = mem
  <2>1. StopSeen(b)
    BY <1>5 DEF Drive
  <2> QED
    BY <2>1 DEF StopSeen
<1> QED
  BY <1>1, <1>2, <1>3, <1>4, <1>5

\* A step after which the call is followed still.
LEMMA TrackNext ==
  ASSUME UNCHANGED boardVars, rc' = "OK", attempt > 0 => Holds(call, mem), mem' = mem, ~dev'.busy,
         NEW r \in Seq(Ops), todo' = r \o Final, NEW w,
         Leads(Data(mem), ViewNow(w)', r, Ends(call, attempt, mem)),
         w = 0 => ~(bus'.hold /\ bus'.mscl = 1)
  PROVE  Follows
<1>1. call' = call /\ attempt' = attempt
  BY DEF boardVars
<1>2. Leads(Data(mem'), ViewNow(w)', r, Ends(call', attempt', mem'))
  BY <1>1
<1>3. attempt' > 0 => Holds(call', mem')
  BY <1>1
<1>4. Tracking'
  BY <1>2, <1>3 DEF Tracking
<1> QED
  BY <1>4 DEF Follows

\* What both show, by the fields.
LEMMA ViewNowIs ==
  ASSUME NEW w
  PROVE  /\ bus'.mscl = 0 \/ ~bus'.hold =>
              ViewNow(w)' = Talk(bus'.msda, bus'.mscl, bus'.dsda, w, dev', in', got')
         /\ bus'.mscl = 1 /\ bus'.hold =>
              ViewNow(w)' = Talk(bus'.msda, bus'.mscl, bus'.dsda, w, AtEdge(dev', Level(bus')),
                                 in', got')
         /\ ViewNow(w) = Talk(bus.msda, bus.mscl, bus.dsda, w, Heard, in, got)
         /\ bus.mscl = 0 \/ ~bus.hold => Heard = dev
         /\ bus.mscl = 1 /\ bus.hold => Heard = AtEdge(dev, Level(bus))
<1>1. bus'.mscl = 0 \/ ~bus'.hold => Heard' = dev'
  BY DEF Heard
<1>2. bus'.mscl = 1 /\ bus'.hold => Heard' = AtEdge(dev', Level(bus'))
  BY DEF Heard, Level, SDA
<1>3. bus.mscl = 0 \/ ~bus.hold => Heard = dev
  BY DEF Heard
<1>4. bus.mscl = 1 /\ bus.hold => Heard = AtEdge(dev, Level(bus))
  BY DEF Heard
<1>5. ViewNow(w)' = Talk(bus'.msda, bus'.mscl, bus'.dsda, w, Heard', in', got')
  BY DEF ViewNow
<1>6. ViewNow(w) = Talk(bus.msda, bus.mscl, bus.dsda, w, Heard, in, got)
  BY DEF ViewNow
<1> QED
  BY <1>1, <1>2, <1>3, <1>4, <1>5, <1>6

\* The level of SDA as both hold it.
LEMMA LevelIs ==
  ASSUME NEW b \in Levels
  PROVE  Level(b) = Wired(b.msda, b.dsda)
BY DEF Levels, Level, SDA, Wired

\* The fields of what a call ends with.
LEMMA EndFields ==
  ASSUME NEW c, NEW att, NEW m, NEW w,
         ViewNow(w) = Ends(c, att, m)
  PROVE  /\ bus.msda = 0 /\ bus.mscl = 1 /\ bus.dsda = 1 /\ w = 0
         /\ att > 0 => Heard.page = <<>>
         /\ ~(att > 0) /\ c.op = "write" => Heard.page = c.data /\ Heard.ptr = c.addr % Cells
         /\ ~(att > 0) /\ c.op # "write" => Heard.page = <<>> /\ got = Contents(m, c.addr, c.len)
<1> DEFINE v == ViewNow(w)
<1>1. /\ v.msda = bus.msda /\ v.mscl = bus.mscl /\ v.dsda = bus.dsda /\ v.wait = w
      /\ v.d = Heard /\ v.got = got
  BY ViewNowIs, TalkFields
<1>2. v = Ends(c, att, m)
  OBVIOUS
<1> HIDE DEF v
<1>3. CASE att > 0
  <2> DEFINE d == Dev("word", 1, 0, 0, 0, <<>>)
  <2>1. v = Talk(0, 1, 1, 0, d, <<>>, <<>>)
    BY <1>2, <1>3 DEF Ends
  <2>2. d.page = <<>>
    BY DevFields
  <2> HIDE DEF d
  <2>3. v.msda = 0 /\ v.mscl = 1 /\ v.dsda = 1 /\ v.wait = 0 /\ v.d = d
    BY <2>1 DEF Talk
  <2> QED
    BY <1>1, <1>3, <2>2, <2>3
<1>4. CASE ~(att > 0) /\ c.op = "write"
  <2> DEFINE d == Dev("data", 1, 0, AddressWidth, c.addr % Cells, c.data)
  <2>1. v = Talk(0, 1, 1, 0, d, <<>>, <<>>)
    BY <1>2, <1>4 DEF Ends
  <2>2. d.page = c.data /\ d.ptr = c.addr % Cells
    BY DevFields
  <2> HIDE DEF d
  <2>3. v.msda = 0 /\ v.mscl = 1 /\ v.dsda = 1 /\ v.wait = 0 /\ v.d = d
    BY <2>1 DEF Talk
  <2> QED
    BY <1>1, <1>4, <2>2, <2>3
<1>5. CASE ~(att > 0) /\ c.op # "write"
  <2> DEFINE d == Dev("idle", Width, 0, AddressWidth, (c.addr + c.len - 1) % Cells, <<>>)
             g == Contents(m, c.addr, c.len)
  <2>1. v = Talk(0, 1, 1, 0, d, <<>>, g)
    BY <1>2, <1>5 DEF Ends
  <2>2. d.page = <<>>
    BY DevFields
  <2> HIDE DEF d
  <2>3. v.msda = 0 /\ v.mscl = 1 /\ v.dsda = 1 /\ v.wait = 0 /\ v.d = d /\ v.got = g
    BY <2>1 DEF Talk
  <2> QED
    BY <1>1, <1>5, <2>2, <2>3
<1> QED
  BY <1>3, <1>4, <1>5

\* The STOP that ends a call.
LEMMA TrackStop ==
  ASSUME DeviceInv, Tracking, rc = "OK", LineStep, UNCHANGED boardVars, todo = Final,
         NEW w, ViewNow(w) = Ends(call, attempt, mem), w = 0 => ~(bus.hold /\ bus.mscl = 1),
         attempt \in Nat, attempt > 0 => call.op = "write", call.op = "write" => call.data # <<>>
  PROVE  Follows
<1>1. Op = "stop" /\ Tail(todo) = <<"idle">>
  <2>1. Head(Final) = "stop" /\ Tail(Final) = <<"idle">>
    BY DEF Final
  <2> QED
    BY <2>1, OpSteps
<1>2. WriteControl
  BY <1>1, OpSteps
<1>3. PICK b \in Levels :
        /\ Drive(b) /\ b.dsda = bus.dsda /\ b.hold = bus.hold
        /\ Op \in {"sda1", "stop"} => b.msda = 1 /\ b.mscl = bus.mscl
        /\ todo' = Tail(todo) /\ UNCHANGED <<cleanup, rc, in, got>>
  BY <1>2, ControlStep
<1> DEFINE att == attempt
<1> HIDE DEF att
<1>4. ViewNow(w) = Ends(call, att, mem)
  BY DEF att
<1>5. /\ bus.msda = 0 /\ bus.mscl = 1 /\ bus.dsda = 1 /\ w = 0
      /\ att > 0 => Heard.page = <<>>
      /\ ~(att > 0) /\ call.op = "write" => Heard.page = call.data /\ Heard.ptr = call.addr % Cells
      /\ ~(att > 0) /\ call.op # "write" =>
           Heard.page = <<>> /\ got = Contents(mem, call.addr, call.len)
  BY <1>4, EndFields
<1>6. ~bus.hold /\ Heard = dev
  BY <1>5 DEF Heard
<1>7. SCL(bus) /\ SCL(b) /\ ~SDA(bus) /\ SDA(b)
  BY <1>1, <1>3, <1>5, <1>6 DEF SCL, SDA
<1>8. StopSeen(b) /\ mem' = mem
  BY <1>3, <1>7, DriveLow
<1>9. ~dev.busy /\ (attempt > 0 => Holds(call, mem))
  BY DEF Tracking
<1>10. dev' = [dev EXCEPT !.st = "idle", !.n = 0, !.busy = dev.busy \/ dev.page # <<>>]
  BY <1>8 DEF StopSeen
<1>11. dev'.st = "idle" /\ dev'.page = dev.page /\ dev'.ptr = dev.ptr
       /\ (dev'.busy <=> dev.page # <<>>)
  <2> DEFINE x == (dev.busy \/ dev.page # <<>>)
  <2>1. dev' = [dev EXCEPT !.st = "idle", !.n = 0, !.busy = x] /\ BusTypeOK
    BY <1>10 DEF DeviceInv
  <2>2. x <=> dev.page # <<>>
    BY <1>9
  <2> HIDE DEF x
  <2> QED
    BY <2>1, <2>2 DEF BusTypeOK
<1>12. todo' = <<"idle">> /\ rc' = "OK" /\ got' = got /\ call' = call /\ attempt' = attempt
  BY <1>1, <1>3 DEF boardVars
<1>13. Done'
  <2>1. CASE attempt > 0
    <3>1. ~dev'.busy /\ Holds(call', mem') /\ call'.op = "write"
      BY <1>5, <1>6, <1>8, <1>9, <1>11, <1>12, <2>1 DEF att
    <3>2. ~(attempt' = 0)
      BY <1>12, <2>1
    <3> QED
      BY <3>1, <3>2 DEF Done
  <2>2. CASE ~(attempt > 0) /\ call.op = "write"
    <3>1. dev'.busy /\ dev'.page = call'.data /\ dev'.ptr = call'.addr % Cells
      BY <1>5, <1>6, <1>11, <1>12, <2>2 DEF att
    <3>2. Stored'
      BY <3>1 DEF Stored
    <3> QED
      BY <1>12, <2>2, <3>2 DEF Done
  <2>3. CASE ~(attempt > 0) /\ call.op # "write"
    <3>1. ~dev'.busy /\ got' = Contents(mem', call'.addr, call'.len)
      BY <1>5, <1>6, <1>8, <1>11, <1>12, <2>3 DEF att
    <3> QED
      BY <1>12, <2>3, <3>1 DEF Done
  <2> QED
    BY <2>1, <2>2, <2>3
<1>14. Closing'
  BY <1>11, <1>12, <1>13 DEF Closing
<1> QED
  BY <1>12, <1>14 DEF Follows

\* What a view asks of the lines.
LEMMA DataMoves ==
  ASSUME NEW m, NEW o, NEW a, NEW b, NEW x, NEW w, NEW d, NEW i, NEW g, NEW t,
         Move(Data(m), o, Talk(a, b, x, w, d, i, g), t)
  PROVE  /\ o \in {"sda0", "sda1", "scl0", "scl1", "poll", "pollstop", "free", "active", "start",
                   "sample", "ack", "byte"}
         /\ o = "sda0" => b = 0 /\ t = Talk(0, 0, x, w, d, i, g)
         /\ o = "sda1" => b = 0 /\ t = Talk(1, 0, x, w, d, i, g)
         /\ o = "scl1" => b = 0 /\ t = Talk(a, 1, x, 1, AtEdge(d, Wired(a, x)), i, g)
         /\ o = "scl0" =>
              \/ b = 0 /\ t = Talk(a, b, x, w, d, i, g)
              \/ b = 1 /\ w = 0 /\ t = Talk(a, 0, Out(Fallen(d), m), 0, Fallen(d), i, g)
         /\ o \in {"poll", "pollstop"} => t = Talk(a, b, x, 0, d, i, g)
         /\ o \in {"free", "active"} => t = Talk(a, b, x, w, d, i, g)
         /\ o = "start" =>
              a = 1 /\ b = 1 /\ x = 1 /\ w = 0 /\ t = Talk(0, 1, 1, 0, Started(d), i, g)
         /\ o = "sample" =>
              b = 1 /\ w = 0 /\ t = Talk(a, 1, x, 0, d, Append(i, Wired(a, x)), g)
         /\ o = "ack" => Last(i) = 0 /\ t = Talk(a, b, x, w, d, <<>>, g)
         /\ o = "byte" => t = Talk(a, b, x, w, d, <<>>, Append(g, Received(i)))
<1> DEFINE s == Talk(a, b, x, w, d, i, g)
<1>1. /\ s.msda = a /\ s.mscl = b /\ s.dsda = x /\ s.wait = w /\ s.d = d /\ s.in = i
      /\ s.got = g /\ Both(s) = Wired(a, x)
  BY TalkFields
<1>2. DataMove(m, o, s, t)
  <2>1. Move(Data(m), o, s, t)
    OBVIOUS
  <2> HIDE DEF s
  <2> QED
    BY <2>1, Kinds
<1> HIDE DEF s
<1>3. o \in {"sda0", "sda1", "scl0", "scl1", "poll", "pollstop", "free", "active", "start",
             "sample", "ack", "byte"}
  BY <1>2 DEF DataMove
<1>4. /\ o = "sda0" => b = 0 /\ t = Talk(0, 0, x, w, d, i, g)
      /\ o = "sda1" => b = 0 /\ t = Talk(1, 0, x, w, d, i, g)
      /\ o = "scl1" => b = 0 /\ t = Talk(a, 1, x, 1, AtEdge(d, Wired(a, x)), i, g)
  BY <1>1, <1>2 DEF DataMove
<1>5. o = "scl0" =>
        \/ b = 0 /\ t = s
        \/ b = 1 /\ w = 0 /\ t = Talk(a, 0, Out(Fallen(d), m), 0, Fallen(d), i, g)
  BY <1>1, <1>2 DEF DataMove
<1>6. /\ o \in {"poll", "pollstop"} => t = Talk(a, b, x, 0, d, i, g)
      /\ o \in {"free", "active"} => t = s
  BY <1>1, <1>2 DEF DataMove
<1>7. o = "start" => a = 1 /\ b = 1 /\ x = 1 /\ w = 0 /\ t = Talk(0, 1, 1, 0, Started(d), i, g)
  BY <1>1, <1>2 DEF DataMove
<1>8. o = "sample" => b = 1 /\ w = 0 /\ t = Talk(a, 1, x, 0, d, Append(i, Wired(a, x)), g)
  BY <1>1, <1>2 DEF DataMove
<1>9. /\ o = "ack" => Last(i) = 0 /\ t = Talk(a, b, x, w, d, <<>>, g)
      /\ o = "byte" => t = Talk(a, b, x, w, d, <<>>, Append(g, Received(i)))
  BY <1>1, <1>2 DEF DataMove
<1> QED
  BY <1>3, <1>4, <1>5, <1>6, <1>7, <1>8, <1>9 DEF s

\* One operation of a call that is followed.
LEMMA TrackOp ==
  ASSUME DeviceInv, cleanup \in {"return", "stop"}, Tracking, rc = "OK", LineStep,
         UNCHANGED boardVars,
         NEW r \in Seq(Ops), Tail(todo) = r \o Final, NEW w, NEW t,
         Move(Data(mem), Op, ViewNow(w), t), Leads(Data(mem), t, r, Ends(call, attempt, mem)),
         w = 0 => ~(bus.hold /\ bus.mscl = 1)
  PROVE  Follows
<1> DEFINE o == Op
           a == bus.msda
           b == bus.mscl
           x == bus.dsda
           d == Heard
<1>1. Move(Data(mem), o, Talk(a, b, x, w, d, in, got), t)
  BY DEF ViewNow
<1>2. /\ o \in {"sda0", "sda1", "scl0", "scl1", "poll", "pollstop", "free", "active", "start",
                "sample", "ack", "byte"}
      /\ o = "sda0" => b = 0 /\ t = Talk(0, 0, x, w, d, in, got)
      /\ o = "sda1" => b = 0 /\ t = Talk(1, 0, x, w, d, in, got)
      /\ o = "scl1" => b = 0 /\ t = Talk(a, 1, x, 1, AtEdge(d, Wired(a, x)), in, got)
      /\ o = "scl0" =>
           \/ b = 0 /\ t = Talk(a, b, x, w, d, in, got)
           \/ b = 1 /\ w = 0 /\ t = Talk(a, 0, Out(Fallen(d), mem), 0, Fallen(d), in, got)
      /\ o \in {"poll", "pollstop"} => t = Talk(a, b, x, 0, d, in, got)
      /\ o \in {"free", "active"} => t = Talk(a, b, x, w, d, in, got)
      /\ o = "start" =>
           a = 1 /\ b = 1 /\ x = 1 /\ w = 0 /\ t = Talk(0, 1, 1, 0, Started(d), in, got)
      /\ o = "sample" =>
           b = 1 /\ w = 0 /\ t = Talk(a, 1, x, 0, d, Append(in, Wired(a, x)), got)
      /\ o = "ack" => Last(in) = 0 /\ t = Talk(a, b, x, w, d, <<>>, got)
      /\ o = "byte" => t = Talk(a, b, x, w, d, <<>>, Append(got, Received(in)))
  <2> HIDE DEF o, a, b, x, d
  <2> QED
    BY <1>1, DataMoves
<1>3. /\ bus \in Levels /\ BusTypeOK /\ ~dev.busy /\ (attempt > 0 => Holds(call, mem))
  BY DEF DeviceInv, BusTypeOK, Levels, Tracking
<1>4. b = 0 \/ ~bus.hold => d = dev
  BY DEF Heard
<1>5. ASSUME rc' = "OK", mem' = mem, ~dev'.busy, todo' = r \o Final,
             NEW v, t = ViewNow(v)', v = 0 => ~(bus'.hold /\ bus'.mscl = 1)
      PROVE  Follows
  <2>1. Leads(Data(mem), ViewNow(v)', r, Ends(call, attempt, mem))
    BY <1>5
  <2> QED
    BY <1>3, <1>5, <2>1, TrackNext
<1>6. ASSUME UNCHANGED busVars, rc' = "OK", todo' = r \o Final,
             NEW v, t = Talk(a, b, x, v, d, in', got'), v = 0 => ~(bus.hold /\ bus.mscl = 1)
      PROVE  Follows
  <2>1. Heard' = Heard /\ bus' = bus /\ mem' = mem /\ dev' = dev
    BY <1>6 DEF Heard, Level, SDA, busVars
  <2>2. ViewNow(v)' = Talk(bus'.msda, bus'.mscl, bus'.dsda, v, Heard', in', got')
    BY DEF ViewNow
  <2>3. t = ViewNow(v)'
    BY <1>6, <2>1, <2>2
  <2>4. ~dev'.busy
    BY <1>3, <2>1
  <2> QED
    BY <1>5, <1>6, <2>1, <2>3, <2>4
<1>7. CASE o \in {"sda0", "sda1", "scl0", "scl1", "start"}
  <2>1. WriteControl
    BY <1>7, OpSteps
  <2>2. PICK e \in Levels :
           /\ Drive(e) /\ e.dsda = x /\ e.hold = bus.hold
           /\ Op \in {"sda0", "start"} => e.msda = 0 /\ e.mscl = b
           /\ Op \in {"sda1", "stop"} => e.msda = 1 /\ e.mscl = b
           /\ Op = "scl0" => e.msda = a /\ e.mscl = 0
           /\ Op = "scl1" => e.msda = a /\ e.mscl = 1
           /\ todo' = Tail(todo) /\ UNCHANGED <<cleanup, rc, in, got>>
    BY <2>1, ControlStep
  <2>3. todo' = r \o Final /\ rc' = "OK" /\ in' = in /\ got' = got
    BY <2>2
  <2>4. /\ ~SCL(bus) /\ ~SCL(e) => bus' = e /\ dev' = dev /\ mem' = mem
        /\ ~SCL(bus) /\ SCL(e) => bus' = e /\ dev' = AtEdge(dev, Level(e)) /\ mem' = mem
        /\ SCL(bus) /\ ~SCL(e) =>
             /\ dev' = Fallen(dev) /\ mem' = mem
             /\ bus'.msda = e.msda /\ bus'.mscl = e.mscl /\ bus'.dsda = Out(dev', mem)
        /\ SCL(bus) /\ SCL(e) /\ SDA(bus) /\ ~SDA(e) =>
             /\ StartSeen(e) /\ mem' = mem
             /\ bus'.msda = e.msda /\ bus'.mscl = e.mscl /\ bus'.dsda = 1 /\ bus'.hold = e.hold
    BY <2>2, DriveLow
  <2>5. ~AtEdge(dev, Level(e)).busy /\ ~Fallen(dev).busy /\ ~Started(dev).busy
    BY <1>3, EdgeBusy
  <2>6. CASE o \in {"sda0", "sda1"} \/ (o = "scl0" /\ b = 0)
    <3>1. b = 0 /\ e.mscl = 0 /\ t = Talk(e.msda, 0, x, w, d, in, got)
      BY <1>2, <2>2, <2>6
    <3>2. ~SCL(bus) /\ ~SCL(e)
      BY <3>1 DEF SCL
    <3>3. bus' = e /\ dev' = dev /\ mem' = mem
      BY <2>4, <3>2
    <3>4. ViewNow(w)' = Talk(e.msda, 0, x, w, dev, in, got)
      BY <2>2, <2>3, <3>1, <3>3, ViewNowIs
    <3>5. t = ViewNow(w)' /\ ~(bus'.hold /\ bus'.mscl = 1) /\ ~dev'.busy
      BY <1>3, <1>4, <3>1, <3>3, <3>4
    <3> QED
      BY <1>5, <2>3, <3>3, <3>5
  <2>7. CASE o = "scl1"
    <3>1. /\ b = 0 /\ e.mscl = 1 /\ e.msda = a /\ e.dsda = x /\ d = dev
          /\ t = Talk(a, 1, x, 1, AtEdge(dev, Wired(a, x)), in, got)
      BY <1>2, <1>4, <2>2, <2>7
    <3>2. Level(e) = Wired(a, x)
      BY <3>1, LevelIs
    <3>3. ~SCL(bus)
      BY <3>1 DEF SCL
    <3>4. CASE e.hold
      <4>1. ~SCL(e)
        BY <3>4 DEF SCL
      <4>2. bus' = e /\ dev' = dev /\ mem' = mem
        BY <2>4, <3>3, <4>1
      <4>3. ViewNow(1)' = Talk(a, 1, x, 1, AtEdge(dev, Level(e)), in, got)
        BY <2>3, <3>1, <3>4, <4>2, ViewNowIs
      <4>4. t = ViewNow(1)' /\ ~dev'.busy
        BY <1>3, <3>1, <3>2, <4>2, <4>3
      <4> QED
        BY <1>5, <2>3, <4>2, <4>4
    <3>5. CASE ~e.hold
      <4>1. SCL(e)
        BY <3>1, <3>5 DEF SCL
      <4>2. bus' = e /\ dev' = AtEdge(dev, Level(e)) /\ mem' = mem
        BY <2>4, <3>3, <4>1
      <4>3. ViewNow(1)' = Talk(a, 1, x, 1, AtEdge(dev, Level(e)), in, got)
        BY <2>3, <3>1, <3>5, <4>2, ViewNowIs
      <4>4. t = ViewNow(1)' /\ ~dev'.busy
        BY <2>5, <3>1, <3>2, <4>2, <4>3
      <4> QED
        BY <1>5, <2>3, <4>2, <4>4
    <3> QED
      BY <3>4, <3>5
  <2>8. CASE o = "scl0" /\ b # 0
    <3>1. /\ b = 1 /\ w = 0 /\ e.mscl = 0 /\ e.msda = a
          /\ t = Talk(a, 0, Out(Fallen(d), mem), 0, Fallen(d), in, got)
      BY <1>2, <2>2, <2>8
    <3>2. ~bus.hold
      BY <3>1
    <3>3. SCL(bus) /\ ~SCL(e) /\ d = dev
      BY <1>4, <3>1, <3>2 DEF SCL
    <3>4. /\ dev' = Fallen(dev) /\ mem' = mem
          /\ bus'.msda = a /\ bus'.mscl = 0 /\ bus'.dsda = Out(dev', mem)
      BY <2>4, <3>1, <3>3
    <3>5. ViewNow(0)' = Talk(a, 0, Out(Fallen(dev), mem), 0, Fallen(dev), in, got)
      BY <2>3, <3>4, ViewNowIs
    <3>6. t = ViewNow(0)' /\ ~dev'.busy /\ ~(bus'.hold /\ bus'.mscl = 1)
      BY <2>5, <3>1, <3>3, <3>4, <3>5
    <3> QED
      BY <1>5, <2>3, <3>4, <3>6
  <2>9. CASE o = "start"
    <3>1. /\ a = 1 /\ b = 1 /\ x = 1 /\ w = 0 /\ e.msda = 0 /\ e.mscl = 1
          /\ t = Talk(0, 1, 1, 0, Started(d), in, got)
      BY <1>2, <2>2, <2>9
    <3>2. ~bus.hold /\ ~e.hold
      BY <2>2, <3>1
    <3>3. SCL(bus) /\ SCL(e) /\ SDA(bus) /\ ~SDA(e) /\ d = dev
      BY <1>4, <3>1, <3>2 DEF SCL, SDA
    <3>4. /\ StartSeen(e) /\ mem' = mem
          /\ bus'.msda = 0 /\ bus'.mscl = 1 /\ bus'.dsda = 1 /\ ~bus'.hold
      BY <2>4, <3>1, <3>2, <3>3
    <3>5. dev' = Started(dev)
      BY <1>3, <3>4 DEF StartSeen, Started
    <3>6. ViewNow(0)' = Talk(0, 1, 1, 0, Started(dev), in, got)
      BY <2>3, <3>4, <3>5, ViewNowIs
    <3>7. t = ViewNow(0)' /\ ~dev'.busy
      BY <2>5, <3>1, <3>3, <3>5, <3>6
    <3> QED
      BY <1>5, <2>3, <3>4, <3>7
  <2> QED
    BY <1>7, <2>6, <2>7, <2>8, <2>9
<1>8. Advance => UNCHANGED busVars /\ rc' = "OK" /\ todo' = r \o Final /\ in' = in /\ got' = got
  BY DEF Advance, Pop
<1>9. CASE o \in {"poll", "pollstop"}
  <2>1. CASE SCL(bus)
    <3>1. Advance
      BY <1>9, <2>1, OpSteps
    <3>2. t = Talk(a, b, x, 0, d, in', got')
      BY <1>2, <1>8, <1>9, <3>1
    <3>3. ~(bus.hold /\ bus.mscl = 1)
      BY <2>1 DEF SCL
    <3> QED
      BY <1>6, <1>8, <3>1, <3>2, <3>3
  <2>2. CASE ~SCL(bus)
    <3>1. Fail("TIMEOUT") \/ StopTimeout
      BY <1>9, <2>2, OpSteps
    <3> QED
      BY <3>1, FailFollows, StopFollows
  <2> QED
    BY <2>1, <2>2
<1>10. CASE o \in {"free", "active"}
  <2>1. CASE Advance \/ BusActive
    <3>1. UNCHANGED busVars /\ rc' = "OK" /\ todo' = r \o Final /\ in' = in /\ got' = got
      BY <1>8, <2>1 DEF BusActive, Pop
    <3>2. t = Talk(a, b, x, w, d, in', got')
      BY <1>2, <1>10, <3>1
    <3> QED
      BY <1>6, <3>1, <3>2
  <2>2. CASE Fail("BUSY")
    BY <2>2, FailFollows
  <2> QED
    BY <1>10, <2>1, <2>2, OpSteps
<1>11. CASE o = "sample"
  <2>1. Sample
    BY <1>11, OpSteps
  <2>2. /\ UNCHANGED busVars /\ todo' = r \o Final /\ rc' = "OK" /\ got' = got
        /\ in' = Append(in, IF SDA(bus) THEN 1 ELSE 0)
    BY <2>1 DEF Sample, Pop
  <2>3. Wired(a, x) = IF SDA(bus) THEN 1 ELSE 0
    BY DEF SDA, Wired
  <2>4. b = 1 /\ w = 0 /\ t = Talk(a, b, x, 0, d, in', got')
    BY <1>2, <1>11, <2>2, <2>3
  <2> QED
    BY <1>6, <2>2, <2>4
<1>12. CASE o = "ack"
  <2>1. CheckAck /\ Last(in) = 0
    BY <1>2, <1>12, OpSteps
  <2>2. UNCHANGED busVars /\ todo' = r \o Final /\ rc' = "OK" /\ got' = got /\ in' = <<>>
    BY <2>1 DEF CheckAck, Pop
  <2>3. t = Talk(a, b, x, w, d, in', got')
    BY <1>2, <1>12, <2>2
  <2> QED
    BY <1>6, <2>2, <2>3
<1>13. CASE o = "byte"
  <2>1. ByteRead
    BY <1>13, OpSteps
  <2>2. /\ UNCHANGED busVars /\ todo' = r \o Final /\ rc' = "OK" /\ in' = <<>>
        /\ got' = Append(got, Received(in))
    BY <2>1 DEF ByteRead, Pop
  <2>3. t = Talk(a, b, x, w, d, in', got')
    BY <1>2, <1>13, <2>2
  <2> QED
    BY <1>6, <2>2, <2>3
<1> QED
  BY <1>2, <1>7, <1>9, <1>10, <1>11, <1>12, <1>13

\* A call that is followed, to its STOP.
LEMMA TrackingStep ==
  ASSUME DeviceInv, cleanup \in {"return", "stop"}, Tracking, rc = "OK", LineStep,
         UNCHANGED boardVars, attempt \in Nat, attempt > 0 => call.op = "write",
         call.op = "write" => call.data # <<>>
  PROVE  Follows
<1>0. PICK p \in Seq(Ops) : \E w :
        /\ todo = p \o Final /\ Leads(Data(mem), ViewNow(w), p, Ends(call, attempt, mem))
        /\ w = 0 => ~(bus.hold /\ bus.mscl = 1)
  BY DEF Tracking
<1>1. PICK w :
        /\ todo = p \o Final /\ Leads(Data(mem), ViewNow(w), p, Ends(call, attempt, mem))
        /\ w = 0 => ~(bus.hold /\ bus.mscl = 1)
  BY <1>0
<1> DEFINE s == ViewNow(w)
           u == Ends(call, attempt, mem)
           k == Data(mem)
<1> HIDE DEF s, u, k
<1>2. Leads(k, s, p, u)
  BY <1>1 DEF k, s, u
<1>3. CASE p = <<>>
  <2>1. s = u
    BY <1>2, <1>3, LeadsNone
  <2>2. todo = Final
    <3>1. Final \in Seq(Ops)
      BY CallShapes
    <3> QED
      BY <1>1, <1>3, <3>1, ConcatEmptySeq
  <2>3. ViewNow(w) = Ends(call, attempt, mem)
    BY <2>1 DEF s, u
  <2> QED
    BY <1>1, <2>2, <2>3, TrackStop
<1>4. CASE p # <<>>
  <2>1. Op = Head(p) /\ Tail(todo) = Tail(p) \o Final /\ Tail(p) \in Seq(Ops)
    <3>1. Final \in Seq(Ops)
      BY CallShapes
    <3>2. Head(p \o Final) = Head(p) /\ Tail(p \o Final) = Tail(p) \o Final /\ Tail(p) \in Seq(Ops)
      BY <1>4, <3>1, ConcatHead
    <3> QED
      BY <1>1, <3>2, OpSteps
  <2>2. PICK t : Move(k, Head(p), s, t) /\ Leads(k, t, Tail(p), u)
    BY <1>2, <1>4, LeadsStep
  <2>3. /\ Move(Data(mem), Op, ViewNow(w), t)
        /\ Leads(Data(mem), t, Tail(p), Ends(call, attempt, mem))
    BY <2>1, <2>2 DEF k, s, u
  <2> QED
    BY <1>1, <2>1, <2>3, TrackOp
<1> QED
  BY <1>3, <1>4

-----------------------------------------------------------------------------
(* What the device does meanwhile. *)

\* Byte j of a write that begins at an address: where it is in a memory of c cells, when it
\* is on the page of p cells with the first one.
OnPage(p, c, addr, j) ==
  LET a == addr % c IN
  /\ (addr + j) % c = a + j /\ a + j \in 0 .. c - 1
  /\ (a + j) \div p = a \div p /\ ((a + j) - a) % p = j

\* A write that does not leave its page does not roll over.
LEMMA PageCells ==
  ASSUME NEW p \in Nat \ {0}, NEW c \in Nat \ {0}, c % p = 0, NEW addr \in Nat, NEW j \in Nat,
         j < p - (addr % p)
  PROVE  OnPage(p, c, addr, j)
<1> DEFINE x == addr \div c
           a == addr % c
           k == c \div p
           q == a \div p
           r == a % p
<1>1. x \in Nat /\ a \in 0 .. c - 1 /\ addr = c * x + a
  <2>1. addr = c * x + a
    OBVIOUS
  <2> QED
    BY <2>1, Division
<1>2. k \in Nat /\ c = p * k
  <2>1. c = p * k + (c % p)
    OBVIOUS
  <2> DEFINE z == p * k
  <2>2. c % p = 0 /\ k \in Nat
    BY Division
  <2>3. z \in Nat
    BY <2>2
  <2> HIDE DEF z
  <2>4. c = z + 0
    BY <2>1, <2>2 DEF z
  <2> QED
    BY <2>2, <2>3, <2>4 DEF z
<1> HIDE DEF x, a, k
<1>3. q \in Nat /\ r \in 0 .. p - 1 /\ a = p * q + r
  <2>1. a \in Nat
    BY <1>1
  <2>2. a = p * q + r
    BY <2>1
  <2> QED
    BY <2>1, <2>2, Division
<1> HIDE DEF q, r
<1>4. addr % p = r
  <2> DEFINE n == k * x + q
  <2>1. n \in Nat
    BY <1>1, <1>2, <1>3
  <2>2. addr = n * p + r
    <3>1. c * x = (k * x) * p
      BY <1>1, <1>2
    <3>2. p * q = q * p /\ k * x \in Nat
      BY <1>1, <1>2, <1>3
    <3> DEFINE y == k * x
    <3>3. n * p = y * p + q * p
      <4> HIDE DEF y
      <4>1. (y + q) * p = y * p + q * p
        BY <1>3, <3>2 DEF y
      <4> QED
        BY <4>1 DEF y
    <3> DEFINE e == y * p
               f == q * p
               g == c * x
    <3>4. e \in Nat /\ f \in Nat
      BY <1>3, <3>2
    <3>5. addr = g + a /\ g = e /\ a = f + r
      BY <1>1, <1>3, <3>1, <3>2
    <3> HIDE DEF e, f, g, y
    <3>6. n * p = e + f
      BY <3>3 DEF e, f
    <3> HIDE DEF n
    <3> DEFINE o == n * p
    <3> HIDE DEF o
    <3>7. o = e + f
      BY <3>6 DEF o
    <3>8. addr = o + r
      BY <1>3, <3>4, <3>5, <3>7
    <3> QED
      BY <3>8 DEF o
  <2> HIDE DEF n
  <2>3. Divides(n, p, r)
    BY <1>3, <2>1, QuotientOf
  <2> QED
    BY <2>2, <2>3 DEF Divides
<1>5. r + j \in 0 .. p - 1
  BY <1>3, <1>4
<1>6. (a + j) \div p = q
  <2> DEFINE s == r + j
  <2>1. s \in 0 .. p - 1
    BY <1>5
  <2> HIDE DEF s
  <2>2. Divides(q, p, s)
    BY <1>3, <2>1, QuotientOf
  <2>3. a + j = q * p + s
    BY <1>3 DEF s
  <2> QED
    BY <2>2, <2>3 DEF Divides
<1>7. a + j \in 0 .. c - 1
  <2>1. q < k
    <3>1. SUFFICES ASSUME k <= q PROVE FALSE
      BY <1>2, <1>3
    <3>2. p * k <= p * q
      BY <1>2, <1>3, <3>1
    <3> DEFINE y == p * k
               z == p * q
    <3>3. y \in Nat /\ z \in Nat /\ y <= z /\ c = y /\ a = z + r
      BY <1>2, <1>3, <3>2
    <3> HIDE DEF y, z
    <3> QED
      BY <1>1, <1>3, <3>3
  <2>2. p * (q + 1) <= p * k /\ p * (q + 1) = p * q + p
    BY <1>2, <1>3, <2>1
  <2> DEFINE y == p * k
             z == p * q
  <2>3. y \in Nat /\ z \in Nat /\ z + p <= y /\ c = y /\ a = z + r
    BY <1>2, <1>3, <2>2
  <2> HIDE DEF y, z
  <2> QED
    BY <1>3, <1>5, <2>3
<1>8. (addr + j) % c = a + j
  <2> DEFINE s == a + j
  <2>1. s \in 0 .. c - 1
    BY <1>7
  <2> HIDE DEF s
  <2>2. Divides(x, c, s)
    BY <1>1, <2>1, QuotientOf
  <2>3. addr + j = x * c + s
    <3> DEFINE y == x * c
    <3>1. c * x = y /\ y \in Nat
      BY <1>1
    <3> HIDE DEF y
    <3> QED
      BY <1>1, <3>1 DEF s, y
  <2>4. (addr + j) % c = s
    BY <2>2, <2>3 DEF Divides
  <2> QED
    BY <2>4 DEF s
<1>9. ((a + j) - a) % p = j
  <2>1. (a + j) - a = j /\ j \in 0 .. p - 1
    BY <1>1, <1>3, <1>5
  <2> QED
    BY <2>1
<1> QED
  BY <1>6, <1>7, <1>8, <1>9 DEF OnPage, a, q

\* The internal write cycle brings the data of a write to their place.
LEMMA StoredKept ==
  ASSUME DeviceInv, WriteCycleDone, Stored, call' = call, call.addr \in Nat,
         call.data \in Seq(Byte), WriteResult(call.addr, call.data) = "OK"
  PROVE  Stored'
<1>1. BusTypeOK
  BY DEF DeviceInv
<1>2. dev.busy /\ dev.page = call.data /\ dev.ptr = call.addr % Cells
  BY DEF WriteCycleDone, Stored
<1>3. dev' = [dev EXCEPT !.busy = FALSE, !.page = <<>>]
  BY DEF WriteCycleDone
<1>4. ~dev'.busy
  BY <1>1, <1>3 DEF BusTypeOK
<1>5. ~(Len(call.data) > PageSize - (call.addr % PageSize))
  BY DEF WriteResult
<1>6. PageSize \in Nat \ {0} /\ Cells \in Nat \ {0} /\ Cells % PageSize = 0
  BY BusAssumption
<1>7. mem' = [a \in DOMAIN mem |->
               IF a \div PageSize = dev.ptr \div PageSize
                  /\ ((a - dev.ptr) % PageSize) + 1 \in DOMAIN dev.page
               THEN dev.page[((a - dev.ptr) % PageSize) + 1] ELSE mem[a]]
  BY DEF WriteCycleDone
<1>8. DOMAIN mem = 0 .. Cells - 1
  BY <1>1 DEF BusTypeOK
<1>9. ASSUME NEW i \in DOMAIN call.data
      PROVE  mem'[(call.addr + i - 1) % Cells] = call.data[i]
  <2> DEFINE j == i - 1
             p == call.addr % Cells
             a == p + j
  <2>1. i \in 1 .. Len(call.data) /\ Len(call.data) \in Nat
    OBVIOUS
  <2>2. call.addr % PageSize \in 0 .. PageSize - 1
    BY <1>6, Division
  <2>3. j \in Nat /\ j < PageSize - (call.addr % PageSize)
    BY <1>5, <1>6, <2>1, <2>2
  <2> HIDE DEF j
  <2>4. OnPage(PageSize, Cells, call.addr, j)
    BY <1>6, <2>3, PageCells
  <2>5. /\ (call.addr + j) % Cells = a /\ a \in DOMAIN mem
        /\ a \div PageSize = dev.ptr \div PageSize /\ (a - dev.ptr) % PageSize = j
    BY <1>2, <1>8, <2>4 DEF OnPage
  <2>6. call.addr + i - 1 = call.addr + j /\ j + 1 = i
    BY <2>1 DEF j
  <2> HIDE DEF p, a
  <2>7. ((a - dev.ptr) % PageSize) + 1 = i
    BY <2>5, <2>6
  <2>8. ((a - dev.ptr) % PageSize) + 1 \in DOMAIN dev.page
    BY <1>2, <2>7
  <2>9. mem'[a] = dev.page[((a - dev.ptr) % PageSize) + 1]
    BY <1>7, <2>5, <2>8
  <2> QED
    BY <1>2, <2>5, <2>6, <2>7, <2>9
<1>10. Holds(call', mem')
  BY <1>9 DEF Holds
<1> QED
  BY <1>4, <1>10 DEF Stored

\* A call of eeprom.c, by its fields.
LEMMA CallTyped ==
  ASSUME ScriptInv, call.op \in {"write", "read"}
  PROVE  /\ call # NoCall /\ call \in Calls /\ attempt \in Nat
         /\ call.op = "write" => call.addr \in Nat /\ call.data \in Seq(Byte)
         /\ call.op = "read" => call.addr \in Nat /\ call.len \in Nat
<1>1. call # NoCall
  BY DEF NoCall
<1>2. call \in Calls /\ attempt \in Nat
  BY <1>1 DEF ScriptInv
<1> QED
  BY <1>1, <1>2, CallFields

\* The clock let go by the device.
LEMMA UnstretchData ==
  ASSUME BoardInv, DataInv, Unstretch, UNCHANGED <<masterVars, boardVars>>
  PROVE  DataInv'
<1> DEFINE b == [bus EXCEPT !.hold = FALSE]
<1>1. DeviceInv /\ BusTypeOK /\ ScriptInv
  BY DEF BoardInv, DeviceInv
<1>2. /\ bus \in Levels /\ b \in Levels /\ bus.hold /\ ~b.hold /\ Drive(b)
      /\ b.msda = bus.msda /\ b.mscl = bus.mscl /\ b.dsda = bus.dsda
  BY <1>1 DEF BusTypeOK, Levels, Unstretch
<1>3. /\ call' = call /\ attempt' = attempt /\ ret' = ret /\ todo' = todo /\ rc' = rc /\ in' = in
      /\ got' = got
  BY DEF masterVars, boardVars
<1>4. dev.st # "idle" /\ ~SCL(bus) /\ ~dev.busy
  BY <1>1, <1>2 DEF DeviceInv, SCL
<1> HIDE DEF b
<1>5. \/ bus' = b /\ dev' = dev /\ mem' = mem /\ ~SCL(b)
      \/ bus' = b /\ dev' = AtEdge(dev, Level(b)) /\ mem' = mem /\ SCL(b)
  <2>1. CASE SCL(b)
    <3>1. Clocked(b)
      BY <1>2, <1>4, <2>1 DEF Drive
    <3> QED
      BY <2>1, <3>1, EdgeCases
  <2>2. CASE ~SCL(b)
    BY <1>2, <1>4, <2>2 DEF Drive
  <2> QED
    BY <2>1, <2>2
<1>6. ~dev'.busy
  <2>1. ~AtEdge(dev, Level(b)).busy
    BY <1>1, <1>4, EdgeBusy
  <2> QED
    BY <1>4, <1>5, <2>1
<1>7. Level(b) = Level(bus)
  BY <1>2 DEF Level, SDA
<1>8. ASSUME NEW w
      PROVE  ViewNow(w)' = ViewNow(w)
  <2>1. CASE ~SCL(b)
    <3>1. b.mscl = 0
      BY <1>2, <2>1 DEF SCL, Levels
    <3>2. bus' = b /\ dev' = dev
      BY <1>5, <2>1
    <3>3. ViewNow(w)' = Talk(b.msda, b.mscl, b.dsda, w, dev, in, got)
      BY <1>3, <3>1, <3>2, ViewNowIs
    <3>4. ViewNow(w) = Talk(bus.msda, bus.mscl, bus.dsda, w, dev, in, got)
      BY <1>2, <3>1, ViewNowIs
    <3> QED
      BY <1>2, <3>3, <3>4
  <2>2. CASE SCL(b)
    <3>1. b.mscl = 1
      BY <2>2 DEF SCL
    <3>2. bus' = b /\ dev' = AtEdge(dev, Level(bus))
      BY <1>5, <1>7, <2>2
    <3>3. ViewNow(w)' = Talk(b.msda, b.mscl, b.dsda, w, AtEdge(dev, Level(bus)), in, got)
      BY <1>2, <1>3, <3>2, ViewNowIs
    <3>4. ViewNow(w) = Talk(bus.msda, bus.mscl, bus.dsda, w, AtEdge(dev, Level(bus)), in, got)
      BY <1>2, <3>1, ViewNowIs
    <3> QED
      BY <1>2, <3>3, <3>4
  <2> QED
    BY <2>1, <2>2
<1>9. mem' = mem /\ bus'.hold = FALSE /\ bus'.msda = bus.msda /\ bus'.mscl = bus.mscl
  BY <1>2, <1>5 DEF Levels
<1>10. Tracking => Tracking'
  <2> SUFFICES ASSUME Tracking PROVE Tracking'
    OBVIOUS
  <2>0. PICK p \in Seq(Ops) : \E w :
          todo = p \o Final /\ Leads(Data(mem), ViewNow(w), p, Ends(call, attempt, mem))
    BY DEF Tracking
  <2>1. PICK w :
          todo = p \o Final /\ Leads(Data(mem), ViewNow(w), p, Ends(call, attempt, mem))
    BY <2>0
  <2>2. Leads(Data(mem'), ViewNow(w)', p, Ends(call', attempt', mem'))
    BY <1>3, <1>8, <1>9, <2>1
  <2>3. todo' = p \o Final /\ ~(bus'.hold /\ bus'.mscl = 1)
    BY <1>3, <1>9, <2>1
  <2>4. attempt' > 0 => Holds(call', mem')
    BY <1>3, <1>9 DEF Tracking
  <2> QED
    BY <1>6, <2>2, <2>3, <2>4 DEF Tracking
<1>11. Ahead => Ahead'
  <2> SUFFICES ASSUME Ahead PROVE Ahead'
    OBVIOUS
  <2>1. PICK l \in Leaders, q \in Seq(Ops) :
          /\ todo = l \o q /\ Answered(call, attempt, q) /\ Unanswered(q)
          /\ Head(l) \in {"free", "start"} => SCL(bus)
    BY DEF Ahead
  <2>2. ~(Head(l) \in {"free", "start"})
    BY <1>4, <2>1
  <2>3. /\ todo' = l \o q /\ Answered(call', attempt', q) /\ Unanswered(q)
        /\ Head(l) \in {"free", "start"} => SCL(bus')
        /\ Head(l) = "start" => SDA(bus')
    BY <1>3, <2>1, <2>2
  <2>4. ~(attempt' > 0)
    BY <1>3, <1>4 DEF Ahead
  <2>5. in' = <<>> /\ got' = <<>> /\ bus'.msda = 1 /\ bus'.mscl = 1
    BY <1>3, <1>9 DEF Ahead
  <2> QED
    BY <2>3, <2>4, <2>5 DEF Ahead
<1>12. ~Doomed /\ ~Closing
  BY <1>4 DEF Doomed, Closing
<1>13. SUFFICES ASSUME call.op \in {"write", "read"}
                PROVE  DataInv'
  BY <1>3 DEF DataInv
<1>14. /\ attempt' > 0 => call'.op = "write"
       /\ call'.op = "write" /\ (rc' = "OK" \/ attempt' > 0) =>
            WriteResult(call'.addr, call'.data) = "OK"
       /\ rc' # "OK" => todo' \in Seq(StopOps)
  BY <1>3, <1>13 DEF DataInv
<1>15. ret' = "none" /\ rc' = "OK" => Ahead' \/ Doomed' \/ Tracking' \/ Closing'
  BY <1>3, <1>10, <1>11, <1>12, <1>13 DEF DataInv
<1>16. ~(ret' = "none" /\ rc' = "NACK" /\ attempt' > 0)
  BY <1>3, <1>4, <1>13 DEF DataInv
<1>17. ret' = "OK" =>
         Done' /\ (call'.op = "write" => attempt' = 0 /\ ~dev'.busy /\ Holds(call', mem'))
  <2> SUFFICES ASSUME ret = "OK"
               PROVE  Done' /\ (call.op = "write" => attempt = 0 /\ ~dev'.busy /\ Holds(call, mem'))
    BY <1>3
  <2>1. Done /\ (call.op = "write" => attempt = 0 /\ ~dev.busy /\ Holds(call, mem))
    BY <1>13 DEF DataInv
  <2>2. CASE call.op = "write"
    <3>1. Holds(call', mem') /\ ~dev'.busy /\ call'.op = "write"
      BY <1>3, <1>6, <1>9, <2>1, <2>2
    <3>2. Done'
      BY <3>1 DEF Done, Stored
    <3> QED
      BY <1>3, <2>1, <3>1, <3>2
  <2>3. CASE call.op # "write"
    <3>1. got' = Contents(mem', call'.addr, call'.len) /\ ~dev'.busy /\ call'.op # "write"
      BY <1>3, <1>6, <1>9, <2>1, <2>3 DEF Done
    <3>2. Done'
      BY <3>1 DEF Done
    <3> QED
      BY <2>3, <3>2
  <2> QED
    BY <2>2, <2>3
<1> QED
  BY <1>14, <1>15, <1>16, <1>17 DEF DataInv

\* The internal write cycle.
LEMMA WriteCycleData ==
  ASSUME BoardInv, DataInv, WriteCycleDone, UNCHANGED <<masterVars, boardVars>>
  PROVE  DataInv'
<1>1. DeviceInv /\ BusTypeOK /\ ScriptInv
  BY DEF BoardInv, DeviceInv
<1>2. /\ call' = call /\ attempt' = attempt /\ ret' = ret /\ todo' = todo /\ rc' = rc /\ in' = in
      /\ got' = got
  BY DEF masterVars, boardVars
<1>3. dev.busy /\ bus' = bus /\ dev' = [dev EXCEPT !.busy = FALSE, !.page = <<>>]
  BY DEF WriteCycleDone
<1>4. dev'.st = dev.st
  BY <1>1, <1>3 DEF BusTypeOK
<1>5. SUFFICES ASSUME call.op \in {"write", "read"}
               PROVE  DataInv'
  BY <1>2 DEF DataInv
<1>6. /\ call.op = "write" => call.addr \in Nat /\ call.data \in Seq(Byte)
      /\ attempt \in Nat
  BY <1>1, <1>5, CallTyped
<1>7. /\ attempt > 0 => call.op = "write"
      /\ call.op = "write" /\ (rc = "OK" \/ attempt > 0) => WriteResult(call.addr, call.data) = "OK"
      /\ ret = "none" /\ rc = "OK" => Ahead \/ Doomed \/ Tracking \/ Closing
      /\ rc # "OK" => todo \in Seq(StopOps)
      /\ ret = "none" /\ rc = "NACK" /\ attempt > 0 => dev.st = "idle" /\ Stored
      /\ ret = "OK" => Done /\ (call.op = "write" => attempt = 0 /\ ~dev.busy /\ Holds(call, mem))
  BY <1>5 DEF DataInv
<1>8. ASSUME Stored, call.op = "write", rc = "OK" \/ attempt > 0
      PROVE  Stored'
  BY <1>1, <1>2, <1>6, <1>7, <1>8, StoredKept
<1>9. ret # "OK"
  BY <1>3, <1>7 DEF Done
<1>10. ~Tracking
  BY <1>3 DEF Tracking
<1>11. Ahead => Ahead'
  <2> SUFFICES ASSUME Ahead PROVE Ahead'
    OBVIOUS
  <2>1. PICK l \in Leaders, q \in Seq(Ops) :
          /\ todo = l \o q /\ Answered(call, attempt, q) /\ Unanswered(q)
          /\ Head(l) \in {"free", "start"} => SCL(bus)
          /\ Head(l) = "start" => SDA(bus)
    BY DEF Ahead
  <2>2. /\ todo' = l \o q /\ Answered(call', attempt', q) /\ Unanswered(q)
        /\ Head(l) \in {"free", "start"} => SCL(bus')
        /\ Head(l) = "start" => SDA(bus')
    BY <1>2, <1>3, <2>1
  <2>3. in' = <<>> /\ got' = <<>> /\ bus'.msda = 1 /\ bus'.mscl = 1
    BY <1>2, <1>3 DEF Ahead
  <2>4. attempt' > 0 => dev'.st = "idle" /\ Stored'
    BY <1>2, <1>4, <1>7, <1>8 DEF Ahead
  <2> QED
    BY <2>2, <2>3, <2>4 DEF Ahead
<1>12. Doomed => Doomed'
  <2> SUFFICES ASSUME Doomed PROVE Doomed'
    OBVIOUS
  <2>1. PICK u : Leads(Deaf, DeafView(bus.msda, in, 0), todo, u) /\ u.missed = 1
    BY DEF Doomed
  <2>2. Leads(Deaf, DeafView(bus'.msda, in', 0), todo', u)
    BY <1>2, <1>3, <2>1
  <2>3. dev'.st = "idle" /\ (attempt' > 0 => Stored')
    BY <1>2, <1>4, <1>7, <1>8 DEF Doomed
  <2> QED
    BY <2>1, <2>2, <2>3 DEF Doomed
<1>13. rc = "OK" /\ Closing => Closing'
  <2> SUFFICES ASSUME rc = "OK", Closing PROVE Closing'
    OBVIOUS
  <2>1. call.op = "write" /\ ~(attempt > 0)
    BY <1>3, <1>5 DEF Closing, Done
  <2>2. Stored
    BY <1>6, <2>1 DEF Closing, Done
  <2>3. Stored' /\ call'.op = "write" /\ ~(attempt' > 0)
    BY <1>2, <1>8, <2>1, <2>2
  <2>4. Done'
    BY <2>3 DEF Done
  <2> QED
    BY <1>2, <1>4, <2>4 DEF Closing
<1>14. ret' = "none" /\ rc' = "OK" => Ahead' \/ Doomed' \/ Tracking' \/ Closing'
  BY <1>2, <1>7, <1>10, <1>11, <1>12, <1>13
<1>15. ret' = "none" /\ rc' = "NACK" /\ attempt' > 0 => dev'.st = "idle" /\ Stored'
  BY <1>2, <1>4, <1>7, <1>8
<1>16. /\ attempt' > 0 => call'.op = "write"
       /\ call'.op = "write" /\ (rc' = "OK" \/ attempt' > 0) =>
            WriteResult(call'.addr, call'.data) = "OK"
       /\ rc' # "OK" => todo' \in Seq(StopOps)
       /\ ret' # "OK"
  BY <1>2, <1>7, <1>9
<1> QED
  BY <1>14, <1>15, <1>16 DEF DataInv

-----------------------------------------------------------------------------
(* From one call to the next. *)

\* A step of the bus driver.
LEMMA LineData ==
  ASSUME BoardInv, DataInv, LineStep, UNCHANGED boardVars
  PROVE  DataInv'
<1>1. call' = call /\ attempt' = attempt /\ ret' = ret
  BY DEF boardVars
<1>2. SUFFICES ASSUME call.op \in {"write", "read"}
               PROVE  DataInv'
  BY <1>1 DEF DataInv
<1>3. DeviceInv /\ ScriptInv /\ cleanup \in {"return", "stop"} /\ Heading(LineView, todo)
  BY <1>2 DEF BoardInv, LinesInv
<1>4. DeviceInv'
  <2>1. [BoardNext]_i2cVars
    BY DEF BoardNext
  <2> QED
    BY <1>3, <2>1, DeviceStep
<1>5. ret = "none"
  <2>1. todo # <<>>
    BY OpSteps
  <2> QED
    BY <1>3, <2>1 DEF ScriptInv
<1>6. /\ attempt > 0 => call.op = "write"
      /\ call.op = "write" /\ (rc = "OK" \/ attempt > 0) => WriteResult(call.addr, call.data) = "OK"
      /\ rc = "OK" => Ahead \/ Doomed \/ Tracking \/ Closing
      /\ rc # "OK" => todo \in Seq(StopOps)
      /\ rc = "NACK" /\ attempt > 0 => dev.st = "idle" /\ Stored
  BY <1>2, <1>5 DEF DataInv
<1>7. CASE rc = "OK"
  <2>1. attempt \in Nat /\ (call.op = "write" => call.data # <<>>)
    <3>1. attempt \in Nat
      BY <1>2, <1>3, CallTyped
    <3> QED
      BY <1>6, <1>7, <3>1 DEF WriteResult
  <2>2. Follows
    <3>1. CASE Ahead
      BY <1>3, <1>4, <1>7, <3>1, AheadStep
    <3>2. CASE Doomed
      BY <1>3, <1>4, <1>7, <3>2, DoomedStep
    <3>3. CASE Tracking
      BY <1>3, <1>6, <1>7, <2>1, <3>3, TrackingStep
    <3>4. CASE Closing
      BY <1>7, <3>4, ClosingStep
    <3> QED
      BY <1>6, <1>7, <3>1, <3>2, <3>3, <3>4
  <2>3. /\ rc' = "OK" => Ahead' \/ Doomed' \/ Tracking' \/ Closing'
        /\ rc' # "OK" => todo' \in Seq(StopOps)
        /\ rc' = "NACK" /\ attempt > 0 => dev'.st = "idle" /\ Stored'
    BY <2>2 DEF Follows
  <2> QED
    BY <1>1, <1>5, <1>6, <1>7, <2>3 DEF DataInv
<1>8. CASE rc # "OK"
  <2>1. /\ rc' = rc /\ todo' \in Seq(StopOps)
        /\ dev.st = "idle" /\ Stored => dev'.st = "idle" /\ Stored'
    BY <1>3, <1>6, <1>8, RefusedStep
  <2> QED
    BY <1>1, <1>5, <1>6, <1>8, <2>1 DEF DataInv
<1> QED
  BY <1>7, <1>8

\* The rest of a program before its START is never empty.
LEMMA NotEmpty ==
  ASSUME NEW a \in Seq(Ops), a # <<>>, NEW b \in Seq(Ops)
  PROVE  a \o b # <<>> /\ b \o a # <<>>
OBVIOUS

\* A call with nothing more to do has had its STOP.
LEMMA Finished ==
  ASSUME Ahead \/ Doomed \/ Tracking \/ Closing, todo = <<>>
  PROVE  Closing
<1>1. ~Ahead
  <2> SUFFICES ASSUME Ahead PROVE FALSE
    OBVIOUS
  <2>1. PICK l \in Leaders, q \in Seq(Ops) : todo = l \o q
    BY DEF Ahead
  <2>2. l \in Seq(Ops) /\ l # <<>>
    BY LeaderHeads
  <2> QED
    BY <2>1, <2>2, NotEmpty
<1>2. ~Doomed
  <2> SUFFICES ASSUME Doomed PROVE FALSE
    OBVIOUS
  <2> DEFINE s == DeafView(bus.msda, in, 0)
  <2>1. PICK u : Leads(Deaf, s, <<>>, u) /\ u.missed = 1
    BY DEF Doomed
  <2>2. s.missed = 0
    BY DEF DeafView
  <2> HIDE DEF s
  <2>3. s = u
    BY <2>1, LeadsNone
  <2> QED
    BY <2>1, <2>2, <2>3
<1>3. ~Tracking
  <2> SUFFICES ASSUME Tracking PROVE FALSE
    OBVIOUS
  <2>1. PICK p \in Seq(Ops) : todo = p \o Final
    BY DEF Tracking
  <2>2. Final \in Seq(Ops) /\ Final # <<>>
    BY CallShapes DEF Final
  <2> QED
    BY <2>1, <2>2, NotEmpty
<1> QED
  BY <1>1, <1>2, <1>3

\* A call that begins with a program.
LEMMA ProgramStarts ==
  ASSUME bus' = bus, bus.msda = 1, bus.mscl = 1, NEW ops, Perform(ops, "OK", "return"),
         CallProgram(call', attempt', ops), attempt' > 0 => dev'.st = "idle" /\ Stored'
  PROVE  Ahead' /\ rc' = "OK"
<1>1. PICK q \in Seq(Ops) :
        ops = Lead \o q /\ Answered(call', attempt', q) /\ Unanswered(q)
  BY DEF CallProgram
<1>2. Lead \in Leaders /\ Head(Lead) = "sda1"
  BY DEF Lead, Leaders
<1>3. todo' = Lead \o q /\ rc' = "OK" /\ in' = <<>> /\ got' = <<>>
  BY <1>1 DEF Perform
<1>4. /\ todo' = Lead \o q /\ Answered(call', attempt', q) /\ Unanswered(q)
      /\ Head(Lead) \in {"free", "start"} => SCL(bus')
      /\ Head(Lead) = "start" => SDA(bus')
  BY <1>1, <1>2, <1>3
<1>5. bus'.msda = 1 /\ bus'.mscl = 1
  OBVIOUS
<1> QED
  BY <1>2, <1>3, <1>4, <1>5 DEF Ahead

\* Nothing to do: the master pulls no line.
LEMMA LinesLet ==
  ASSUME BoardInv, todo = <<>>, call.op # "message"
  PROVE  bus.msda = 1 /\ bus.mscl = 1
<1>1. Heading(LineView, <<>>)
  BY DEF BoardInv, LinesInv
<1>2. PICK u : Leads(Lines, LineView, <<>>, u) /\ u.msda = 1 /\ u.mscl = 1
  BY <1>1 DEF Heading
<1>3. LineView = u
  BY <1>2, LeadsNone
<1> QED
  BY <1>2, <1>3 DEF LineView, View

\* Another probe.
LEMMA ProbeData ==
  ASSUME BoardInv, todo = <<>>, call.op = "write", WriteResult(call.addr, call.data) = "OK",
         dev.st = "idle", Stored, UNCHANGED <<busVars, call, ret>>, ret = "none",
         attempt' > 0, Probe(TargetAddr)
  PROVE  DataInv'
<1>1. bus.msda = 1 /\ bus.mscl = 1
  BY LinesLet
<1>2. Perform(ProbeOps(TargetAddr), "OK", "return")
  BY DEF Probe, ProbeOps, Opening, Active
<1>3. CallProgram(call', attempt', ProbeOps(TargetAddr))
  BY ProbeProgram
<1>4. bus' = bus /\ dev' = dev /\ mem' = mem /\ call' = call /\ ret' = "none"
  BY DEF busVars
<1>5. Stored' /\ dev'.st = "idle"
  BY <1>4 DEF Stored
<1>6. Ahead' /\ rc' = "OK"
  BY <1>1, <1>2, <1>3, <1>4, <1>5, ProgramStarts
<1> QED
  BY <1>4, <1>6 DEF DataInv

\* A call that returns.
LEMMA ReturnData ==
  ASSUME DataInv, call.op \in {"write", "read"}, todo = <<>>, NEW result, CallReturns(result),
         call.op = "write" /\ rc = "OK" => WriteResult(call.addr, call.data) = "OK",
         result = "OK" => Done /\ (call.op = "write" => ~dev.busy /\ Holds(call, mem)),
         result = "none" => rc # "OK"
  PROVE  DataInv'
<1>1. /\ ret' = result /\ attempt' = 0 /\ call' = call /\ bus' = bus /\ dev' = dev /\ mem' = mem
      /\ todo' = <<>> /\ rc' = rc /\ got' = got
  BY DEF CallReturns, busVars, masterVars
<1>2. ~(attempt' > 0)
  BY <1>1
<1>3. todo' \in Seq(StopOps)
  BY <1>1, StopTypes
<1>4. result = "OK" => Done' /\ (call'.op = "write" => ~dev'.busy /\ Holds(call', mem'))
  <2> SUFFICES ASSUME result = "OK"
               PROVE  Done' /\ (call.op = "write" => ~dev'.busy /\ Holds(call, mem'))
    BY <1>1
  <2>1. CASE call.op = "write"
    <3>1. ~dev'.busy /\ Holds(call', mem') /\ call'.op = "write"
      BY <1>1, <2>1
    <3>2. Done'
      BY <1>2, <3>1 DEF Done, Stored
    <3> QED
      BY <1>1, <3>1, <3>2
  <2>2. CASE call.op # "write"
    <3>1. ~dev'.busy /\ got' = Contents(mem', call'.addr, call'.len) /\ call'.op # "write"
      BY <1>1, <2>2 DEF Done
    <3> QED
      BY <2>2, <3>1 DEF Done
  <2> QED
    BY <2>1, <2>2
<1> QED
  BY <1>1, <1>2, <1>3, <1>4 DEF DataInv

\* The transfer has ended.
LEMMA TransferData ==
  ASSUME BoardInv, DataInv, TransferDone
  PROVE  DataInv'
<1>1. todo = <<>> /\ ret = "none" /\ attempt = 0
  BY DEF TransferDone
<1> DEFINE result == IF call.op \in {"write", "read"} /\ rc \in BusErrors THEN "TRANSFER" ELSE rc
<1>2. CASE call.op = "write" /\ rc = "OK"
  <2>1. attempt' = 1 /\ Probe(TargetAddr) /\ UNCHANGED <<busVars, script, call, ret, resets>>
    BY <1>2 DEF TransferDone
  <2>2. Closing /\ WriteResult(call.addr, call.data) = "OK"
    BY <1>1, <1>2, Finished DEF DataInv
  <2>3. dev.st = "idle" /\ Stored
    BY <1>1, <1>2, <2>2 DEF Closing, Done
  <2> QED
    BY <1>1, <1>2, <2>1, <2>2, <2>3, ProbeData
<1>3. CASE ~(call.op = "write" /\ rc = "OK")
  <2>1. CallReturns(result)
    BY <1>3 DEF TransferDone
  <2>2. call' = call
    BY <2>1 DEF CallReturns
  <2>3. CASE call.op \in {"write", "read"}
    <3>1. result = "OK" => rc = "OK"
      OBVIOUS
    <3>2. result = "none" => rc # "OK"
      OBVIOUS
    <3> HIDE DEF result
    <3>3. result = "OK" => Done /\ (call.op = "write" => ~dev.busy /\ Holds(call, mem))
      <4> SUFFICES ASSUME result = "OK"
                   PROVE  Done /\ call.op # "write"
        OBVIOUS
      <4>1. rc = "OK" /\ call.op # "write"
        BY <1>3, <3>1
      <4>2. Closing
        BY <1>1, <2>3, <4>1, Finished DEF DataInv
      <4> QED
        BY <4>1, <4>2 DEF Closing
    <3> QED
      BY <1>1, <1>3, <2>1, <2>3, <3>2, <3>3, ReturnData
  <2>4. CASE ~(call.op \in {"write", "read"})
    BY <2>2, <2>4 DEF DataInv
  <2> QED
    BY <2>3, <2>4
<1> QED
  BY <1>2, <1>3

\* A probe has ended.
LEMMA WaitData ==
  ASSUME BoardInv, DataInv, WaitReady
  PROVE  DataInv'
<1>1. todo = <<>> /\ ret = "none" /\ attempt > 0
  BY DEF WaitReady
<1> DEFINE result == CASE rc = "OK" -> "OK" [] rc = "NACK" -> "NOT_READY" [] OTHER -> "TRANSFER"
<1>2. call' = call
  BY DEF WaitReady, CallReturns
<1>3. SUFFICES ASSUME call.op \in {"write", "read"}
               PROVE  DataInv'
  BY <1>2 DEF DataInv
<1>4. /\ call.op = "write" /\ WriteResult(call.addr, call.data) = "OK"
      /\ rc = "OK" => Ahead \/ Doomed \/ Tracking \/ Closing
      /\ rc = "NACK" => dev.st = "idle" /\ Stored
  BY <1>1, <1>3 DEF DataInv
<1>5. CASE rc = "NACK" /\ attempt < ReadyPollLimit
  <2>1. /\ attempt' = attempt + 1 /\ Probe(TargetAddr)
        /\ UNCHANGED <<busVars, script, call, ret, resets>>
    BY <1>5 DEF WaitReady
  <2>2. attempt' > 0
    <3>1. attempt \in Nat
      BY <1>3, CallTyped DEF BoardInv
    <3> QED
      BY <1>1, <2>1, <3>1
  <2> QED
    BY <1>1, <1>4, <1>5, <2>1, <2>2, ProbeData
<1>6. CASE ~(rc = "NACK" /\ attempt < ReadyPollLimit)
  <2>1. CallReturns(result)
    BY <1>6 DEF WaitReady
  <2>2. result \in {"OK", "NOT_READY", "TRANSFER"} /\ (result = "OK" => rc = "OK")
    <3>1. CASE rc = "OK"
      BY <3>1
    <3>2. CASE rc = "NACK"
      BY <3>2
    <3>3. CASE rc # "OK" /\ rc # "NACK"
      BY <3>3
    <3> QED
      BY <3>1, <3>2, <3>3
  <2> HIDE DEF result
  <2>3. result = "OK" => Done /\ (call.op = "write" => ~dev.busy /\ Holds(call, mem))
    <3> SUFFICES ASSUME result = "OK"
                 PROVE  Done /\ ~dev.busy /\ Holds(call, mem)
      OBVIOUS
    <3>1. Closing
      BY <1>1, <1>4, <2>2, Finished
    <3> QED
      BY <1>1, <1>4, <3>1 DEF Closing, Done
  <2> QED
    BY <1>1, <1>3, <1>4, <2>1, <2>2, <2>3, ReturnData
<1> QED
  BY <1>5, <1>6

\* A call that is refused at once.
LEMMA RefusedData ==
  ASSUME call'.op \in {"write", "read"}, attempt' = 0, ret' = "none", NEW result,
         result # "OK", Perform(<<>>, result, "return")
  PROVE  DataInv'
<1>1. rc' # "OK" /\ todo' \in Seq(StopOps)
  BY StopTypes DEF Perform
<1>2. ~(attempt' > 0)
  OBVIOUS
<1> QED
  BY <1>1, <1>2 DEF DataInv

\* A transfer of eeprom.c is sent.
LEMMA TransferPerforms ==
  ASSUME NEW msgs, msgs # <<>>, \A k \in 1 .. Len(msgs) : msgs[k].buf # <<>>,
         \A k \in 1 .. Len(msgs) : k > 1 => msgs[k].restart, Transfer(TargetAddr, msgs)
  PROVE  Perform(Messages(TargetAddr, msgs), "OK", "return")
<1>1. ValidMessages(msgs)
  BY DEF ValidMessages
<1>2. TargetAddr # 2 ^ (Width - 1) - 1
  <2>1. Width - 1 \in 0 .. Width
    BY PowerFacts
  <2> DEFINE z == 2 ^ (Width - 1)
  <2>2. z \in Nat /\ TargetAddr \in 0 .. z - 2
    BY <2>1, PowerFacts, BusAssumption
  <2> HIDE DEF z
  <2>3. TargetAddr # z - 1
    BY <2>2
  <2> QED
    BY <2>3 DEF z
<1> QED
  BY <1>1, <1>2 DEF Transfer

\* A call of main.
LEMMA NextCallData ==
  ASSUME BoardInv, NextCall
  PROVE  DataInv'
<1> DEFINE c == Head(script)
<1>1. /\ script # <<>> /\ todo = <<>> /\ call' = c /\ UNCHANGED busVars /\ bus' = bus
      /\ ret' = "none" /\ attempt' = 0
      /\ c.op = "write" => WriteEeprom(c)
      /\ c.op = "read" => ReadEeprom(c)
  BY DEF NextCall, busVars
<1>2. Len(script) \in Nat \ {0} /\ c = script[1]
  BY <1>1 DEF BoardInv, ScriptInv
<1>3. 1 \in 1 .. Len(script)
  BY <1>2
<1>4. c \in Calls
  BY <1>2, <1>3 DEF BoardInv, ScriptInv
<1> HIDE DEF c
<1>5. SUFFICES ASSUME c.op \in {"write", "read"}
               PROVE  DataInv'
  BY <1>1 DEF DataInv
<1>6. call.op # "message"
  <2>1. CASE call = NoCall
    BY <2>1 DEF NoCall
  <2>2. CASE call # NoCall
    BY <1>2, <1>3, <1>5, <2>2 DEF BoardInv, ScriptInv
  <2> QED
    BY <2>1, <2>2
<1>7. bus.msda = 1 /\ bus.mscl = 1
  BY <1>1, <1>6, LinesLet
<1>8. ~(attempt' > 0) /\ call' = c /\ ret' = "none" /\ bus' = bus
  BY <1>1
<1>9. ASSUME NEW ops, Perform(ops, "OK", "return"), CallProgram(c, 0, ops),
             c.op = "write" => WriteResult(c.addr, c.data) = "OK"
      PROVE  DataInv'
  <2>1. CallProgram(call', attempt', ops)
    BY <1>1, <1>9
  <2>2. Ahead' /\ rc' = "OK"
    BY <1>7, <1>8, <1>9, <2>1, ProgramStarts
  <2> QED
    BY <1>8, <1>9, <2>2 DEF DataInv
<1>10. CASE c.op = "write"
  <2>1. WriteEeprom(c) /\ c.addr \in Nat /\ c.data \in Seq(Byte)
    BY <1>1, <1>4, <1>10, CallFields
  <2>2. CASE WriteResult(c.addr, c.data) # "OK"
    <3> DEFINE result == WriteResult(c.addr, c.data)
    <3>1. Perform(<<>>, result, "return") /\ result # "OK"
      BY <2>1, <2>2 DEF WriteEeprom
    <3> HIDE DEF result
    <3> QED
      BY <1>1, <1>5, <3>1, RefusedData
  <2>3. CASE WriteResult(c.addr, c.data) = "OK"
    <3> DEFINE w == WriteMessage(c)
    <3>1. c.addr < Limit
      BY <2>3 DEF WriteResult, ValidRange
    <3>2. w.buf # <<>>
      BY <2>1, <3>1, CallMessages
    <3>3. Transfer(TargetAddr, <<w>>)
      BY <2>1, <2>3 DEF WriteEeprom, WriteMessage
    <3> HIDE DEF w
    <3>4. /\ <<w>> # <<>> /\ \A k \in 1 .. Len(<<w>>) : <<w>>[k].buf # <<>>
          /\ \A k \in 1 .. Len(<<w>>) : k > 1 => <<w>>[k].restart
      BY <3>2
    <3>5. Perform(Messages(TargetAddr, <<w>>), "OK", "return")
      <4> DEFINE msgs == <<w>>
      <4> HIDE DEF msgs
      <4>1. /\ msgs # <<>> /\ \A k \in 1 .. Len(msgs) : msgs[k].buf # <<>>
            /\ \A k \in 1 .. Len(msgs) : k > 1 => msgs[k].restart
            /\ Transfer(TargetAddr, msgs)
        BY <3>3, <3>4 DEF msgs
      <4>2. Perform(Messages(TargetAddr, msgs), "OK", "return")
        BY <4>1, TransferPerforms
      <4> QED
        BY <4>2 DEF msgs
    <3>6. CallProgram(c, 0, Messages(TargetAddr, <<w>>))
      BY <1>10, <2>1, <3>1, WriteProgram DEF w
    <3> QED
      BY <1>9, <2>3, <3>5, <3>6
  <2> QED
    BY <2>2, <2>3
<1>11. CASE c.op = "read"
  <2>1. ReadEeprom(c) /\ c.addr \in Nat /\ c.len \in Nat
    BY <1>1, <1>4, <1>11, CallFields
  <2>2. CASE ReadResult(c.addr, c.len) # "OK"
    <3> DEFINE result == ReadResult(c.addr, c.len)
    <3>1. Perform(<<>>, result, "return") /\ result # "OK"
      BY <2>1, <2>2 DEF ReadEeprom
    <3> HIDE DEF result
    <3> QED
      BY <1>1, <1>5, <3>1, RefusedData
  <2>3. CASE ReadResult(c.addr, c.len) = "OK"
    <3> DEFINE a == AddressMessage(c)
               r == ReadMessage(c)
    <3>1. c.addr < Limit /\ c.len \in Nat \ {0}
      BY <2>1, <2>3 DEF ReadResult, ValidRange
    <3>2. a.buf # <<>> /\ r.buf # <<>>
      BY <3>1, <2>1, CallMessages
    <3>3. r.restart
      BY DEF ReadMessage, Message
    <3>4. Transfer(TargetAddr, <<a, r>>)
      BY <2>1, <2>3 DEF ReadEeprom, AddressMessage, ReadMessage
    <3> HIDE DEF a, r
    <3>5. /\ <<a, r>> # <<>> /\ \A k \in 1 .. Len(<<a, r>>) : <<a, r>>[k].buf # <<>>
          /\ \A k \in 1 .. Len(<<a, r>>) : k > 1 => <<a, r>>[k].restart
      BY <3>2, <3>3
    <3>6. Perform(Messages(TargetAddr, <<a, r>>), "OK", "return")
      <4> DEFINE msgs == <<a, r>>
      <4> HIDE DEF msgs
      <4>1. /\ msgs # <<>> /\ \A k \in 1 .. Len(msgs) : msgs[k].buf # <<>>
            /\ \A k \in 1 .. Len(msgs) : k > 1 => msgs[k].restart
            /\ Transfer(TargetAddr, msgs)
        BY <3>4, <3>5 DEF msgs
      <4>2. Perform(Messages(TargetAddr, msgs), "OK", "return")
        BY <4>1, TransferPerforms
      <4> QED
        BY <4>2 DEF msgs
    <3>7. CallProgram(c, 0, Messages(TargetAddr, <<a, r>>))
      BY <1>11, <2>1, <3>1, ReadProgram DEF a, r
    <3>8. c.op # "write"
      BY <1>11
    <3> QED
      BY <1>9, <3>6, <3>7, <3>8
  <2> QED
    BY <2>2, <2>3
<1> QED
  BY <1>5, <1>10, <1>11

\* Every step keeps what a call knows.
LEMMA DataStep ==
  ASSUME BoardInv, DataInv, [BoardNext]_i2cVars
  PROVE  DataInv'
<1>1. CASE LineStep /\ UNCHANGED boardVars
  BY <1>1, LineData
<1>2. CASE (Unstretch \/ WriteCycleDone) /\ UNCHANGED <<masterVars, boardVars>>
  BY <1>2, UnstretchData, WriteCycleData
<1>3. CASE TransferDone \/ WaitReady \/ NextCall
  BY <1>3, TransferData, WaitData, NextCallData
<1>4. CASE Boot \/ Reset
  <2>1. call'.op = "none"
    BY <1>4 DEF Boot, Reset, NoCall
  <2> QED
    BY <2>1 DEF DataInv
<1>5. CASE Stopped \/ UNCHANGED i2cVars
  <2>1. UNCHANGED <<bus, dev, mem, todo, cleanup, rc, in, got, script, call, attempt, ret>>
    BY <1>5 DEF Stopped, i2cVars, busVars, masterVars, boardVars
  <2>2. Stored => Stored'
    BY <2>1 DEF Stored
  <2>3. Done => Done'
    BY <2>1, <2>2 DEF Done
  <2>4. Ahead => Ahead'
    BY <2>1, <2>2 DEF Ahead
  <2>5. Doomed => Doomed'
    BY <2>1, <2>2 DEF Doomed
  <2>6. ASSUME NEW w
        PROVE  ViewNow(w)' = ViewNow(w)
    BY <2>1 DEF ViewNow, Heard, Level, SDA
  <2>7. Tracking => Tracking'
    <3> SUFFICES ASSUME Tracking PROVE Tracking'
      OBVIOUS
    <3>0. PICK p \in Seq(Ops) : \E w :
            /\ todo = p \o Final /\ Leads(Data(mem), ViewNow(w), p, Ends(call, attempt, mem))
            /\ w = 0 => ~(bus.hold /\ bus.mscl = 1)
      BY DEF Tracking
    <3>1. PICK w :
            /\ todo = p \o Final /\ Leads(Data(mem), ViewNow(w), p, Ends(call, attempt, mem))
            /\ w = 0 => ~(bus.hold /\ bus.mscl = 1)
      BY <3>0
    <3>2. Leads(Data(mem'), ViewNow(w)', p, Ends(call', attempt', mem'))
      BY <2>1, <2>6, <3>1
    <3>3. ~dev'.busy /\ (attempt' > 0 => Holds(call', mem')) /\ todo' = p \o Final
          /\ (w = 0 => ~(bus'.hold /\ bus'.mscl = 1))
      BY <2>1, <3>1 DEF Tracking
    <3> QED
      BY <3>2, <3>3 DEF Tracking
  <2>8. Closing => Closing'
    BY <2>1, <2>3 DEF Closing
  <2> QED
    BY <2>1, <2>2, <2>3, <2>4, <2>5, <2>7, <2>8 DEF DataInv
<1> QED
  BY <1>1, <1>2, <1>3, <1>4, <1>5 DEF BoardNext

\* It holds always.
LEMMA DataInvariance == BoardSpec => []DataInv
<1>1. BoardInit => DataInv
  BY DEF BoardInit, NoCall, DataInv
<1>2. BoardInv /\ DataInv /\ [BoardNext]_i2cVars => DataInv'
  BY DataStep
<1> QED
  BY <1>1, <1>2, BoardInvariance, PTL DEF BoardSpec

\* A call that succeeds tells the truth about the memory, however the clock was stretched: the
\* bytes of an eeprom_write are in it when the call returns, those of an eeprom_read are its
\* contents (eeprom.c:37-139); and a call of lab 14 that has returned leaves both lines let go
\* (generate_stop, mps2_i2c.c:125-138).
THEOREM CallsTrue == BoardSpec => []CallsHold
<1>1. ASSUME BoardInv, DataInv
      PROVE  CallsHold
  <2>1. ASSUME ret = "OK", call.op = "write"
        PROVE  \A i \in DOMAIN call.data : mem[(call.addr + i - 1) % Cells] = call.data[i]
    BY <1>1, <2>1 DEF DataInv, Holds
  <2>2. ASSUME ret = "OK", call.op = "read"
        PROVE  got = [i \in 1 .. call.len |-> mem[(call.addr + i - 1) % Cells]]
    BY <1>1, <2>2 DEF DataInv, Done, Contents
  <2>3. ret # "none" /\ call.op # "message" => bus.msda = 1 /\ bus.mscl = 1
    BY <1>1, Released
  <2> QED
    BY <2>1, <2>2, <2>3 DEF CallsHold
<1> QED
  BY <1>1, BoardInvariance, DataInvariance, PTL
-----------------------------------------------------------------------------
(* What the driver of lab 13 does to the device. *)

\* What a view asks of the lines, of the device and of what is read.
LEMMA PlainMoves ==
  ASSUME NEW a, NEW b, NEW x, NEW d, NEW i, NEW g, NEW o, NEW t
  PROVE  LET s == Talk(a, b, x, 0, d, i, g)
             e == AtEdge(d, Wired(a, x))
         IN Move(Plain, o, s, t) <=>
              \/ o = "unsupported" /\ t = Gone
              \/ o = "sda0" /\ b = 0 /\ t = Talk(0, 0, x, 0, d, i, g)
              \/ o = "sda1" /\ b = 0 /\ t = Talk(1, 0, x, 0, d, i, g)
              \/ o = "scl1" /\ b = 0 /\ e.st = "read" /\ t = Asked
              \/ o = "scl1" /\ b = 0 /\ e.st # "read" /\ t = Talk(a, 1, x, 0, Seen(e), i, g)
              \/ /\ o = "scl0" /\ b = 1 /\ d.st # "read"
                 /\ t = Talk(a, 0, Out(Fallen(d), <<>>), 0, Seen(Fallen(d)), i, g)
              \/ o = "sample" /\ t = Talk(a, b, x, 0, d, Append(i, Wired(a, x)), g)
              \/ o = "ack" /\ Last(i) = 0 /\ t = Talk(a, b, x, 0, d, <<>>, g)
              \/ o = "ack" /\ Last(i) # 0 /\ t = Gone
<1> DEFINE s == Talk(a, b, x, 0, d, i, g)
<1>1. /\ s.msda = a /\ s.mscl = b /\ s.dsda = x /\ s.wait = 0 /\ s.d = d /\ s.in = i
      /\ s.got = g /\ Both(s) = Wired(a, x)
  BY TalkFields
<1> HIDE DEF s
<1>2. Move(Plain, o, s, t) <=> PlainMove(o, s, t)
  BY Kinds
<1> QED
  BY <1>1, <1>2 DEF PlainMove, s

\* What fails for certain, and what the driver is about to find out.
LEMMA GoneMoves ==
  /\ \A o : Move(Plain, o, Gone, Gone)
  /\ \A o \in {"sample", "scl0", "ack"} : Move(Plain, o, Asked, Asked)
  /\ \A s : Move(Plain, "unsupported", s, Gone)
<1>1. Gone.wait = 1 /\ Asked.wait = 2
  BY DEF Gone, Asked, Talk
<1>2. \A o, s, t : Move(Plain, o, s, t) <=> PlainMove(o, s, t)
  BY Kinds
<1>3. /\ \A o : PlainMove(o, Gone, Gone)
      /\ \A o \in {"sample", "scl0", "ack"} : PlainMove(o, Asked, Asked)
      /\ \A s : PlainMove("unsupported", s, Gone)
  BY <1>1 DEF PlainMove
<1> QED
  BY <1>2, <1>3

\* After that nothing of the program matters.
LEMMA GoneForGood ==
  ASSUME NEW ops \in Seq(Ops)
  PROVE  Leads(Plain, Gone, ops, Gone)
<1> DEFINE f == [j \in 0 .. Len(ops) |-> Gone]
<1>1. f[0] = Gone /\ f[Len(ops)] = Gone
  OBVIOUS
<1>2. ASSUME NEW j \in 1 .. Len(ops) PROVE Move(Plain, ops[j], f[j - 1], f[j])
  <2>1. f[j - 1] = Gone /\ f[j] = Gone
    OBVIOUS
  <2> HIDE DEF f
  <2> QED
    BY <2>1, GoneMoves
<1> HIDE DEF f
<1>3. Trace(Plain, f, Gone, ops, Gone)
  BY <1>1, <1>2 DEF Trace
<1> QED
  BY <1>3 DEF Leads

\* SCL is low, and the device shows what it has to.
PlainLow(a, d, i) == Talk(a, 0, Out(d, <<>>), 0, d, i, <<>>)

MsgBit(b) == <<IF b = 1 THEN "sda1" ELSE "sda0", "scl1", "scl0">>

\* A bit written.
LEMMA MsgBitTalk ==
  ASSUME NEW a, NEW d, NEW i, NEW b \in {0, 1},
         NEW h, h = Seen(AtEdge(d, Wired(b, Out(d, <<>>)))), h.st # "read",
         NEW e, e = Fallen(h), Seen(e) = e
  PROVE  Leads(Plain, PlainLow(a, d, i), MsgBit(b), PlainLow(b, e, i))
<1> DEFINE o == IF b = 1 THEN "sda1" ELSE "sda0"
           x == Out(d, <<>>)
           f == AtEdge(d, Wired(b, x))
           none == <<>>
           s0 == Talk(a, 0, x, 0, d, i, none)
           s1 == Talk(b, 0, x, 0, d, i, none)
           s2 == Talk(b, 1, x, 0, h, i, none)
           s3 == Talk(b, 0, Out(e, <<>>), 0, e, i, none)
<1>1. f.st # "read"
  BY DEF Seen, Idle
<1> HIDE DEF x, none
<1>2. Move(Plain, o, s0, s1)
  BY PlainMoves
<1>3. Move(Plain, "scl1", s1, s2)
  BY <1>1, PlainMoves DEF x
<1>4. Move(Plain, "scl0", s2, s3)
  BY PlainMoves
<1>5. o \in Ops /\ {"scl1", "scl0"} \subseteq Ops
  BY DEF Ops
<1> HIDE DEF o, f, s0, s1, s2, s3
<1>6. Leads(Plain, s0, <<o, "scl1", "scl0">>, s3)
  BY <1>2, <1>3, <1>4, <1>5, LeadsThree
<1> QED
  BY <1>6 DEF MsgBit, PlainLow, s0, s3, o, x, none

\* An acknowledgement, or none.
LEMMA MsgAckTalk ==
  ASSUME NEW a, NEW d, NEW x \in {0, 1}, Out(d, <<>>) = x,
         NEW h, h = AtEdge(d, x)
  PROVE  /\ MsgReceiveAck \in Seq(Ops)
         /\ x = 0 /\ h.st \notin {"read", "idle"} =>
              Leads(Plain, PlainLow(a, d, <<>>), MsgReceiveAck, PlainLow(1, Fallen(h), <<>>))
         /\ x = 0 /\ h.st = "read" => Leads(Plain, PlainLow(a, d, <<>>), MsgReceiveAck, Asked)
         /\ x = 1 /\ h.st = "idle" => Leads(Plain, PlainLow(a, d, <<>>), MsgReceiveAck, Gone)
<1> DEFINE none == <<>>
           bits == <<x>>
           s0 == Talk(a, 0, x, 0, d, none, none)
           s1 == Talk(1, 0, x, 0, d, none, none)
           s2 == Talk(1, 1, x, 0, Seen(h), none, none)
           s3 == Talk(1, 1, x, 0, Seen(h), bits, none)
           s4 == Talk(1, 0, Out(Fallen(Seen(h)), <<>>), 0, Seen(Fallen(Seen(h))), bits, none)
           s5 == Talk(1, 0, Out(Fallen(Seen(h)), <<>>), 0, Seen(Fallen(Seen(h))), none, none)
<1>1. Wired(1, x) = x /\ Append(none, x) = bits /\ Last(bits) = x
  BY DEF Wired, Last
<1>2. {"sda1", "scl1", "sample", "scl0", "ack"} \subseteq Ops
  BY DEF Ops
<1>3. MsgReceiveAck = <<"sda1", "scl1", "sample">> \o <<"scl0", "ack">>
  BY DEF MsgReceiveAck
<1>4. <<"sda1", "scl1", "sample">> \in Seq(Ops) /\ <<"scl0", "ack">> \in Seq(Ops)
  BY <1>2
<1> HIDE DEF none, bits
<1>5. Move(Plain, "sda1", s0, s1)
  BY PlainMoves
<1>6. MsgReceiveAck \in Seq(Ops)
  BY <1>3, <1>4, ConcatProperties
<1>7. ASSUME h.st # "read"
      PROVE  /\ Move(Plain, "scl1", s1, s2) /\ Move(Plain, "sample", s2, s3)
             /\ Move(Plain, "scl0", s3, s4)
             /\ x = 0 => Move(Plain, "ack", s4, s5)
             /\ x # 0 => Move(Plain, "ack", s4, Gone)
  <2>1. Seen(h).st # "read"
    BY <1>7 DEF Seen, Idle
  <2>2. Move(Plain, "scl1", s1, s2)
    BY <1>1, <1>7, PlainMoves
  <2>3. Move(Plain, "sample", s2, s3)
    <3> DEFINE k == Append(none, Wired(1, x))
    <3>1. Move(Plain, "sample", s2, Talk(1, 1, x, 0, Seen(h), k, none))
      BY PlainMoves
    <3>2. k = bits
      BY <1>1
    <3> HIDE DEF k
    <3> QED
      BY <3>1, <3>2
  <2>4. Move(Plain, "scl0", s3, s4)
    BY <2>1, PlainMoves
  <2>5. /\ x = 0 => Move(Plain, "ack", s4, s5)
        /\ x # 0 => Move(Plain, "ack", s4, Gone)
    BY <1>1, PlainMoves DEF none
  <2> QED
    BY <2>2, <2>3, <2>4, <2>5
<1>8. ASSUME h.st = "read" PROVE Move(Plain, "scl1", s1, Asked)
  BY <1>1, <1>8, PlainMoves
<1> HIDE DEF s0, s1, s2, s3, s4, s5
<1>9. ASSUME NEW u, h.st # "read", (x = 0 /\ u = s5) \/ (x # 0 /\ u = Gone)
      PROVE  Leads(Plain, s0, MsgReceiveAck, u)
  <2>1. Leads(Plain, s0, <<"sda1", "scl1", "sample">>, s3)
    BY <1>2, <1>5, <1>7, <1>9, LeadsThree
  <2>2. Leads(Plain, s3, <<"scl0", "ack">>, u)
    BY <1>2, <1>7, <1>9, LeadsTwo
  <2> QED
    BY <1>3, <1>4, <2>1, <2>2, LeadsThen
<1>10. ASSUME h.st = "read" PROVE Leads(Plain, s0, MsgReceiveAck, Asked)
  <2>1. Leads(Plain, s0, <<"sda1", "scl1", "sample">>, Asked)
    BY <1>2, <1>5, <1>8, <1>10, GoneMoves, LeadsThree
  <2>2. Leads(Plain, Asked, <<"scl0", "ack">>, Asked)
    BY <1>2, GoneMoves, LeadsTwo
  <2> QED
    BY <1>3, <1>4, <2>1, <2>2, LeadsThen
<1>11. s0 = PlainLow(a, d, <<>>)
  BY DEF s0, PlainLow, none
<1>12. ASSUME h.st \notin {"read", "idle"} PROVE s5 = PlainLow(1, Fallen(h), <<>>)
  <2>1. Seen(h) = h /\ Seen(Fallen(h)) = Fallen(h)
    BY <1>12 DEF Seen, Fallen
  <2> QED
    BY <2>1 DEF s5, PlainLow, none
<1> QED
  BY <1>6, <1>9, <1>10, <1>11, <1>12

\* A bit heard, or not.
LEMMA MsgBitHeard ==
  ASSUME NEW a, NEW i, NEW b \in {0, 1}
  PROVE  /\ \A st \in Ears, n \in Nat : \A sh, words, ptr, page :
              n < Width =>
                Leads(Plain, PlainLow(a, Dev(st, n, sh, words, ptr, page), i), MsgBit(b),
                      PlainLow(b, Dev(st, n + 1, 2 * sh + b, words, ptr, page), i))
         /\ Leads(Plain, PlainLow(a, Idle, i), MsgBit(b), PlainLow(b, Idle, i))
<1>1. ASSUME NEW st \in Ears, NEW n \in Nat, NEW sh, NEW words, NEW ptr, NEW page, n < Width
      PROVE  Leads(Plain, PlainLow(a, Dev(st, n, sh, words, ptr, page), i), MsgBit(b),
                   PlainLow(b, Dev(st, n + 1, 2 * sh + b, words, ptr, page), i))
  <2> DEFINE d == Dev(st, n, sh, words, ptr, page)
             e == Dev(st, n + 1, 2 * sh + b, words, ptr, page)
  <2>1. n # Width /\ n + 1 # Width + 1
    BY <1>1, PowerFacts
  <2>2. Out(d, <<>>) = 1
    BY <2>1, OutDevs
  <2>3. AtEdge(d, b) = e
    BY <1>1, EdgeBit
  <2>4. Fallen(e) = e /\ e.st = st
    BY <2>1, FallDevs, DevFields
  <2>5. Wired(b, 1) = b
    BY DEF Wired
  <2>6. st \notin {"idle", "read"}
    BY DEF Ears
  <2> HIDE DEF d, e
  <2>7. Seen(e) = e
    BY <2>4, <2>6 DEF Seen
  <2>8. e = Seen(AtEdge(d, Wired(b, Out(d, <<>>)))) /\ e.st # "read"
    BY <2>2, <2>3, <2>4, <2>5, <2>6, <2>7
  <2>9. Leads(Plain, PlainLow(a, d, i), MsgBit(b), PlainLow(b, e, i))
    BY <2>4, <2>7, <2>8, MsgBitTalk
  <2> QED
    BY <2>9 DEF d, e
<1>2. Leads(Plain, PlainLow(a, Idle, i), MsgBit(b), PlainLow(b, Idle, i))
  <2>1. Idle.st = "idle" /\ Idle.n = 0
    BY DEF Idle
  <2>2. Seen(Idle) = Idle
    BY DEF Seen
  <2>3. AtEdge(Idle, Wired(b, Out(Idle, <<>>))) = Idle
    BY <2>1 DEF AtEdge, Hears
  <2>4. Fallen(Idle) = Idle
    BY PowerFacts DEF Fallen, Idle
  <2> QED
    BY <2>1, <2>2, <2>3, <2>4, MsgBitTalk
<1> QED
  BY <1>1, <1>2

\* A byte, bit by bit.
LEMMA MsgByteTalk ==
  ASSUME NEW v \in Byte, NEW D, NEW a,
         \A i \in 1 .. Width : \A y :
           Leads(Plain, PlainLow(y, D[i - 1], <<>>), MsgBit(Bit(v, i)),
                 PlainLow(Bit(v, i), D[i], <<>>))
  PROVE  /\ MsgSendByte(v) \in Seq(Ops)
         /\ Leads(Plain, PlainLow(a, D[0], <<>>), MsgSendByte(v),
                  PlainLow(Bit(v, Width), D[Width], <<>>))
<1> DEFINE ss == [i \in 1 .. Width |-> MsgBit(Bit(v, i))]
           at(i) == PlainLow(IF i = 0 THEN a ELSE Bit(v, i), D[i], <<>>)
           t == [i \in 0 .. Width |-> at(i)]
<1>1. Width \in Nat \ {0, 1}
  BY PowerFacts
<1>2. Len(ss) = Width /\ (Width = 0 => ss = <<>>) /\ \A i \in 1 .. Width : ss[i] \in Seq(Ops)
  <2>1. \A b : MsgBit(b) \in Seq(Ops)
    BY DEF MsgBit, Ops
  <2> QED
    BY <1>1, <2>1
<1>3. t[0] = at(0) /\ t[Width] = at(Width) /\ \A i \in 0 .. Width : t[i] = at(i)
  BY <1>1
<1>4. ASSUME NEW i \in 1 .. Width PROVE Leads(Plain, t[i - 1], ss[i], t[i])
  <2> DEFINE x == IF i - 1 = 0 THEN a ELSE Bit(v, i - 1)
  <2>1. i - 1 \in 0 .. Width /\ i \in 0 .. Width /\ i # 0
    BY <1>1
  <2>2. t[i - 1] = PlainLow(x, D[i - 1], <<>>) /\ t[i] = PlainLow(Bit(v, i), D[i], <<>>)
    BY <1>3, <2>1
  <2>3. ss[i] = MsgBit(Bit(v, i))
    OBVIOUS
  <2> HIDE DEF x, t, ss
  <2> QED
    BY <2>2, <2>3
<1>5. MsgSendByte(v) = FlattenSeq(ss)
  BY DEF MsgSendByte, MsgBit
<1> HIDE DEF ss, t
<1>6. Leads(Plain, t[0], FlattenSeq(ss), t[Width])
  BY <1>1, <1>2, <1>4, LeadsAll
<1>7. FlattenSeq(ss) \in Seq(Ops)
  BY <1>1, <1>2, FlattenType
<1> QED
  BY <1>1, <1>3, <1>5, <1>6, <1>7

\* A byte heard, or not, before its acknowledgement.
LEMMA MsgByteHeard ==
  ASSUME NEW v \in Byte, NEW a
  PROVE  /\ MsgSendByte(v) \in Seq(Ops)
         /\ \A st \in Ears : \A words, ptr, page :
              Leads(Plain, PlainLow(a, Dev(st, 0, 0, words, ptr, page), <<>>), MsgSendByte(v),
                    PlainLow(Bit(v, Width), Dev(st, Width, v, words, ptr, page), <<>>))
         /\ Leads(Plain, PlainLow(a, Idle, <<>>), MsgSendByte(v),
                  PlainLow(Bit(v, Width), Idle, <<>>))
<1>1. Width \in Nat \ {0, 1} /\ Width - 0 = Width /\ Width - Width = 0 /\ v \in Nat
  BY PowerFacts DEF Byte
<1>2. \A i \in 1 .. Width : Bit(v, i) \in {0, 1}
  BY <1>1, BitRange
<1>3. ASSUME NEW st \in Ears, NEW words, NEW ptr, NEW page
      PROVE  Leads(Plain, PlainLow(a, Dev(st, 0, 0, words, ptr, page), <<>>), MsgSendByte(v),
                   PlainLow(Bit(v, Width), Dev(st, Width, v, words, ptr, page), <<>>))
  <2> DEFINE sh(i) == v \div 2 ^ (Width - i)
             D == [i \in 0 .. Width |-> Dev(st, i, sh(i), words, ptr, page)]
  <2>1. /\ sh(0) = 0 /\ sh(Width) = v
        /\ \A i \in 1 .. Width : sh(i) = 2 * sh(i - 1) + Bit(v, i)
    <3>1. v \div 2 ^ Width = 0 /\ v \div 2 ^ 0 = v
      BY ByteBitsUp
    <3>2. \A i \in 1 .. Width :
            v \div 2 ^ (Width - i) = 2 * (v \div 2 ^ (Width - (i - 1))) + Bit(v, i)
      BY ByteBitsUp
    <3> QED
      BY <1>1, <3>1, <3>2
  <2>2. \A i \in 0 .. Width : D[i] = Dev(st, i, sh(i), words, ptr, page)
    OBVIOUS
  <2> HIDE DEF sh, D
  <2>3. ASSUME NEW i \in 1 .. Width, NEW y
        PROVE  Leads(Plain, PlainLow(y, D[i - 1], <<>>), MsgBit(Bit(v, i)),
                     PlainLow(Bit(v, i), D[i], <<>>))
    <3> DEFINE k == i - 1
               b == Bit(v, i)
    <3>1. k \in Nat /\ k < Width /\ k + 1 = i /\ k \in 0 .. Width /\ i \in 0 .. Width
      BY <1>1
    <3>2. D[k] = Dev(st, k, sh(k), words, ptr, page)
      BY <2>2, <3>1
    <3>3. D[i] = Dev(st, k + 1, 2 * sh(k) + b, words, ptr, page)
      BY <2>1, <2>2, <3>1
    <3>4. b \in {0, 1}
      BY <1>2
    <3> HIDE DEF k, b
    <3>5. Leads(Plain, PlainLow(y, Dev(st, k, sh(k), words, ptr, page), <<>>), MsgBit(b),
                PlainLow(b, Dev(st, k + 1, 2 * sh(k) + b, words, ptr, page), <<>>))
      BY <3>1, <3>4, MsgBitHeard
    <3>6. Leads(Plain, PlainLow(y, D[k], <<>>), MsgBit(b), PlainLow(b, D[i], <<>>))
      BY <3>2, <3>3, <3>5
    <3> QED
      BY <3>6 DEF k, b
  <2>4. Leads(Plain, PlainLow(a, D[0], <<>>), MsgSendByte(v),
              PlainLow(Bit(v, Width), D[Width], <<>>))
    BY <2>3, MsgByteTalk
  <2>5. D[0] = Dev(st, 0, 0, words, ptr, page) /\ D[Width] = Dev(st, Width, v, words, ptr, page)
    BY <1>1, <2>1, <2>2
  <2> QED
    BY <2>4, <2>5
<1>4. /\ MsgSendByte(v) \in Seq(Ops)
      /\ Leads(Plain, PlainLow(a, Idle, <<>>), MsgSendByte(v),
               PlainLow(Bit(v, Width), Idle, <<>>))
  <2> DEFINE D == [i \in 0 .. Width |-> Idle]
  <2>1. D[0] = Idle /\ D[Width] = Idle
    BY <1>1
  <2>2. ASSUME NEW i \in 1 .. Width, NEW y
        PROVE  Leads(Plain, PlainLow(y, D[i - 1], <<>>), MsgBit(Bit(v, i)),
                     PlainLow(Bit(v, i), D[i], <<>>))
    <3>1. D[i - 1] = Idle /\ D[i] = Idle /\ Bit(v, i) \in {0, 1}
      BY <1>1, <1>2
    <3> HIDE DEF D
    <3> QED
      BY <3>1, MsgBitHeard
  <2> HIDE DEF D
  <2>3. /\ MsgSendByte(v) \in Seq(Ops)
        /\ Leads(Plain, PlainLow(a, D[0], <<>>), MsgSendByte(v),
                 PlainLow(Bit(v, Width), D[Width], <<>>))
    BY <2>2, MsgByteTalk
  <2> QED
    BY <2>1, <2>3
<1> QED
  BY <1>3, <1>4

\* A device that is not called: there is no acknowledgement.
LEMMA MsgMissed ==
  ASSUME NEW v \in Byte, NEW a, NEW d,
         \/ d = Idle
         \/ \E words, ptr, page : d = Dev("addr", 0, 0, words, ptr, page) /\ v \div 2 # TargetAddr
  PROVE  Leads(Plain, PlainLow(a, d, <<>>), MsgSendByte(v) \o MsgReceiveAck, Gone)
<1>1. PICK f : /\ Leads(Plain, PlainLow(a, d, <<>>), MsgSendByte(v),
                        PlainLow(Bit(v, Width), f, <<>>))
               /\ Out(f, <<>>) = 1 /\ AtEdge(f, 1).st = "idle"
  <2>1. CASE d = Idle
    <3>1. Leads(Plain, PlainLow(a, Idle, <<>>), MsgSendByte(v),
                PlainLow(Bit(v, Width), Idle, <<>>))
      BY MsgByteHeard
    <3>2. Idle.st = "idle"
      BY DEF Idle
    <3>3. Out(Idle, <<>>) = 1 /\ AtEdge(Idle, 1) = Idle
      BY <3>2 DEF Out, AtEdge, Hears
    <3> QED
      BY <2>1, <3>1, <3>2, <3>3
  <2>2. CASE \E words, ptr, page :
               d = Dev("addr", 0, 0, words, ptr, page) /\ v \div 2 # TargetAddr
    <3>1. PICK words, ptr, page :
            d = Dev("addr", 0, 0, words, ptr, page) /\ v \div 2 # TargetAddr
      BY <2>2
    <3> DEFINE f == Dev("addr", Width, v, words, ptr, page)
    <3>2. "addr" \in Ears
      BY DEF Ears
    <3>3. Leads(Plain, PlainLow(a, d, <<>>), MsgSendByte(v), PlainLow(Bit(v, Width), f, <<>>))
      BY <3>1, <3>2, MsgByteHeard
    <3>4. f.st = "addr" /\ f.n = Width /\ f.sh = v
      BY DevFields
    <3>5. ToState(f, "idle").st = "idle"
      <4>1. ToState(f, "idle") = Dev("idle", Width, v, words, ptr, page)
        BY DevChanges
      <4> QED
        BY <4>1, DevFields
    <3> HIDE DEF f
    <3>6. Out(f, <<>>) = 1
      BY <3>1, <3>4 DEF Out, Hears
    <3>7. AtEdge(f, 1) = ToState(f, "idle")
      BY <3>1, <3>4, PowerFacts DEF AtEdge, ByteTaken, Hears, ToState
    <3> QED
      BY <3>3, <3>5, <3>6, <3>7
  <2> QED
    BY <2>1, <2>2
<1> DEFINE h == AtEdge(f, 1)
<1>2. h.st = "idle" /\ h = AtEdge(f, 1)
  BY <1>1
<1> HIDE DEF h
<1>3. /\ MsgReceiveAck \in Seq(Ops)
      /\ Leads(Plain, PlainLow(Bit(v, Width), f, <<>>), MsgReceiveAck, Gone)
  BY <1>1, <1>2, MsgAckTalk
<1>4. MsgSendByte(v) \in Seq(Ops)
  BY MsgByteHeard
<1> QED
  BY <1>1, <1>3, <1>4, LeadsThen

\* A byte that is heard and acknowledged.
LEMMA MsgTaken ==
  ASSUME NEW v \in Byte, NEW a, NEW st \in Ears, st = "addr" => v \div 2 = TargetAddr,
         NEW words, NEW ptr, NEW page,
         NEW h, h = AtEdge(Dev(st, Width, v, words, ptr, page), 0)
  PROVE  /\ h.st \notin {"read", "idle"} =>
              Leads(Plain, PlainLow(a, Dev(st, 0, 0, words, ptr, page), <<>>),
                    MsgSendByte(v) \o MsgReceiveAck, PlainLow(1, Fallen(h), <<>>))
         /\ h.st = "read" =>
              Leads(Plain, PlainLow(a, Dev(st, 0, 0, words, ptr, page), <<>>),
                    MsgSendByte(v) \o MsgReceiveAck, Asked)
<1> DEFINE d == Dev(st, 0, 0, words, ptr, page)
           f == Dev(st, Width, v, words, ptr, page)
<1>1. Leads(Plain, PlainLow(a, d, <<>>), MsgSendByte(v), PlainLow(Bit(v, Width), f, <<>>))
  BY MsgByteHeard
<1>2. Out(f, <<>>) = 0
  <2>1. st \in {"word", "data"} \/ st = "addr"
    BY DEF Ears
  <2> QED
    BY <2>1, OutDevs
<1>3. MsgSendByte(v) \in Seq(Ops)
  BY MsgByteHeard
<1> HIDE DEF d, f
<1>4. /\ MsgReceiveAck \in Seq(Ops)
      /\ h.st \notin {"read", "idle"} =>
           Leads(Plain, PlainLow(Bit(v, Width), f, <<>>), MsgReceiveAck,
                 PlainLow(1, Fallen(h), <<>>))
      /\ h.st = "read" =>
           Leads(Plain, PlainLow(Bit(v, Width), f, <<>>), MsgReceiveAck, Asked)
  BY <1>2, MsgAckTalk DEF f
<1> QED
  BY <1>1, <1>3, <1>4, LeadsThen DEF d

\* The address is sent: the device answers only when it is its own and to be written.
LEMMA MsgCalled ==
  ASSUME NEW dest \in Nat, dest < 2 ^ (Width - 1), NEW read \in BOOLEAN, NEW a, NEW d,
         d = Idle \/ \E words, ptr : d = Dev("addr", 0, 0, words, ptr, <<>>)
  PROVE  /\ MsgSendAddress(dest, read) \in Seq(Ops)
         /\ \E u : /\ Leads(Plain, PlainLow(a, d, <<>>), MsgSendAddress(dest, read), u)
                   /\ \/ u = Gone \/ (read /\ u = Asked)
                      \/ ~read /\ u = PlainLow(1, Dev("word", 0, 0, 0, 0, <<>>), <<>>)
<1> DEFINE r == IF read THEN 1 ELSE 0
           v == 2 * dest + r
<1>1. v \in Byte /\ v \div 2 = dest /\ v % 2 = r
  <2> DEFINE half == 2 ^ (Width - 1)
             full == 2 ^ Width
  <2>1. dest < half /\ half \in Nat
    <3>1. Width - 1 \in 0 .. Width /\ half \in Nat
      BY PowerFacts
    <3> QED
      BY <3>1
  <2>2. full = 2 * half
    <3>1. Width - 1 \in 0 .. Width - 1 /\ (Width - 1) + 1 = Width
      BY PowerFacts
    <3> QED
      BY <3>1, PowerFacts
  <2>3. r \in 0 .. 1 /\ 2 \in Nat \ {0}
    OBVIOUS
  <2>4. Byte = 0 .. full - 1
    BY DEF Byte
  <2> HIDE DEF half, full, r
  <2>5. v \in Byte
    BY <2>1, <2>2, <2>3, <2>4
  <2>6. Divides(dest, 2, r)
    BY <2>3, QuotientOf
  <2>7. v = dest * 2 + r
    BY <2>3
  <2> QED
    BY <2>5, <2>6, <2>7 DEF Divides
<1>2. r = 1 <=> read
  OBVIOUS
<1>3. MsgSendAddress(dest, read) = MsgSendByte(v) \o MsgReceiveAck
  BY DEF MsgSendAddress
<1> HIDE DEF v, r
<1>4. MsgSendAddress(dest, read) \in Seq(Ops)
  <2>1. MsgSendByte(v) \in Seq(Ops)
    BY <1>1, MsgByteHeard
  <2>2. MsgReceiveAck \in Seq(Ops)
    BY DEF MsgReceiveAck, Ops
  <2> QED
    BY <1>3, <2>1, <2>2, ConcatProperties
<1>5. CASE d = Idle \/ v \div 2 # TargetAddr
  <2>1. Leads(Plain, PlainLow(a, d, <<>>), MsgSendByte(v) \o MsgReceiveAck, Gone)
    BY <1>1, <1>5, MsgMissed
  <2> QED
    BY <1>3, <1>4, <2>1
<1>6. CASE d # Idle /\ v \div 2 = TargetAddr
  <2>1. PICK words, ptr : d = Dev("addr", 0, 0, words, ptr, <<>>)
    BY <1>6
  <2> DEFINE none == <<>>
             h == AtEdge(Dev("addr", Width, v, words, ptr, none), 0)
  <2>2. "addr" \in Ears
    BY DEF Ears
  <2> HIDE DEF none
  <2>3. /\ read => h = Dev("read", Width + 1, 0, words, ptr, none)
        /\ ~read => h = Dev("word", Width + 1, 0, 0, 0, none)
    BY <1>1, <1>2, <1>6, <2>2, EdgeAck
  <2>4. /\ read => h.st = "read"
        /\ ~read => h.st \notin {"read", "idle"} /\ Fallen(h) = Dev("word", 0, 0, 0, 0, none)
    <3>1. Dev("read", Width + 1, 0, words, ptr, none).st = "read"
      BY DevFields
    <3>2. /\ Dev("word", Width + 1, 0, 0, 0, none).st = "word"
          /\ Fallen(Dev("word", Width + 1, 0, 0, 0, none)) = Dev("word", 0, 0, 0, 0, none)
      BY DevFields, FallDevs
    <3> HIDE DEF h
    <3> QED
      BY <2>3, <3>1, <3>2
  <2> HIDE DEF h
  <2>5. /\ h.st \notin {"read", "idle"} =>
             Leads(Plain, PlainLow(a, Dev("addr", 0, 0, words, ptr, none), <<>>),
                   MsgSendByte(v) \o MsgReceiveAck, PlainLow(1, Fallen(h), <<>>))
        /\ h.st = "read" =>
             Leads(Plain, PlainLow(a, Dev("addr", 0, 0, words, ptr, none), <<>>),
                   MsgSendByte(v) \o MsgReceiveAck, Asked)
    BY <1>1, <1>6, <2>2, MsgTaken DEF h
  <2>6. d = Dev("addr", 0, 0, words, ptr, none)
    BY <2>1 DEF none
  <2>7. CASE read
    <3>1. Leads(Plain, PlainLow(a, d, <<>>), MsgSendAddress(dest, read), Asked)
      BY <1>3, <2>4, <2>5, <2>6, <2>7
    <3> QED
      BY <1>4, <2>7, <3>1
  <2>8. CASE ~read
    <3> DEFINE u == PlainLow(1, Dev("word", 0, 0, 0, 0, none), <<>>)
    <3>1. Leads(Plain, PlainLow(a, d, <<>>), MsgSendAddress(dest, read), u)
      BY <1>3, <2>4, <2>5, <2>6, <2>8
    <3>2. u = PlainLow(1, Dev("word", 0, 0, 0, 0, <<>>), <<>>)
      BY DEF none
    <3> HIDE DEF u
    <3> QED
      BY <1>4, <2>8, <3>1, <3>2
  <2> QED
    BY <2>7, <2>8
<1> QED
  BY <1>5, <1>6

\* A byte of the memory address, and one of the data.
LEMMA MsgHeard ==
  ASSUME NEW v \in Byte, NEW words, NEW ptr, NEW page
  PROVE  /\ MsgSendByte(v) \o MsgReceiveAck \in Seq(Ops)
         /\ Leads(Plain, PlainLow(1, Dev("word", 0, 0, words, ptr, page), <<>>),
                  MsgSendByte(v) \o MsgReceiveAck,
                  PlainLow(1, Dev(IF words + 1 = AddressWidth THEN "data" ELSE "word", 0, 0,
                                  words + 1, (ptr * 2 ^ Width + v) % Cells, page), <<>>))
         /\ Leads(Plain, PlainLow(1, Dev("data", 0, 0, words, ptr, page), <<>>),
                  MsgSendByte(v) \o MsgReceiveAck,
                  PlainLow(1, Dev("data", 0, 0, words, ptr, Append(page, v)), <<>>))
<1>1. "word" \in Ears /\ "data" \in Ears
  BY DEF Ears
<1>2. MsgSendByte(v) \o MsgReceiveAck \in Seq(Ops)
  <2>1. MsgSendByte(v) \in Seq(Ops)
    BY MsgByteHeard
  <2>2. MsgReceiveAck \in Seq(Ops)
    BY DEF MsgReceiveAck, Ops
  <2> QED
    BY <2>1, <2>2, ConcatProperties
<1>3. Leads(Plain, PlainLow(1, Dev("word", 0, 0, words, ptr, page), <<>>),
            MsgSendByte(v) \o MsgReceiveAck,
            PlainLow(1, Dev(IF words + 1 = AddressWidth THEN "data" ELSE "word", 0, 0,
                            words + 1, (ptr * 2 ^ Width + v) % Cells, page), <<>>))
  <2> DEFINE k == IF words + 1 = AddressWidth THEN "data" ELSE "word"
             c == words + 1
             p == (ptr * 2 ^ Width + v) % Cells
             h == AtEdge(Dev("word", Width, v, words, ptr, page), 0)
             e == Dev(k, 0, 0, c, p, page)
  <2>1. h = Dev(k, Width + 1, 0, c, p, page)
    BY <1>1, EdgeAck
  <2>2. k \notin {"read", "idle"}
    OBVIOUS
  <2> HIDE DEF k, c, p
  <2>3. h.st = k /\ Fallen(h) = e
    <3>1. Dev(k, Width + 1, 0, c, p, page).st = k
      BY DevFields
    <3>2. Fallen(Dev(k, Width + 1, 0, c, p, page)) = e
      BY FallDevs
    <3> HIDE DEF h, e
    <3> QED
      BY <2>1, <3>1, <3>2
  <2> HIDE DEF h, e
  <2>4. Leads(Plain, PlainLow(1, Dev("word", 0, 0, words, ptr, page), <<>>),
              MsgSendByte(v) \o MsgReceiveAck, PlainLow(1, Fallen(h), <<>>))
    BY <1>1, <2>2, <2>3, MsgTaken DEF h
  <2>5. Leads(Plain, PlainLow(1, Dev("word", 0, 0, words, ptr, page), <<>>),
              MsgSendByte(v) \o MsgReceiveAck, PlainLow(1, e, <<>>))
    BY <2>3, <2>4
  <2> QED
    BY <2>5 DEF e, k, c, p
<1>4. Leads(Plain, PlainLow(1, Dev("data", 0, 0, words, ptr, page), <<>>),
            MsgSendByte(v) \o MsgReceiveAck,
            PlainLow(1, Dev("data", 0, 0, words, ptr, Append(page, v)), <<>>))
  <2> DEFINE q == Append(page, v)
             h == AtEdge(Dev("data", Width, v, words, ptr, page), 0)
             e == Dev("data", 0, 0, words, ptr, q)
  <2>1. h = Dev("data", Width + 1, 0, words, ptr, q)
    BY <1>1, EdgeAck
  <2> HIDE DEF q
  <2>2. h.st = "data" /\ Fallen(h) = e
    <3>1. Dev("data", Width + 1, 0, words, ptr, q).st = "data"
      BY DevFields
    <3>2. Fallen(Dev("data", Width + 1, 0, words, ptr, q)) = e
      BY FallDevs
    <3> HIDE DEF h, e
    <3> QED
      BY <2>1, <3>1, <3>2
  <2> HIDE DEF h, e
  <2>3. Leads(Plain, PlainLow(1, Dev("data", 0, 0, words, ptr, page), <<>>),
              MsgSendByte(v) \o MsgReceiveAck, PlainLow(1, Fallen(h), <<>>))
    BY <1>1, <2>2, MsgTaken DEF h
  <2>4. Leads(Plain, PlainLow(1, Dev("data", 0, 0, words, ptr, page), <<>>),
              MsgSendByte(v) \o MsgReceiveAck, PlainLow(1, e, <<>>))
    BY <2>2, <2>3
  <2> QED
    BY <2>4 DEF e, q
<1> QED
  BY <1>2, <1>3, <1>4

\* What a message carries: the data, and where the device puts them.
Payload(buf) == SubSeq(buf, AddressWidth + 1, Len(buf))
FirstWord(buf) == (0 * 2 ^ Width + buf[1]) % Cells
Pointer(buf) ==
  IF AddressWidth = 1 THEN FirstWord(buf) ELSE (FirstWord(buf) * 2 ^ Width + buf[2]) % Cells

\* The device on its way through a message: i bytes of it are taken.
Heeding(buf, i) ==
  IF i < AddressWidth
  THEN (IF i = 0 THEN Dev("word", 0, 0, 0, 0, <<>>)
        ELSE Dev("word", 0, 0, 1, FirstWord(buf), <<>>))
  ELSE Dev("data", 0, 0, AddressWidth, Pointer(buf), Upto(Payload(buf), i - AddressWidth))

\* The data of a message.
LEMMA PayloadBytes ==
  ASSUME NEW buf \in Seq(Byte)
  PROVE  /\ Payload(buf) \in Seq(Byte)
         /\ Len(buf) > AddressWidth => Len(Payload(buf)) = Len(buf) - AddressWidth
         /\ Len(buf) <= AddressWidth => Payload(buf) = <<>>
         /\ \A j \in 1 .. Len(buf) : j > AddressWidth =>
              j - AddressWidth \in 1 .. Len(Payload(buf))
              /\ Payload(buf)[j - AddressWidth] = buf[j]
<1>1. AddressWidth \in {1, 2}
  BY BusAssumption
<1>2. Payload(buf) = [i \in 1 .. (Len(buf) - AddressWidth) |-> buf[i + AddressWidth]]
  BY <1>1 DEF Payload
<1>3. CASE Len(buf) > AddressWidth
  <2> DEFINE n == Len(buf) - AddressWidth
  <2>1. n \in Nat \ {0} /\ Len(buf) = n + AddressWidth
    BY <1>1, <1>3
  <2>2. \A i \in 1 .. n : buf[i + AddressWidth] \in Byte
    <3>1. ASSUME NEW i \in 1 .. n
          PROVE  buf[i + AddressWidth] \in Byte
      <4>1. i + AddressWidth \in 1 .. Len(buf)
        <5> HIDE DEF n
        <5> QED
          BY <1>1, <2>1
      <4> QED
        BY <4>1
    <3> QED
      BY <3>1
  <2> HIDE DEF n
  <2>3. Payload(buf) = [i \in 1 .. n |-> buf[i + AddressWidth]]
    BY <1>2 DEF n
  <2>4. Payload(buf) \in Seq(Byte) /\ Len(Payload(buf)) = n
    BY <2>1, <2>2, <2>3
  <2>5. ASSUME NEW j \in 1 .. Len(buf), j > AddressWidth
        PROVE  /\ j - AddressWidth \in 1 .. Len(Payload(buf))
               /\ Payload(buf)[j - AddressWidth] = buf[j]
    <3> DEFINE i == j - AddressWidth
    <3>1. i \in 1 .. n /\ i + AddressWidth = j
      BY <1>1, <2>1, <2>5
    <3> HIDE DEF i
    <3>2. Payload(buf)[i] = buf[j] /\ i \in 1 .. Len(Payload(buf))
      BY <2>3, <2>4, <3>1
    <3> QED
      BY <3>2 DEF i
  <2>6. ~(Len(buf) <= AddressWidth)
    BY <1>1, <1>3
  <2>7. Len(Payload(buf)) = Len(buf) - AddressWidth
    BY <2>4 DEF n
  <2> QED
    BY <2>4, <2>5, <2>6, <2>7
<1>4. CASE Len(buf) <= AddressWidth
  <2>1. 1 .. (Len(buf) - AddressWidth) = {}
    BY <1>1, <1>4
  <2>2. Payload(buf) = <<>>
    BY <1>2, <2>1
  <2>3. \A j \in 1 .. Len(buf) : ~(j > AddressWidth)
    BY <1>1, <1>4
  <2>4. ~(Len(buf) > AddressWidth)
    BY <1>1, <1>4
  <2> QED
    BY <2>2, <2>3, <2>4
<1> QED
  BY <1>1, <1>3, <1>4

\* The device takes one byte more of a message.
LEMMA HeedingTalk ==
  ASSUME NEW buf \in Seq(Byte), NEW i \in 1 .. Len(buf)
  PROVE  /\ MsgSendByte(buf[i]) \o MsgReceiveAck \in Seq(Ops)
         /\ Leads(Plain, PlainLow(1, Heeding(buf, i - 1), <<>>),
                  MsgSendByte(buf[i]) \o MsgReceiveAck, PlainLow(1, Heeding(buf, i), <<>>))
<1> DEFINE one == FirstWord(buf)
           two == Pointer(buf)
           data == Payload(buf)
<1>1. AddressWidth \in {1, 2} /\ i \in Nat /\ buf[i] \in Byte
  BY BusAssumption
<1>2. data \in Seq(Byte) /\ Upto(data, 0) = <<>>
  BY PayloadBytes, UptoGrows
<1>3. /\ (0 * 2 ^ Width + buf[1]) % Cells = one
      /\ AddressWidth = 1 => two = one
      /\ AddressWidth = 2 => two = (one * 2 ^ Width + buf[2]) % Cells
  BY DEF FirstWord, Pointer
<1>4. MsgSendByte(buf[i]) \o MsgReceiveAck \in Seq(Ops)
  BY <1>1, MsgHeard
<1>5. CASE i = 1
  <2> DEFINE none == <<>>
             b == buf[1]
             e == Dev(IF 0 + 1 = AddressWidth THEN "data" ELSE "word", 0, 0, 0 + 1,
                      (0 * 2 ^ Width + b) % Cells, none)
             s == PlainLow(1, Dev("word", 0, 0, 0, 0, none), <<>>)
             t == PlainLow(1, e, <<>>)
  <2>1. Heeding(buf, i - 1) = Dev("word", 0, 0, 0, 0, none)
    BY <1>1, <1>5 DEF Heeding
  <2>2. Heeding(buf, i) = e
    <3>1. CASE AddressWidth = 1
      <4>1. i - AddressWidth = 0 /\ ~(i < AddressWidth) /\ 0 + 1 = AddressWidth
        BY <1>5, <3>1
      <4>2. e = Dev("data", 0, 0, AddressWidth, one, none)
        BY <1>3, <4>1
      <4> HIDE DEF e, one, two, data
      <4> QED
        BY <1>2, <1>3, <3>1, <4>1, <4>2 DEF Heeding, two, data
    <3>2. CASE AddressWidth = 2
      <4>1. i < AddressWidth /\ i # 0 /\ 0 + 1 # AddressWidth /\ 0 + 1 = 1
        BY <1>5, <3>2
      <4>2. e = Dev("word", 0, 0, 1, one, none)
        BY <1>3, <4>1
      <4> HIDE DEF e
      <4> QED
        BY <4>1, <4>2 DEF Heeding
    <3> QED
      BY <1>1, <3>1, <3>2
  <2>3. b \in Byte
    BY <1>1, <1>5
  <2> HIDE DEF none, b
  <2>4. Leads(Plain, s, MsgSendByte(b) \o MsgReceiveAck, t)
    BY <2>3, MsgHeard
  <2>5. /\ PlainLow(1, Heeding(buf, i - 1), <<>>) = s /\ PlainLow(1, Heeding(buf, i), <<>>) = t
        /\ buf[i] = b
    BY <1>5, <2>1, <2>2 DEF b
  <2> HIDE DEF s, t
  <2> QED
    BY <1>4, <2>4, <2>5
<1>6. CASE i = 2 /\ AddressWidth = 2
  <2> DEFINE none == <<>>
             b == buf[2]
             e == Dev(IF 1 + 1 = AddressWidth THEN "data" ELSE "word", 0, 0, 1 + 1,
                      (one * 2 ^ Width + b) % Cells, none)
             s == PlainLow(1, Dev("word", 0, 0, 1, one, none), <<>>)
             t == PlainLow(1, e, <<>>)
  <2>1. Heeding(buf, i - 1) = Dev("word", 0, 0, 1, one, none)
    BY <1>6 DEF Heeding
  <2>2. Heeding(buf, i) = e
    <3>1. i - AddressWidth = 0 /\ ~(i < AddressWidth) /\ 1 + 1 = AddressWidth
      BY <1>6
    <3>2. e = Dev("data", 0, 0, AddressWidth, two, none)
      <4> HIDE DEF one, two
      <4> QED
        BY <1>3, <1>6, <3>1
    <3> HIDE DEF e
    <3> QED
      BY <1>2, <3>1, <3>2 DEF Heeding
  <2>3. b \in Byte
    BY <1>1, <1>6
  <2> HIDE DEF none, b, one
  <2>4. Leads(Plain, s, MsgSendByte(b) \o MsgReceiveAck, t)
    BY <2>3, MsgHeard
  <2>5. /\ PlainLow(1, Heeding(buf, i - 1), <<>>) = s /\ PlainLow(1, Heeding(buf, i), <<>>) = t
        /\ buf[i] = b
    BY <1>6, <2>1, <2>2 DEF b
  <2> HIDE DEF s, t
  <2> QED
    BY <1>4, <2>4, <2>5
<1>7. CASE i > AddressWidth
  <2> DEFINE j == i - AddressWidth
             f == Upto(data, j - 1)
             b == data[j]
             e == Dev("data", 0, 0, AddressWidth, two, Append(f, b))
             s == PlainLow(1, Dev("data", 0, 0, AddressWidth, two, f), <<>>)
             t == PlainLow(1, e, <<>>)
  <2>1. /\ j \in Nat \ {0} /\ i - 1 - AddressWidth = j - 1 /\ ~(i - 1 < AddressWidth)
        /\ ~(i < AddressWidth)
    BY <1>1, <1>7
  <2>2. b = buf[i] /\ b \in Byte
    BY <1>1, <1>7, PayloadBytes
  <2>3. Append(f, b) = Upto(data, j)
    BY <1>2, <2>1, UptoGrows
  <2>4. Heeding(buf, i - 1) = Dev("data", 0, 0, AddressWidth, two, f)
    BY <2>1 DEF Heeding
  <2>5. Heeding(buf, i) = e
    BY <2>1, <2>3 DEF Heeding
  <2> HIDE DEF two, data, f, b
  <2>6. Leads(Plain, s, MsgSendByte(b) \o MsgReceiveAck, t)
    BY <2>2, MsgHeard
  <2>7. PlainLow(1, Heeding(buf, i - 1), <<>>) = s /\ PlainLow(1, Heeding(buf, i), <<>>) = t
    BY <2>4, <2>5
  <2> HIDE DEF s, t
  <2> QED
    BY <1>4, <2>2, <2>6, <2>7
<1> QED
  BY <1>1, <1>5, <1>6, <1>7

\* All of a message.
LEMMA MsgWriteTalk ==
  ASSUME NEW m \in Msgs
  PROVE  /\ MsgWrite(m) \in Seq(Ops)
         /\ Leads(Plain, PlainLow(1, Heeding(m.buf, 0), <<>>), MsgWrite(m),
                  PlainLow(1, Heeding(m.buf, Len(m.buf)), <<>>))
<1> DEFINE buf == m.buf
           n == Len(buf)
           ss == [i \in 1 .. n |-> MsgSendByte(buf[i]) \o MsgReceiveAck]
           v == [i \in 0 .. n |-> PlainLow(1, Heeding(buf, i), <<>>)]
<1>1. buf \in Seq(Byte) /\ n \in Nat
  BY DEF Msgs
<1>2. MsgWrite(m) = FlattenSeq(ss)
  BY DEF MsgWrite
<1>3. Len(ss) = n /\ (n = 0 => ss = <<>>)
  BY <1>1
<1>4. ASSUME NEW i \in 1 .. n
      PROVE  ss[i] \in Seq(Ops) /\ Leads(Plain, v[i - 1], ss[i], v[i])
  <2>1. i - 1 \in 0 .. n /\ i \in 0 .. n
    BY <1>1
  <2>2. ss[i] = MsgSendByte(buf[i]) \o MsgReceiveAck
    OBVIOUS
  <2>3. /\ v[i - 1] = PlainLow(1, Heeding(buf, i - 1), <<>>)
        /\ v[i] = PlainLow(1, Heeding(buf, i), <<>>)
    BY <2>1
  <2> HIDE DEF v, ss, buf
  <2> QED
    BY <1>1, <2>2, <2>3, HeedingTalk DEF n
<1>5. v[0] = PlainLow(1, Heeding(buf, 0), <<>>) /\ v[n] = PlainLow(1, Heeding(buf, n), <<>>)
  BY <1>1
<1> HIDE DEF ss, v, n
<1>6. Leads(Plain, v[0], FlattenSeq(ss), v[n]) /\ FlattenSeq(ss) \in Seq(Ops)
  BY <1>1, <1>3, <1>4, LeadsAll, FlattenType
<1> QED
  BY <1>2, <1>5, <1>6 DEF n

\* The device at the end of a message, when SCL rises once more with SDA pulled low.
LEMMA HeedingEnd ==
  ASSUME NEW buf \in Seq(Byte)
  PROVE  LET e == Heeding(buf, Len(buf))
             h == AtEdge(e, 0)
         IN /\ Out(e, <<>>) = 1 /\ h.st \in {"word", "data"} /\ h.busy = FALSE
            /\ h.page = Payload(buf) /\ (Payload(buf) # <<>> => h.ptr = Pointer(buf))
<1>1. /\ AddressWidth \in {1, 2} /\ Len(buf) \in Nat /\ Payload(buf) \in Seq(Byte)
      /\ "word" \in Ears /\ "data" \in Ears
  BY BusAssumption, PayloadBytes DEF Ears
<1> DEFINE e == Heeding(buf, Len(buf))
           h == AtEdge(e, 0)
           none == <<>>
<1>2. CASE Len(buf) < AddressWidth
  <2>1. Payload(buf) = <<>>
    BY <1>1, <1>2, PayloadBytes
  <2> DEFINE page == <<>>
  <2>2. \E w, p : e = Dev("word", 0, 0, w, p, page)
    BY <1>2 DEF Heeding
  <2> HIDE DEF e, page
  <2>3. PICK w, p : e = Dev("word", 0, 0, w, p, page)
    BY <2>2
  <2> HIDE DEF h, none
  <2>4. h = Dev("word", 1, 0, w, p, page) /\ Out(e, none) = 1
    BY <1>1, <2>3, EdgeCut DEF h
  <2>5. h.st = "word" /\ h.busy = NotBusy /\ h.page = page
    BY <2>4, DevFields
  <2> QED
    BY <2>1, <2>4, <2>5 DEF e, h, none, page, NotBusy
<1>3. CASE ~(Len(buf) < AddressWidth)
  <2> DEFINE n == Len(buf) - AddressWidth
             page == Upto(Payload(buf), n)
  <2>1. page = Payload(buf)
    <3>1. CASE n = 0
      <4>1. Len(buf) <= AddressWidth
        BY <1>1, <3>1
      <4>2. Payload(buf) = <<>>
        BY <4>1, PayloadBytes
      <4> QED
        BY <1>1, <3>1, <4>2, UptoGrows
    <3>2. CASE n # 0
      <4>1. Len(buf) > AddressWidth
        BY <1>1, <1>3, <3>2
      <4>2. n = Len(Payload(buf))
        BY <4>1, PayloadBytes
      <4> QED
        BY <1>1, <4>2, UptoGrows
    <3> QED
      BY <3>1, <3>2
  <2>2. e = Dev("data", 0, 0, AddressWidth, Pointer(buf), page)
    BY <1>3 DEF Heeding
  <2> HIDE DEF page, e
  <2> HIDE DEF h, none
  <2>3. h = Dev("data", 1, 0, AddressWidth, Pointer(buf), page) /\ Out(e, none) = 1
    BY <1>1, <2>2, EdgeCut DEF h
  <2>4. h.st = "data" /\ h.busy = NotBusy /\ h.page = page /\ h.ptr = Pointer(buf)
    BY <2>3, DevFields
  <2> QED
    BY <2>1, <2>3, <2>4 DEF e, h, none, NotBusy
<1> QED
  BY <1>2, <1>3

\* A message of lab 13 after its START, and before the edge that makes its STOP.
MsgBody(m) == IF m.read THEN <<"unsupported">> ELSE MsgWrite(m)
MsgTail(m) == IF m.stop THEN <<"sda0", "scl1">> ELSE <<>>
MsgRest(dest, m) ==
  <<"scl0">> \o (MsgSendAddress(dest, m.read) \o (MsgBody(m) \o MsgTail(m)))

\* What it leads to when nothing is refused.
MsgEndView(m) ==
  IF m.stop THEN Talk(0, 1, 1, 0, AtEdge(Heeding(m.buf, Len(m.buf)), 0), <<>>, <<>>)
  ELSE PlainLow(1, Heeding(m.buf, Len(m.buf)), <<>>)

\* Its last operations.
LEMMA MsgTailTalk ==
  ASSUME NEW m \in Msgs
  PROVE  /\ MsgTail(m) \in Seq(Ops)
         /\ Leads(Plain, PlainLow(1, Heeding(m.buf, Len(m.buf)), <<>>), MsgTail(m), MsgEndView(m))
<1> DEFINE e == Heeding(m.buf, Len(m.buf))
           h == AtEdge(e, 0)
           none == <<>>
           s0 == Talk(1, 0, 1, 0, e, none, none)
           s1 == Talk(0, 0, 1, 0, e, none, none)
           s2 == Talk(0, 1, 1, 0, h, none, none)
<1>1. m.buf \in Seq(Byte)
  BY DEF Msgs
<1>2. Out(e, <<>>) = 1 /\ h.st \in {"word", "data"}
  BY <1>1, HeedingEnd
<1>3. {"sda0", "scl1"} \subseteq Ops
  BY DEF Ops
<1>4. CASE m.stop
  <2>1. MsgTail(m) = <<"sda0", "scl1">> /\ MsgEndView(m) = s2
    BY <1>4 DEF MsgTail, MsgEndView
  <2>2. PlainLow(1, e, <<>>) = s0
    BY <1>2 DEF PlainLow
  <2> HIDE DEF none, e
  <2>3. Move(Plain, "sda0", s0, s1)
    BY PlainMoves
  <2>4. Move(Plain, "scl1", s1, s2)
    <3>1. Wired(0, 1) = 0
      BY DEF Wired
    <3>2. Seen(h) = h /\ h.st # "read"
      BY <1>2 DEF Seen
    <3> HIDE DEF h
    <3>3. h = AtEdge(e, Wired(0, 1))
      BY <3>1 DEF h
    <3> QED
      BY <3>2, <3>3, PlainMoves
  <2> HIDE DEF s0, s1, s2
  <2>5. Leads(Plain, s0, <<"sda0", "scl1">>, s2)
    BY <1>3, <2>3, <2>4, LeadsTwo
  <2>6. <<"sda0", "scl1">> \in Seq(Ops)
    BY <1>3
  <2> QED
    BY <2>1, <2>2, <2>5, <2>6 DEF e
<1>5. CASE ~m.stop
  <2>1. MsgTail(m) = <<>> /\ MsgEndView(m) = PlainLow(1, e, <<>>)
    BY <1>5 DEF MsgTail, MsgEndView
  <2>2. <<>> \in Seq(Ops)
    OBVIOUS
  <2> HIDE DEF e
  <2> QED
    BY <2>1, <2>2, LeadsNone DEF e
<1> QED
  BY <1>4, <1>5

\* A message after its START: something is refused, or all of it is taken.
LEMMA MsgRestTalk ==
  ASSUME NEW dest \in Nat, dest < 2 ^ (Width - 1), NEW m \in Msgs, NEW d,
         d = Idle \/ \E words, ptr : d = Dev("addr", 0, 0, words, ptr, <<>>)
  PROVE  /\ MsgRest(dest, m) \in Seq(Ops)
         /\ \E u \in {Gone, MsgEndView(m)} :
              Leads(Plain, Talk(0, 1, 1, 0, d, <<>>, <<>>), MsgRest(dest, m), u)
<1> DEFINE none == <<>>
           s == Talk(0, 1, 1, 0, d, none, none)
           low == PlainLow(0, d, <<>>)
           a == MsgSendAddress(dest, m.read)
           bt == MsgBody(m) \o MsgTail(m)
           opened == PlainLow(1, Heeding(m.buf, 0), <<>>)
           full == PlainLow(1, Heeding(m.buf, Len(m.buf)), <<>>)
<1>1. m.read \in BOOLEAN /\ MsgTail(m) \in Seq(Ops) /\ Leads(Plain, full, MsgTail(m), MsgEndView(m))
  BY MsgTailTalk DEF Msgs
<1>2. MsgBody(m) \in Seq(Ops)
  <2>1. <<"unsupported">> \in Seq(Ops)
    BY DEF Ops
  <2> QED
    BY <2>1, MsgWriteTalk DEF MsgBody
<1>3. bt \in Seq(Ops)
  <2>1. MsgBody(m) \o MsgTail(m) \in Seq(Ops)
    BY <1>1, <1>2, ConcatProperties
  <2> QED
    BY <2>1
<1>4. /\ a \in Seq(Ops)
      /\ \E u : /\ Leads(Plain, low, a, u)
                /\ \/ u = Gone \/ (m.read /\ u = Asked)
                   \/ ~m.read /\ u = PlainLow(1, Dev("word", 0, 0, 0, 0, <<>>), <<>>)
  BY <1>1, MsgCalled
<1>5. opened = PlainLow(1, Dev("word", 0, 0, 0, 0, <<>>), <<>>)
  <2>1. 0 < AddressWidth
    BY BusAssumption
  <2> QED
    BY <2>1 DEF Heeding
<1>6. ~m.read => Leads(Plain, opened, bt, MsgEndView(m))
  <2>1. SUFFICES ASSUME ~m.read PROVE Leads(Plain, opened, bt, MsgEndView(m))
    OBVIOUS
  <2>2. MsgBody(m) = MsgWrite(m)
    BY <2>1 DEF MsgBody
  <2>3. Leads(Plain, opened, MsgWrite(m), full)
    BY MsgWriteTalk
  <2> HIDE DEF opened, full
  <2> QED
    BY <1>1, <1>2, <2>2, <2>3, LeadsThen
<1>7. m.read => Leads(Plain, Asked, bt, Gone)
  <2>1. SUFFICES ASSUME m.read PROVE Leads(Plain, Asked, bt, Gone)
    OBVIOUS
  <2>2. MsgBody(m) = <<"unsupported">>
    BY <2>1 DEF MsgBody
  <2>3. Leads(Plain, Asked, <<"unsupported">>, Gone)
    BY GoneMoves, LeadsOne
  <2>4. Leads(Plain, Gone, MsgTail(m), Gone)
    BY <1>1, GoneForGood
  <2> QED
    BY <1>1, <1>2, <2>2, <2>3, <2>4, LeadsThen
<1>8. Leads(Plain, Gone, bt, Gone)
  BY <1>3, GoneForGood
<1>9. Fallen(d) = d /\ Seen(d) = d /\ d.st # "read"
  <2>1. CASE d = Idle
    <3>1. d.st = "idle" /\ d.n # Width + 1
      BY <2>1, PowerFacts DEF Idle
    <3>2. Fallen(d) = d
      BY <2>1, <3>1 DEF Fallen, Idle
    <3>3. Seen(d) = d
      BY <2>1, <3>1 DEF Seen
    <3> QED
      BY <3>1, <3>2, <3>3
  <2>2. CASE \E words, ptr : d = Dev("addr", 0, 0, words, ptr, <<>>)
    <3>1. PICK words, ptr : d = Dev("addr", 0, 0, words, ptr, <<>>)
      BY <2>2
    <3>2. d.st = "addr"
      BY <3>1, DevFields
    <3>3. 0 # Width + 1
      BY PowerFacts
    <3>4. Fallen(d) = d
      BY <3>1, <3>3, FallDevs
    <3> QED
      BY <3>2, <3>4 DEF Seen
  <2> QED
    BY <2>1, <2>2
<1>10. Move(Plain, "scl0", s, low)
  <2>1. low = Talk(0, 0, Out(Fallen(d), <<>>), 0, Seen(Fallen(d)), none, none)
    BY <1>9 DEF PlainLow
  <2> HIDE DEF low, none
  <2> QED
    BY <1>9, <2>1, PlainMoves
<1>11. <<"scl0">> \in Seq(Ops)
  BY DEF Ops
<1>12. s = Talk(0, 1, 1, 0, d, <<>>, <<>>) /\ MsgRest(dest, m) = <<"scl0">> \o (a \o bt)
  BY DEF MsgRest
<1> HIDE DEF s, low, a, bt, opened, full, none
<1>13. Leads(Plain, s, <<"scl0">>, low)
  BY <1>10, LeadsOne
<1>14. \E u \in {Gone, MsgEndView(m)} : Leads(Plain, low, a \o bt, u)
  <2>1. PICK u : /\ Leads(Plain, low, a, u)
                 /\ \/ u = Gone \/ (m.read /\ u = Asked)
                    \/ ~m.read /\ u = PlainLow(1, Dev("word", 0, 0, 0, 0, <<>>), <<>>)
    BY <1>4
  <2>2. \E w \in {Gone, MsgEndView(m)} : Leads(Plain, u, bt, w)
    BY <1>5, <1>6, <1>7, <1>8, <2>1
  <2> QED
    BY <1>3, <1>4, <2>1, <2>2, LeadsThen
<1>15. a \o bt \in Seq(Ops)
  BY <1>3, <1>4, ConcatProperties
<1>16. <<"scl0">> \o (a \o bt) \in Seq(Ops)
  BY <1>11, <1>15, ConcatProperties
<1> QED
  BY <1>11, <1>12, <1>13, <1>14, <1>15, <1>16, LeadsThen

\* rest[k] is what follows the first k blocks of ss.
Follow(rest, ss, n) ==
  /\ rest[n] = <<>> /\ \A k \in 0 .. n : rest[k] \in Seq(Ops)
  /\ \A k \in 1 .. n : rest[k - 1] = ss[k] \o rest[k]
  /\ FlattenSeq(ss) = rest[0]

\* What is left of a program of many blocks.
LEMMA RestsUnfold ==
  ASSUME NEW n \in Nat \ {0}, NEW ss, Len(ss) = n, \A i \in 1 .. n : ss[i] \in Seq(Ops)
  PROVE  \E rest : Follow(rest, ss, n)
<1>1. PICK flat : Flattens(flat, ss) /\ FlattenSeq(ss) = flat[n]
  BY FlattenUnfolds
<1>2. \A k \in 1 .. n : flat[k] = IF k = 1 THEN ss[k] ELSE flat[k - 1] \o ss[k]
  BY <1>1 DEF Flattens
<1>3. \A k \in 0 .. n : k # 0 => flat[k] \in Seq(Ops)
  <2> DEFINE T == {k \in 0 .. n : k # 0 => flat[k] \in Seq(Ops)}
  <2>1. 0 \in T
    OBVIOUS
  <2>2. ASSUME NEW k \in 0 .. n - 1, k \in T PROVE k + 1 \in T
    <3>1. k + 1 \in 1 .. n /\ (k + 1) - 1 = k /\ k + 1 \in 0 .. n /\ (k + 1 = 1 <=> k = 0)
      OBVIOUS
    <3>2. flat[k + 1] = IF k = 0 THEN ss[k + 1] ELSE flat[k] \o ss[k + 1]
      BY <1>2, <3>1
    <3>3. ss[k + 1] \in Seq(Ops)
      BY <3>1
    <3>4. flat[k + 1] \in Seq(Ops)
      BY <2>2, <3>2, <3>3, ConcatProperties
    <3> QED
      BY <3>1, <3>4
  <2>3. \A k \in 0 .. n : k \in T
    <3> HIDE DEF T
    <3> QED
      BY <2>1, <2>2, StretchInduction
  <2> QED
    BY <2>3
<1> DEFINE Back(i, r) ==
             /\ r[n] = <<>> /\ \A k \in i .. n : r[k] \in Seq(Ops)
             /\ \A k \in i + 1 .. n : r[k - 1] = ss[k] \o r[k]
             /\ flat[n] = IF i = 0 THEN r[i] ELSE flat[i] \o r[i]
           T == {j \in 0 .. n : \E r : Back(n - j, r)}
<1>4. 0 \in T
  <2> DEFINE r == [k \in 0 .. n |-> <<>>]
  <2>1. r[n] = <<>> /\ n - 0 = n /\ n # 0 /\ n \in 0 .. n
    OBVIOUS
  <2>2. \A k \in n .. n : k = n
    OBVIOUS
  <2>3. flat[n] \o <<>> = flat[n]
    BY <1>3, <2>1, ConcatEmptySeq
  <2>4. <<>> \in Seq(Ops) /\ n + 1 .. n = {}
    OBVIOUS
  <2> HIDE DEF r
  <2>5. Back(n, r)
    BY <2>1, <2>2, <2>3, <2>4
  <2>6. 0 \in 0 .. n
    OBVIOUS
  <2> HIDE DEF Back
  <2> QED
    BY <2>1, <2>5, <2>6
<1>5. ASSUME NEW j \in 0 .. n - 1, j \in T PROVE j + 1 \in T
  <2> DEFINE i == n - j
             h == n - (j + 1)
  <2>1. i \in 1 .. n /\ h \in 0 .. n /\ h = i - 1 /\ h + 1 = i /\ h # n /\ h < i
    OBVIOUS
  <2>2. \E r : Back(i, r)
    BY <1>5
  <2>3. j + 1 \in 0 .. n
    OBVIOUS
  <2> HIDE DEF i
  <2>4. PICK r : Back(i, r)
    BY <2>2
  <2> DEFINE q == [k \in 0 .. n |-> IF k = h THEN ss[i] \o r[i] ELSE r[k]]
  <2>5. q[h] = ss[i] \o r[i] /\ \A k \in 0 .. n : k # h => q[k] = r[k]
    BY <2>1
  <2> HIDE DEF q, h, Back
  <2>6. ss[i] \in Seq(Ops) /\ r[i] \in Seq(Ops) /\ q[h] \in Seq(Ops)
    <3>1. ss[i] \in Seq(Ops) /\ r[i] \in Seq(Ops)
      BY <2>1, <2>4 DEF Back
    <3> QED
      BY <2>5, <3>1, ConcatProperties
  <2>7. q[n] = <<>>
    BY <2>1, <2>4, <2>5 DEF Back
  <2>8. ASSUME NEW k \in h .. n PROVE q[k] \in Seq(Ops)
    <3>1. CASE k = h
      BY <2>6, <3>1
    <3>2. CASE k # h
      <4>1. k \in i .. n /\ k \in 0 .. n
        BY <2>1, <3>2
      <4> QED
        BY <2>4, <2>5, <3>2, <4>1 DEF Back
    <3> QED
      BY <3>1, <3>2
  <2>9. ASSUME NEW k \in h + 1 .. n PROVE q[k - 1] = ss[k] \o q[k]
    <3>1. k \in 0 .. n /\ k # h /\ k - 1 \in 0 .. n
      BY <2>1
    <3>2. q[k] = r[k]
      BY <2>5, <3>1
    <3>3. CASE k = i
      <4>1. k - 1 = h
        BY <2>1, <3>3
      <4> QED
        BY <2>5, <3>2, <3>3, <4>1
    <3>4. CASE k # i
      <4>1. k \in i + 1 .. n /\ k - 1 # h
        BY <2>1, <3>4
      <4>2. r[k - 1] = ss[k] \o r[k]
        BY <2>4, <4>1 DEF Back
      <4> QED
        BY <2>5, <3>1, <3>2, <4>1, <4>2
    <3> QED
      BY <3>3, <3>4
  <2>10. flat[n] = flat[i] \o r[i]
    <3>1. i # 0
      BY <2>1
    <3>2. flat[n] = IF i = 0 THEN r[i] ELSE flat[i] \o r[i]
      BY <2>4 DEF Back
    <3> QED
      BY <3>1, <3>2
  <2>11. flat[n] = IF h = 0 THEN q[h] ELSE flat[h] \o q[h]
    <3>1. CASE h = 0
      <4>1. i = 1
        BY <2>1, <3>1
      <4>2. flat[i] = ss[i]
        BY <1>2, <2>1, <4>1
      <4> QED
        BY <2>5, <2>10, <3>1, <4>2
    <3>2. CASE h # 0
      <4>1. i # 1 /\ i - 1 = h
        BY <2>1, <3>2
      <4>2. flat[i] = flat[h] \o ss[i] /\ flat[h] \in Seq(Ops)
        BY <1>2, <1>3, <2>1, <3>2, <4>1
      <4>3. (flat[h] \o ss[i]) \o r[i] = flat[h] \o (ss[i] \o r[i])
        <5>1. Joins(flat[h], ss[i], r[i])
          BY <2>6, <4>2, ThreePrograms
        <5> QED
          BY <5>1 DEF Joins
      <4> QED
        BY <2>5, <2>10, <3>2, <4>2, <4>3
    <3> QED
      BY <3>1, <3>2
  <2>12. Back(h, q)
    BY <2>7, <2>8, <2>9, <2>11 DEF Back
  <2> QED
    BY <2>3, <2>12 DEF h
<1>6. n \in T
  <2> HIDE DEF T
  <2>1. \A k \in 0 .. n : k \in T
    BY <1>4, <1>5, StretchInduction
  <2> QED
    BY <2>1
<1>7. \E r : Back(0, r)
  <2>1. n - n = 0
    OBVIOUS
  <2> HIDE DEF Back
  <2> QED
    BY <1>6, <2>1
<1>8. PICK r : Back(0, r)
  BY <1>7
<1>9. 0 + 1 = 1
  OBVIOUS
<1>10. Follow(r, ss, n)
  BY <1>1, <1>8, <1>9 DEF Follow
<1> QED
  BY <1>10

\* The messages of a call of lab 13.
MsgAccepted(msgs, k) == ~(msgs[k].buf = <<>> \/ (k > 1 /\ ~msgs[k].restart))
MsgLead == <<"sda1", "scl1", "start">>
MsgEnd(m) == IF m.stop THEN <<"stop">> ELSE <<>>
MsgOps(dest, m) ==
  MsgStart \o MsgSendAddress(dest, m.read) \o MsgBody(m) \o (IF m.stop THEN MsgStop ELSE <<>>)
MsgBlocks(dest, msgs) ==
  [k \in 1 .. Len(msgs) |->
     IF MsgAccepted(msgs, k) THEN MsgOps(dest, msgs[k]) ELSE <<"reject">>]

\* What the driver sends of one: up to the START, after that, and the edge of the STOP.
LEMMA MsgShape ==
  ASSUME NEW dest \in Nat, dest < 2 ^ (Width - 1), NEW m \in Msgs
  PROVE  /\ MsgLead \in Seq(Ops) /\ MsgRest(dest, m) \in Seq(Ops) /\ MsgEnd(m) \in Seq(Ops)
         /\ MsgRest(dest, m) \o MsgEnd(m) \in Seq(Ops) /\ MsgOps(dest, m) \in Seq(Ops)
         /\ MsgOps(dest, m) = MsgLead \o (MsgRest(dest, m) \o MsgEnd(m))
<1> DEFINE l == MsgLead
           z == <<"scl0">>
           a == MsgSendAddress(dest, m.read)
           b == MsgBody(m)
           t == MsgTail(m)
           f == MsgEnd(m)
<1>1. l \in Seq(Ops) /\ z \in Seq(Ops) /\ f \in Seq(Ops) /\ <<"unsupported">> \in Seq(Ops)
  <2>1. {"sda1", "scl1", "start", "stop", "scl0", "unsupported"} \subseteq Ops
    BY DEF Ops
  <2>2. /\ <<"sda1", "scl1", "start">> \in Seq(Ops) /\ <<"scl0">> \in Seq(Ops)
        /\ <<"stop">> \in Seq(Ops) /\ <<>> \in Seq(Ops) /\ <<"unsupported">> \in Seq(Ops)
    BY <2>1
  <2> QED
    BY <2>2 DEF MsgLead, MsgEnd
<1>2. a \in Seq(Ops)
  <2>1. m.read \in BOOLEAN
    BY DEF Msgs
  <2>2. Idle = Idle \/ \E words, ptr : Idle = Dev("addr", 0, 0, words, ptr, <<>>)
    OBVIOUS
  <2> QED
    BY <2>1, <2>2, MsgCalled
<1>3. b \in Seq(Ops)
  BY <1>1, MsgWriteTalk DEF MsgBody
<1>4. t \in Seq(Ops)
  BY MsgTailTalk
<1>5. MsgStart = l \o z
  BY <1>1 DEF MsgStart, MsgLead
<1>6. (IF m.stop THEN MsgStop ELSE <<>>) = t \o f
  <2>1. {"sda0", "scl1", "stop"} \subseteq Ops
    BY DEF Ops
  <2>2. MsgStop = <<"sda0", "scl1">> \o <<"stop">>
    BY <2>1, TwoAndOne DEF MsgStop
  <2>3. <<>> = <<>> \o <<>>
    OBVIOUS
  <2>4. CASE m.stop
    BY <2>2, <2>4 DEF MsgTail, MsgEnd
  <2>5. CASE ~m.stop
    BY <2>3, <2>5 DEF MsgTail, MsgEnd
  <2> QED
    BY <2>4, <2>5
<1>7. MsgOps(dest, m) = (((l \o z) \o a) \o b) \o (t \o f)
  BY <1>5, <1>6 DEF MsgOps
<1>8. MsgRest(dest, m) = z \o (a \o (b \o t))
  BY DEF MsgRest
<1> HIDE DEF l, z, a, b, t, f
<1> DEFINE za == z \o a
           zab == za \o b
           zabt == zab \o t
           bt == b \o t
           tf == t \o f
<1>9. Joins(l, z, a) /\ Joins(z, a, bt) /\ Joins(b, t, f)
  <2>1. bt \in Seq(Ops)
    BY <1>3, <1>4, ConcatProperties
  <2> HIDE DEF bt
  <2> QED
    BY <1>1, <1>2, <1>3, <1>4, <2>1, ThreePrograms
<1>10. /\ (l \o z) \o a = l \o za /\ za \in Seq(Ops) /\ bt \in Seq(Ops) /\ tf \in Seq(Ops)
       /\ z \o (a \o bt) = za \o bt
  BY <1>9 DEF Joins
<1> HIDE DEF za, tf
<1>11. Joins(l, za, b) /\ Joins(za, b, t)
  BY <1>1, <1>3, <1>4, <1>10, ThreePrograms
<1>12. (l \o za) \o b = l \o zab /\ za \o bt = zabt /\ zab \in Seq(Ops) /\ zabt \in Seq(Ops)
  BY <1>11 DEF Joins
<1> HIDE DEF zab, bt
<1>13. Joins(l, zab, tf) /\ Joins(zab, t, f)
  BY <1>1, <1>4, <1>10, <1>12, ThreePrograms
<1>14. /\ (l \o zab) \o tf = l \o (zab \o tf) /\ (l \o zab) \o tf \in Seq(Ops)
       /\ zab \o tf = zabt \o f /\ zabt \o f \in Seq(Ops)
  BY <1>13 DEF Joins, tf
<1>15. MsgOps(dest, m) = (l \o zab) \o tf
  BY <1>7, <1>10, <1>12 DEF tf
<1>16. MsgRest(dest, m) = zabt
  BY <1>8, <1>10, <1>12 DEF bt
<1> HIDE DEF zabt
<1> QED
  BY <1>1, <1>12, <1>14, <1>15, <1>16 DEF l, f

-----------------------------------------------------------------------------
(* A call of lab 13, message by message. *)

MsgCall(c) ==
  c.msgs \in Seq(Msgs) /\ c.msgs # <<>> /\ c.target \in Nat /\ c.target < 2 ^ (Width - 1)

\* What is left of its program after its first k messages.
MsgLeft(c) == CHOOSE rest : Follow(rest, MsgBlocks(c.target, c.msgs), Len(c.msgs))

\* After the START of message k.
MsgSends(c, k) ==
  (MsgRest(c.target, c.msgs[k]) \o MsgEnd(c.msgs[k])) \o MsgLeft(c)[k]

MsgLeadIn == {<<"sda1", "scl1">>, <<"scl1">>}
MsgLeads == {<<"sda1", "scl1", "start">>, <<"scl1", "start">>, <<"start">>}

\* The program of a call, taken apart.
LEMMA MsgProgram ==
  ASSUME NEW c, MsgCall(c)
  PROVE  LET R == MsgLeft(c)
             n == Len(c.msgs)
         IN /\ n \in Nat \ {0} /\ R[n] = <<>> /\ FlattenSeq(MsgBlocks(c.target, c.msgs)) = R[0]
            /\ \A k \in 0 .. n : R[k] \in Seq(Ops)
            /\ \A k \in 1 .. n :
                 /\ c.msgs[k] \in Msgs /\ MsgRest(c.target, c.msgs[k]) \in Seq(Ops)
                 /\ MsgEnd(c.msgs[k]) \o R[k] \in Seq(Ops) /\ MsgSends(c, k) \in Seq(Ops)
                 /\ MsgSends(c, k) = MsgRest(c.target, c.msgs[k]) \o (MsgEnd(c.msgs[k]) \o R[k])
                 /\ R[k - 1] = IF MsgAccepted(c.msgs, k) THEN MsgLead \o MsgSends(c, k)
                               ELSE <<"reject">> \o R[k]
<1> DEFINE R == MsgLeft(c)
           n == Len(c.msgs)
           ss == MsgBlocks(c.target, c.msgs)
<1>1. n \in Nat \ {0} /\ \A k \in 1 .. n : c.msgs[k] \in Msgs
  BY DEF MsgCall
<1>2. c.target \in Nat /\ c.target < 2 ^ (Width - 1)
  BY DEF MsgCall
<1>3. /\ Len(ss) = n
      /\ \A k \in 1 .. n : ss[k] = IF MsgAccepted(c.msgs, k) THEN MsgOps(c.target, c.msgs[k])
                                   ELSE <<"reject">>
  BY <1>1 DEF MsgBlocks
<1>4. <<"reject">> \in Seq(Ops)
  BY DEF Ops
<1>5. \A k \in 1 .. n : ss[k] \in Seq(Ops)
  <2> TAKE k \in 1 .. n
  <2>1. MsgOps(c.target, c.msgs[k]) \in Seq(Ops)
    BY <1>1, <1>2, MsgShape
  <2> QED
    BY <1>3, <1>4, <2>1
<1> HIDE DEF ss
<1>6. Follow(R, ss, n)
  <2>1. \E rest : Follow(rest, ss, n)
    BY <1>1, <1>3, <1>5, RestsUnfold
  <2>2. R = CHOOSE rest : Follow(rest, ss, n)
    BY DEF MsgLeft, ss
  <2> HIDE DEF R
  <2> QED
    BY <2>1, <2>2
<1> HIDE DEF R
<1>7. /\ R[n] = <<>> /\ FlattenSeq(ss) = R[0] /\ \A k \in 0 .. n : R[k] \in Seq(Ops)
      /\ \A k \in 1 .. n : R[k - 1] = ss[k] \o R[k]
  BY <1>6 DEF Follow
<1>8. ASSUME NEW k \in 1 .. n
      PROVE  /\ c.msgs[k] \in Msgs /\ MsgRest(c.target, c.msgs[k]) \in Seq(Ops)
             /\ MsgEnd(c.msgs[k]) \o R[k] \in Seq(Ops) /\ MsgSends(c, k) \in Seq(Ops)
             /\ MsgSends(c, k) = MsgRest(c.target, c.msgs[k]) \o (MsgEnd(c.msgs[k]) \o R[k])
             /\ R[k - 1] = IF MsgAccepted(c.msgs, k) THEN MsgLead \o MsgSends(c, k)
                           ELSE <<"reject">> \o R[k]
  <2> DEFINE m == c.msgs[k]
             a == MsgRest(c.target, m)
             f == MsgEnd(m)
             r == R[k]
             l == MsgLead
  <2>1. m \in Msgs /\ r \in Seq(Ops) /\ k \in 1 .. Len(c.msgs)
    <3>1. k \in 0 .. n
      BY <1>1
    <3> QED
      BY <1>1, <1>7, <3>1
  <2> HIDE DEF m
  <2>2. /\ l \in Seq(Ops) /\ a \in Seq(Ops) /\ f \in Seq(Ops) /\ a \o f \in Seq(Ops)
        /\ MsgOps(c.target, m) = l \o (a \o f)
    BY <1>2, <2>1, MsgShape
  <2> HIDE DEF a, f, r, l
  <2> DEFINE af == a \o f
  <2>3. Joins(a, f, r)
    BY <2>1, <2>2, ThreePrograms
  <2>4. /\ f \o r \in Seq(Ops) /\ af \o r = a \o (f \o r) /\ af \o r \in Seq(Ops)
        /\ af \in Seq(Ops)
    BY <2>2, <2>3 DEF Joins
  <2> HIDE DEF af
  <2>5. Joins(l, af, r)
    BY <2>1, <2>2, <2>4, ThreePrograms
  <2>6. (l \o af) \o r = l \o (af \o r)
    BY <2>5 DEF Joins
  <2>7. MsgSends(c, k) = af \o r
    BY DEF MsgSends, af, a, f, r, R, m
  <2>8. R[k - 1] = ss[k] \o r
    BY <1>7 DEF r
  <2>9. ss[k] = IF MsgAccepted(c.msgs, k) THEN l \o af ELSE <<"reject">>
    BY <1>3, <2>2 DEF af, m
  <2>10. R[k - 1] = IF MsgAccepted(c.msgs, k) THEN l \o MsgSends(c, k) ELSE <<"reject">> \o r
    BY <2>6, <2>7, <2>8, <2>9
  <2> QED
    BY <2>1, <2>2, <2>4, <2>7, <2>10 DEF l, a, f, r, m
<1> QED
  BY <1>1, <1>7, <1>8 DEF R, ss

\* Before the START of a message the device lets SDA go.
MsgQuiet(b, i, g) == b.dsda = 1 /\ i = <<>> /\ g = <<>>

MsgAheadOf(c, b, ops, i, g) ==
  /\ MsgQuiet(b, i, g)
  /\ \/ \E l \in MsgLeadIn : ops = l \o MsgLeft(c)[0]
     \/ \E k \in 1 .. Len(c.msgs) :
          \/ ~MsgAccepted(c.msgs, k) /\ ops = <<"reject">> \o MsgLeft(c)[k]
          \/ /\ MsgAccepted(c.msgs, k)
             /\ \E l \in MsgLeads : /\ ops = l \o MsgSends(c, k)
                                    /\ Head(l) # "sda1" => b.msda = 1
                                    /\ Head(l) = "start" => b.mscl = 1

\* Between two messages.
LEMMA MsgReady ==
  ASSUME NEW c, MsgCall(c), NEW b, NEW ops, NEW i, NEW g, MsgQuiet(b, i, g),
         NEW k \in 0 .. Len(c.msgs), ops = MsgLeft(c)[k]
  PROVE  MsgAheadOf(c, b, ops, i, g) \/ (k = Len(c.msgs) /\ ops = <<>>)
<1> DEFINE R == MsgLeft(c)
           n == Len(c.msgs)
<1>1. n \in Nat \ {0} /\ R[n] = <<>>
  BY MsgProgram
<1>2. CASE k = n
  BY <1>1, <1>2
<1>3. CASE k # n
  <2> DEFINE j == k + 1
  <2>1. j \in 1 .. n /\ j - 1 = k
    BY <1>1, <1>3
  <2> HIDE DEF j
  <2>2. ops = IF MsgAccepted(c.msgs, j) THEN MsgLead \o MsgSends(c, j) ELSE <<"reject">> \o R[j]
    BY <2>1, MsgProgram
  <2>3. MsgLead \in MsgLeads /\ Head(MsgLead) = "sda1"
    BY DEF MsgLead, MsgLeads
  <2>4. CASE MsgAccepted(c.msgs, j)
    BY <2>1, <2>2, <2>3, <2>4, Zenon DEF MsgAheadOf
  <2>5. CASE ~MsgAccepted(c.msgs, j)
    BY <2>1, <2>2, <2>5, Zenon DEF MsgAheadOf
  <2> QED
    BY <2>4, <2>5
<1> QED
  BY <1>2, <1>3

\* Where the data of a message are, once it is sent.
Sent(buf) ==
  \/ Payload(buf) = <<>>
  \/ dev.busy /\ dev.page = Payload(buf) /\ dev.ptr = Pointer(buf)
  \/ /\ ~dev.busy
     /\ \A i \in DOMAIN Payload(buf) : mem[(Pointer(buf) + i - 1) % Cells] = Payload(buf)[i]

MsgSent == Last(call.msgs).stop => Sent(Last(call.msgs).buf)

\* What the driver and the device show.
MsgView == Talk(bus.msda, bus.mscl, bus.dsda, 0, Seen(dev), in, got)

\* The stages of a call: before the START of a message, in it, and after the last one.
MsgAhead == MsgAheadOf(call, bus, todo, in, got)
MsgTracking ==
  \E k \in 1 .. Len(call.msgs) :
    \E p \in Seq(Ops), s \in {MsgView, Asked}, u \in {Gone, MsgEndView(call.msgs[k])} :
      todo = p \o (MsgEnd(call.msgs[k]) \o MsgLeft(call)[k]) /\ Leads(Plain, s, p, u)
MsgClosing == todo = <<>> /\ bus.dsda = 1 /\ MsgSent
MsgStage == MsgAhead \/ MsgTracking \/ MsgClosing

\* The device has nothing to stretch the clock with.
MsgCalm == ~bus.hold /\ stretches = 0

\* A step that goes on, or fails.
MsgFollows == rc' # "OK" \/ (rc' = "OK" /\ MsgStage')

\* A step that stays in a message.
LEMMA MsgTrackNext ==
  ASSUME call' = call, NEW k \in 1 .. Len(call.msgs), NEW p \in Seq(Ops),
         todo' = p \o (MsgEnd(call.msgs[k]) \o MsgLeft(call)[k]),
         NEW s, s = MsgView' \/ s = Asked, NEW u \in {Gone, MsgEndView(call.msgs[k])},
         Leads(Plain, s, p, u)
  PROVE  MsgTracking'
<1>1. s \in {MsgView', Asked}
  OBVIOUS
<1> QED
  BY <1>1, Zenon DEF MsgTracking

\* Without stretches left the clock is never held.
LEMMA CalmKept ==
  ASSUME DeviceInv, MsgCalm, LineStep
  PROVE  MsgCalm'
<1>1. CASE WriteControl
  <2>1. PICK b \in Levels : Drive(b) /\ b.dsda = bus.dsda /\ b.hold = bus.hold
    BY <1>1, ControlStep
  <2>2. b.hold = FALSE
    BY <2>1 DEF MsgCalm, Levels
  <2>3. CASE StartSeen(b)
    BY <2>2, <2>3 DEF StartSeen, MsgCalm, Levels
  <2>4. CASE StopSeen(b)
    BY <2>2, <2>4 DEF StopSeen, MsgCalm, Levels
  <2>5. CASE Clocked(b)
    BY <2>2, <2>5 DEF Clocked, MsgCalm
  <2>6. CASE Shifted(b)
    <3>1. PICK h \in BOOLEAN :
            /\ h => stretches > 0 /\ dev.st # "idle"
            /\ bus' = [b EXCEPT !.dsda = Out(dev', mem), !.hold = h]
            /\ stretches' = IF h THEN stretches - 1 ELSE stretches
      BY <2>6, FallCases
    <3>2. h = FALSE
      BY <3>1 DEF MsgCalm
    <3>3. bus'.hold = FALSE /\ stretches' = 0
      BY <3>1, <3>2 DEF MsgCalm, Levels
    <3> QED
      BY <3>3 DEF MsgCalm
  <2>7. CASE bus' = b /\ UNCHANGED <<dev, mem, stretches>>
    BY <2>2, <2>7 DEF MsgCalm
  <2> QED
    BY <2>1, <2>3, <2>4, <2>5, <2>6, <2>7 DEF Drive
<1>2. CASE UNCHANGED busVars
  BY <1>2 DEF busVars, MsgCalm
<1>3. PollSucceeds \/ PollTimeout \/ StopTimeout \/ BusFree \/ StopChecked => UNCHANGED busVars
  BY DEF PollSucceeds, PollTimeout, StopTimeout, BusFree, StopChecked, Advance, Fail
<1>4. Sample \/ CheckAck \/ ByteRead \/ BusActive => UNCHANGED busVars
  BY DEF Sample, CheckAck, ByteRead, BusActive, Fail
<1>5. Booted \/ BusRecovered \/ PulseChecked \/ Rejected => UNCHANGED busVars
  BY DEF Booted, BusRecovered, PulseChecked, Rejected, LeaveFor, Advance, Fail
<1> QED
  BY <1>1, <1>2, <1>3, <1>4, <1>5 DEF LineStep

\* What has failed does not succeed.
LEMMA FailedStays ==
  ASSUME LineStep, rc # "OK"
  PROVE  rc' # "OK"
<1>1. WriteControl => rc' = rc
  BY DEF WriteControl
<1>2. PollSucceeds \/ PollTimeout \/ StopTimeout \/ BusFree \/ StopChecked => rc' # "OK"
  BY DEF PollSucceeds, PollTimeout, StopTimeout, BusFree, StopChecked, Advance, Fail
<1>3. Sample \/ CheckAck \/ ByteRead \/ BusActive => rc' # "OK"
  BY DEF Sample, CheckAck, ByteRead, BusActive, Fail
<1>4. Booted \/ BusRecovered \/ PulseChecked \/ Rejected => rc' # "OK"
  BY DEF Booted, BusRecovered, PulseChecked, Rejected, LeaveFor, Advance, Fail
<1> QED
  BY <1>1, <1>2, <1>3, <1>4 DEF LineStep

\* A message that is refused at once, or in the middle.
LEMMA RefusedFails ==
  ASSUME LineStep, Op \in {"reject", "unsupported"}
  PROVE  rc' # "OK"
<1> DEFINE o == Op
<1>1. o \in {"reject", "unsupported"}
  OBVIOUS
<1> HIDE DEF o
<1>2. ~WriteControl
  BY <1>1 DEF WriteControl, o
<1>3. ~(PollSucceeds \/ PollTimeout \/ StopTimeout \/ BusFree \/ StopChecked)
  BY <1>1 DEF PollSucceeds, PollTimeout, StopTimeout, BusFree, StopChecked, o
<1>4. ~(Sample \/ CheckAck \/ ByteRead \/ BusActive)
  BY <1>1 DEF Sample, CheckAck, ByteRead, BusActive, o
<1>5. ~(Booted \/ BusRecovered \/ PulseChecked)
  BY <1>1 DEF Booted, BusRecovered, PulseChecked, o
<1>6. Rejected => rc' # "OK"
  BY DEF Rejected, Fail
<1> QED
  BY <1>2, <1>3, <1>4, <1>5, <1>6 DEF LineStep

\* The heads of what comes before the START.
LEMMA MsgLeadHeads ==
  /\ \A l \in MsgLeadIn \cup MsgLeads :
       l \in Seq(Ops) /\ l # <<>> /\ Tail(l) \in Seq(Ops)
  /\ \A l \in MsgLeadIn : \/ Head(l) = "sda1" /\ Tail(l) \in MsgLeadIn
                          \/ Head(l) = "scl1" /\ Tail(l) = <<>>
  /\ \A l \in MsgLeads : \/ Head(l) = "sda1" /\ Tail(l) \in MsgLeads /\ Head(Tail(l)) = "scl1"
                         \/ Head(l) = "scl1" /\ Tail(l) \in MsgLeads /\ Head(Tail(l)) = "start"
                         \/ Head(l) = "start" /\ Tail(l) = <<>>
<1> DEFINE a == <<"sda1", "scl1", "start">>
           b == <<"scl1", "start">>
           c == <<"start">>
           d == <<"sda1", "scl1">>
           e == <<"scl1">>
<1>1. {"sda1", "scl1", "start"} \subseteq Ops
  BY DEF Ops
<1>2. /\ a \in Seq(Ops) /\ b \in Seq(Ops) /\ c \in Seq(Ops) /\ d \in Seq(Ops) /\ e \in Seq(Ops)
  BY <1>1
<1>3. /\ Head(a) = "sda1" /\ Tail(a) = b /\ Head(b) = "scl1" /\ Tail(b) = c /\ Head(c) = "start"
      /\ Tail(c) = <<>> /\ Head(d) = "sda1" /\ Tail(d) = e /\ Head(e) = "scl1" /\ Tail(e) = <<>>
  OBVIOUS
<1>4. a # <<>> /\ b # <<>> /\ c # <<>> /\ d # <<>> /\ e # <<>> /\ <<>> \in Seq(Ops)
  OBVIOUS
<1>5. MsgLeads = {a, b, c} /\ MsgLeadIn = {d, e}
  BY DEF MsgLeads, MsgLeadIn
<1> HIDE DEF a, b, c, d, e
<1> QED
  BY <1>2, <1>3, <1>4, <1>5

\* Lines driven before a START: the device lets SDA go.
LEMMA AheadDrive ==
  ASSUME DeviceInv, MsgCalm, bus.dsda = 1, NEW b \in Levels, b.dsda = bus.dsda, b.hold = bus.hold,
         Drive(b), bus.mscl = 1 => b.mscl = 1
  PROVE  bus'.dsda = 1
<1>1. ~(SCL(bus) /\ ~SCL(b))
  BY DEF SCL, MsgCalm
<1>2. CASE StartSeen(b)
  BY <1>2 DEF StartSeen, Levels
<1>3. CASE StopSeen(b)
  BY <1>3 DEF StopSeen, Levels
<1>4. CASE Clocked(b)
  BY <1>4 DEF Clocked
<1>5. CASE bus' = b
  BY <1>5
<1> QED
  BY <1>1, <1>2, <1>3, <1>4, <1>5 DEF Drive

\* The START of a message: the device listens, or it is busy.
LEMMA MsgStarted ==
  ASSUME DeviceInv, NEW b \in Levels, StartSeen(b)
  PROVE  Seen(dev') = Idle \/ \E words, ptr : Seen(dev') = Dev("addr", 0, 0, words, ptr, <<>>)
<1>1. dev' = [dev EXCEPT !.st = IF dev.busy THEN "idle" ELSE "addr", !.n = 0, !.sh = 0,
                         !.page = IF dev.busy THEN @ ELSE <<>>]
  BY DEF StartSeen
<1>2. BusTypeOK
  BY DEF DeviceInv
<1>3. CASE dev.busy
  <2>1. dev'.st = "idle"
    BY <1>1, <1>2, <1>3 DEF BusTypeOK
  <2> QED
    BY <2>1 DEF Seen
<1>4. CASE ~dev.busy
  <2> DEFINE w == dev.words
             p == dev.ptr
  <2>1. dev = Dev(dev.st, dev.n, dev.sh, w, p, dev.page)
    BY <1>2, <1>4, DevIs
  <2>2. dev' = Started(dev)
    BY <1>1, <1>4 DEF Started
  <2>3. Started(Dev(dev.st, dev.n, dev.sh, w, p, dev.page)) = Dev("addr", 0, 0, w, p, <<>>)
    BY StartDevs
  <2>4. dev' = Dev("addr", 0, 0, w, p, <<>>)
    BY <2>1, <2>2, <2>3
  <2>5. dev'.st = "addr"
    BY <2>4, DevFields
  <2>6. Seen(dev') = Dev("addr", 0, 0, w, p, <<>>)
    BY <2>4, <2>5 DEF Seen
  <2> QED
    BY <2>6
<1> QED
  BY <1>3, <1>4

\* Before the START of a message, and the START.
LEMMA MsgAheadStep ==
  ASSUME DeviceInv, MsgCalm, MsgCall(call), MsgAhead, rc = "OK", LineStep, UNCHANGED boardVars
  PROVE  MsgFollows
<1> DEFINE n == Len(call.msgs)
           R == MsgLeft(call)
<1>1. /\ n \in Nat \ {0} /\ \A k \in 0 .. n : R[k] \in Seq(Ops)
      /\ \A k \in 1 .. n : MsgSends(call, k) \in Seq(Ops)
  BY MsgProgram
<1>2. call' = call /\ bus.dsda = 1 /\ in = <<>> /\ got = <<>>
  BY DEF boardVars, MsgAhead, MsgAheadOf, MsgQuiet
<1>3. \/ \E l \in MsgLeadIn : todo = l \o R[0]
      \/ \E k \in 1 .. n : ~MsgAccepted(call.msgs, k) /\ todo = <<"reject">> \o R[k]
      \/ \E k \in 1 .. n :
           /\ MsgAccepted(call.msgs, k)
           /\ \E l \in MsgLeads : /\ todo = l \o MsgSends(call, k)
                                  /\ Head(l) # "sda1" => bus.msda = 1
                                  /\ Head(l) = "start" => bus.mscl = 1
  BY DEF MsgAhead, MsgAheadOf
<1>4. Op = Head(todo)
  BY OpSteps
<1> HIDE DEF n, R
<1>5. ASSUME Op \in {"sda1", "scl1"}
      PROVE  /\ bus'.dsda = 1 /\ in' = <<>> /\ got' = <<>> /\ rc' = "OK" /\ todo' = Tail(todo)
             /\ Op = "sda1" => bus'.msda = 1
             /\ Op = "scl1" => bus'.msda = bus.msda /\ bus'.mscl = 1
  <2>1. WriteControl
    BY <1>5, OpSteps
  <2>2. PICK b \in Levels :
           /\ Drive(b) /\ b.dsda = bus.dsda /\ b.hold = bus.hold
           /\ bus'.msda = b.msda /\ bus'.mscl = b.mscl
           /\ Op \in {"sda1", "stop"} => b.msda = 1 /\ b.mscl = bus.mscl
           /\ Op = "scl1" => b.msda = bus.msda /\ b.mscl = 1
           /\ todo' = Tail(todo) /\ UNCHANGED <<cleanup, rc, in, got>>
    BY <2>1, ControlStep
  <2>3. bus.mscl = 1 => b.mscl = 1
    BY <1>5, <2>2
  <2>4. bus'.dsda = 1
    BY <1>2, <2>2, <2>3, AheadDrive
  <2> QED
    BY <1>2, <2>2, <2>4
<1>6. ASSUME bus'.dsda = 1, in' = <<>>, got' = <<>>, rc' = "OK", NEW k \in 1 .. n,
             MsgAccepted(call.msgs, k), NEW l \in MsgLeads, todo' = l \o MsgSends(call, k),
             Head(l) # "sda1" => bus'.msda = 1, Head(l) = "start" => bus'.mscl = 1
      PROVE  MsgFollows
  <2>1. MsgQuiet(bus', in', got')
    BY <1>6 DEF MsgQuiet
  <2>2. MsgAheadOf(call, bus', todo', in', got')
    BY <1>6, <2>1 DEF MsgAheadOf, n
  <2>3. MsgAhead'
    BY <1>2, <2>2 DEF MsgAhead
  <2> QED
    BY <1>6, <2>3 DEF MsgFollows, MsgStage
<1>7. CASE \E l \in MsgLeadIn : todo = l \o R[0]
  <2>1. PICK l \in MsgLeadIn : todo = l \o R[0]
    BY <1>7
  <2>2. /\ l \in Seq(Ops) /\ l # <<>> /\ Tail(l) \in Seq(Ops)
        /\ \/ Head(l) = "sda1" /\ Tail(l) \in MsgLeadIn
           \/ Head(l) = "scl1" /\ Tail(l) = <<>>
    BY MsgLeadHeads
  <2>3. R[0] \in Seq(Ops) /\ 0 \in 0 .. n
    BY <1>1
  <2>4. Op = Head(l) /\ Tail(todo) = Tail(l) \o R[0]
    BY <1>4, <2>1, <2>2, <2>3, ConcatHead
  <2>5. bus'.dsda = 1 /\ in' = <<>> /\ got' = <<>> /\ rc' = "OK" /\ todo' = Tail(l) \o R[0]
    BY <1>5, <2>2, <2>4
  <2>6. MsgQuiet(bus', in', got')
    BY <2>5 DEF MsgQuiet
  <2>7. CASE Tail(l) \in MsgLeadIn
    <3>1. MsgAheadOf(call, bus', todo', in', got')
      BY <2>5, <2>6, <2>7 DEF MsgAheadOf, R
    <3>2. MsgAhead'
      BY <1>2, <3>1 DEF MsgAhead
    <3> QED
      BY <2>5, <3>2 DEF MsgFollows, MsgStage
  <2>8. CASE Tail(l) = <<>>
    <3>1. todo' = R[0]
      BY <2>3, <2>5, <2>8, ConcatEmptySeq
    <3>2. MsgAheadOf(call, bus', todo', in', got') \/ (0 = n /\ todo' = <<>>)
      BY <2>3, <2>6, <3>1, MsgReady DEF R, n
    <3>3. MsgAhead'
      BY <1>1, <1>2, <3>2 DEF MsgAhead
    <3> QED
      BY <2>5, <3>3 DEF MsgFollows, MsgStage
  <2> QED
    BY <2>2, <2>7, <2>8
<1>8. CASE \E k \in 1 .. n : ~MsgAccepted(call.msgs, k) /\ todo = <<"reject">> \o R[k]
  <2>1. PICK k \in 1 .. n : todo = <<"reject">> \o R[k]
    BY <1>8
  <2>2. k \in 0 .. n
    BY <1>1
  <2>3. <<"reject">> \in Seq(Ops) /\ <<"reject">> # <<>> /\ Head(<<"reject">>) = "reject"
    BY DEF Ops
  <2>4. Op = "reject"
    BY <1>1, <1>4, <2>1, <2>2, <2>3, ConcatHead
  <2>5. rc' # "OK"
    BY <2>4, RefusedFails
  <2> QED
    BY <2>5 DEF MsgFollows
<1>9. CASE \E k \in 1 .. n :
             /\ MsgAccepted(call.msgs, k)
             /\ \E l \in MsgLeads : /\ todo = l \o MsgSends(call, k)
                                    /\ Head(l) # "sda1" => bus.msda = 1
                                    /\ Head(l) = "start" => bus.mscl = 1
  <2>1. PICK k \in 1 .. n :
             /\ MsgAccepted(call.msgs, k)
             /\ \E l \in MsgLeads : /\ todo = l \o MsgSends(call, k)
                                    /\ Head(l) # "sda1" => bus.msda = 1
                                    /\ Head(l) = "start" => bus.mscl = 1
    BY <1>9
  <2>2. PICK l \in MsgLeads : /\ todo = l \o MsgSends(call, k)
                              /\ Head(l) # "sda1" => bus.msda = 1
                              /\ Head(l) = "start" => bus.mscl = 1
    BY <2>1
  <2> DEFINE S == MsgSends(call, k)
  <2>3. S \in Seq(Ops)
    BY <1>1
  <2>4. /\ l \in Seq(Ops) /\ l # <<>> /\ Tail(l) \in Seq(Ops)
        /\ \/ Head(l) = "sda1" /\ Tail(l) \in MsgLeads /\ Head(Tail(l)) = "scl1"
           \/ Head(l) = "scl1" /\ Tail(l) \in MsgLeads /\ Head(Tail(l)) = "start"
           \/ Head(l) = "start" /\ Tail(l) = <<>>
    BY MsgLeadHeads
  <2> HIDE DEF S
  <2>5. Op = Head(l) /\ Tail(todo) = Tail(l) \o S
    BY <1>4, <2>2, <2>3, <2>4, ConcatHead DEF S
  <2>6. CASE Head(l) \in {"sda1", "scl1"}
    <3> DEFINE t == Tail(l)
    <3>1. /\ bus'.dsda = 1 /\ in' = <<>> /\ got' = <<>> /\ rc' = "OK" /\ todo' = t \o S
          /\ Head(l) = "sda1" => bus'.msda = 1
          /\ Head(l) = "scl1" => bus'.msda = bus.msda /\ bus'.mscl = 1
      BY <1>5, <2>5, <2>6
    <3>2. t \in MsgLeads /\ (Head(l) = "sda1" => Head(t) = "scl1")
          /\ (Head(l) = "scl1" => Head(t) = "start")
      BY <2>4, <2>6
    <3> HIDE DEF t
    <3>3. bus'.msda = 1 /\ (Head(t) = "start" => bus'.mscl = 1)
      BY <2>2, <2>6, <3>1, <3>2
    <3> QED
      BY <1>6, <2>1, <3>1, <3>2, <3>3 DEF S
  <2>7. CASE Head(l) = "start"
    <3>1. WriteControl
      BY <2>5, <2>7, OpSteps
    <3>2. PICK b \in Levels :
             /\ Drive(b) /\ b.dsda = bus.dsda /\ b.hold = bus.hold
             /\ bus'.msda = b.msda /\ bus'.mscl = b.mscl
             /\ Op \in {"sda0", "start"} => b.msda = 0 /\ b.mscl = bus.mscl
             /\ todo' = Tail(todo) /\ UNCHANGED <<cleanup, rc, in, got>>
      BY <3>1, ControlStep
    <3>3. bus.msda = 1 /\ bus.mscl = 1 /\ b.msda = 0 /\ b.mscl = 1
      BY <2>2, <2>5, <2>7, <3>2
    <3>4. SCL(bus) /\ SDA(bus) /\ SCL(b) /\ ~SDA(b)
      BY <1>2, <3>2, <3>3 DEF SCL, SDA, MsgCalm
    <3>5. StartSeen(b)
      BY <3>2, <3>4 DEF Drive
    <3>6. bus'.msda = 0 /\ bus'.mscl = 1 /\ bus'.dsda = 1
      BY <3>2, <3>3, <3>5 DEF StartSeen, Levels
    <3>7. todo' = S /\ in' = <<>> /\ got' = <<>> /\ rc' = "OK"
      <4>1. Tail(l) \o S = S
        BY <2>3, <2>4, <2>7, ConcatEmptySeq
      <4> QED
        BY <1>2, <2>5, <3>2, <4>1
    <3> DEFINE d == Seen(dev')
               m == call.msgs[k]
               a == MsgRest(call.target, m)
    <3>8. d = Idle \/ \E words, ptr : d = Dev("addr", 0, 0, words, ptr, <<>>)
      BY <3>5, MsgStarted
    <3>9. k \in 1 .. Len(call.msgs)
      BY DEF n
    <3>10. /\ call.target \in Nat /\ call.target < 2 ^ (Width - 1) /\ m \in Msgs
           /\ S = a \o (MsgEnd(m) \o R[k])
      BY <3>9, MsgProgram DEF MsgCall, S, R
    <3>11. MsgView' = Talk(0, 1, 1, 0, d, <<>>, <<>>)
      BY <3>6, <3>7 DEF MsgView
    <3> HIDE DEF d, m, a
    <3>12. /\ a \in Seq(Ops)
           /\ \E u \in {Gone, MsgEndView(m)} : Leads(Plain, Talk(0, 1, 1, 0, d, <<>>, <<>>), a, u)
      BY <3>8, <3>10, MsgRestTalk DEF a
    <3>13. PICK u \in {Gone, MsgEndView(m)} : Leads(Plain, MsgView', a, u)
      BY <3>11, <3>12
    <3>14. MsgTracking'
      <4>1. todo' = a \o (MsgEnd(call.msgs[k]) \o MsgLeft(call)[k])
        BY <3>7, <3>10 DEF m, R
      <4>2. u \in {Gone, MsgEndView(call.msgs[k])}
        BY DEF m
      <4> QED
        BY <1>2, <3>9, <3>12, <3>13, <4>1, <4>2, MsgTrackNext
    <3> QED
      BY <3>7, <3>14 DEF MsgFollows, MsgStage
  <2> QED
    BY <2>4, <2>6, <2>7
<1> QED
  BY <1>3, <1>7, <1>8, <1>9

\* An idle device is seen to do what it does.
LEMMA MsgSeen ==
  ASSUME BusTypeOK, NEW y
  PROVE  LET d == Seen(dev) IN
         /\ d.st = dev.st /\ AtEdge(d, y).st = AtEdge(dev, y).st
         /\ Seen(AtEdge(d, y)) = Seen(AtEdge(dev, y))
         /\ Seen(Fallen(d)) = Seen(Fallen(dev))
         /\ dev.st # "read" => Out(Fallen(d), <<>>) = Out(Fallen(dev), mem)
<1> DEFINE d == Seen(dev)
<1>1. dev \in [st : {"idle", "addr", "word", "data", "read"}, n : 0 .. Width + 1, sh : Byte,
               words : 0 .. AddressWidth, ptr : 0 .. Cells - 1, page : Seq(Byte), busy : BOOLEAN]
  BY DEF BusTypeOK
<1>2. Fallen(dev).st = dev.st
  BY <1>1 DEF Fallen
<1>3. Idle.st = "idle" /\ Fallen(Idle).st = "idle"
  BY DEF Idle, Fallen
<1>4. CASE dev.st = "idle"
  <2>1. d = Idle
    BY <1>4 DEF Seen
  <2>2. AtEdge(dev, y) = dev /\ AtEdge(Idle, y) = Idle
    BY <1>3, <1>4 DEF AtEdge, Hears
  <2>3. Seen(Idle) = Idle /\ Seen(Fallen(Idle)) = Idle /\ Seen(Fallen(dev)) = Idle
    BY <1>2, <1>3, <1>4 DEF Seen
  <2>4. Out(Fallen(Idle), <<>>) = 1 /\ Out(Fallen(dev), mem) = 1
    BY <1>2, <1>3, <1>4 DEF Out, Hears
  <2> QED
    BY <1>3, <1>4, <2>1, <2>2, <2>3, <2>4
<1>5. CASE dev.st # "idle"
  <2>1. d = dev
    BY <1>5 DEF Seen
  <2>2. dev.st # "read" => Out(Fallen(dev), <<>>) = Out(Fallen(dev), mem)
    BY <1>2 DEF Out
  <2> QED
    BY <2>1, <2>2
<1> QED
  BY <1>4, <1>5

\* A step of the driver takes the view where the view says.
LEMMA MsgTrackOp ==
  ASSUME DeviceInv, MsgCalm, rc = "OK", LineStep, NEW s \in {MsgView, Asked}, NEW t,
         Move(Plain, Op, s, t)
  PROVE  rc' # "OK" \/ (rc' = "OK" /\ todo' = Tail(todo) /\ t \in {MsgView', Asked})
<1> DEFINE o == Op
           d == Seen(dev)
           x == bus.dsda
           e == AtEdge(d, Wired(bus.msda, x))
<1>1. CASE Op \in {"reject", "unsupported"}
  BY <1>1, RefusedFails
<1>2. CASE s = Asked /\ Op \notin {"reject", "unsupported"}
  <2>1. Op \in {"sample", "scl0", "ack"} /\ t = Asked
    <3>1. PlainMove(Op, Asked, t)
      BY <1>2, Kinds
    <3>2. Asked.wait = 2
      BY DEF Asked, Talk
    <3> HIDE DEF o
    <3> QED
      BY <1>2, <3>1, <3>2 DEF PlainMove
  <2>2. CASE Op = "sample"
    <3>1. Sample
      BY <2>2, OpSteps
    <3> QED
      BY <2>1, <3>1 DEF Sample, Pop
  <2>3. CASE Op = "scl0"
    <3>1. WriteControl
      BY <2>3, OpSteps
    <3> QED
      BY <2>1, <3>1 DEF WriteControl, Pop
  <2>4. CASE Op = "ack"
    <3>1. CheckAck
      BY <2>4, OpSteps
    <3> QED
      BY <2>1, <3>1 DEF CheckAck, Pop, Fail
  <2> QED
    BY <2>1, <2>2, <2>3, <2>4
<1>3. CASE s = MsgView /\ Op \notin {"reject", "unsupported"}
  <2>1. Move(Plain, Op, Talk(bus.msda, bus.mscl, x, 0, d, in, got), t)
    BY <1>3 DEF MsgView
  <2>2. \/ Op = "sda0" /\ bus.mscl = 0 /\ t = Talk(0, 0, x, 0, d, in, got)
        \/ Op = "sda1" /\ bus.mscl = 0 /\ t = Talk(1, 0, x, 0, d, in, got)
        \/ Op = "scl1" /\ bus.mscl = 0 /\ e.st = "read" /\ t = Asked
        \/ Op = "scl1" /\ bus.mscl = 0 /\ e.st # "read"
             /\ t = Talk(bus.msda, 1, x, 0, Seen(e), in, got)
        \/ /\ Op = "scl0" /\ bus.mscl = 1 /\ d.st # "read"
           /\ t = Talk(bus.msda, 0, Out(Fallen(d), <<>>), 0, Seen(Fallen(d)), in, got)
        \/ /\ Op = "sample"
           /\ t = Talk(bus.msda, bus.mscl, x, 0, d, Append(in, Wired(bus.msda, x)), got)
        \/ Op = "ack" /\ Last(in) = 0 /\ t = Talk(bus.msda, bus.mscl, x, 0, d, <<>>, got)
        \/ Op = "ack" /\ Last(in) # 0 /\ t = Gone
    <3>1. Op # "unsupported"
      BY <1>3
    <3> HIDE DEF d
    <3> QED
      BY <2>1, <3>1, PlainMoves
  <2>3. BusTypeOK
    BY DEF DeviceInv
  <2>4. /\ d.st = dev.st /\ e.st = AtEdge(dev, Wired(bus.msda, x)).st
        /\ Seen(e) = Seen(AtEdge(dev, Wired(bus.msda, x)))
        /\ Seen(Fallen(d)) = Seen(Fallen(dev))
        /\ dev.st # "read" => Out(Fallen(d), <<>>) = Out(Fallen(dev), mem)
    BY <2>3, MsgSeen
  <2>5. bus.mscl \in {0, 1} /\ (SCL(bus) <=> bus.mscl = 1)
    BY <2>3 DEF BusTypeOK, SCL, MsgCalm
  <2>6. MsgView' = Talk(bus'.msda, bus'.mscl, bus'.dsda, 0, Seen(dev'), in', got')
    BY DEF MsgView
  <2> HIDE DEF d, e
  <2>7. CASE Op \in {"sda0", "sda1", "scl0", "scl1"}
    <3>1. WriteControl
      BY <2>7, OpSteps
    <3>2. PICK b \in Levels :
             /\ Drive(b) /\ b.dsda = bus.dsda /\ b.hold = bus.hold
             /\ bus'.msda = b.msda /\ bus'.mscl = b.mscl
             /\ Op \in {"sda0", "start"} => b.msda = 0 /\ b.mscl = bus.mscl
             /\ Op \in {"sda1", "stop"} => b.msda = 1 /\ b.mscl = bus.mscl
             /\ Op = "scl0" => b.msda = bus.msda /\ b.mscl = 0
             /\ Op = "scl1" => b.msda = bus.msda /\ b.mscl = 1
             /\ todo' = Tail(todo) /\ UNCHANGED <<cleanup, rc, in, got>>
      BY <3>1, ControlStep
    <3>3. SCL(b) <=> b.mscl = 1
      BY <3>2 DEF SCL, MsgCalm
    <3>4. rc' = "OK" /\ todo' = Tail(todo) /\ in' = in /\ got' = got
      BY <3>2
    <3>5. CASE Op \in {"sda0", "sda1"}
      <4>1. bus.mscl = 0 /\ b.mscl = 0 /\ t = Talk(b.msda, 0, x, 0, d, in, got)
        BY <2>2, <3>2, <3>5
      <4>2. bus' = b /\ dev' = dev
        BY <2>5, <3>2, <3>3, <4>1, DriveLow
      <4>3. t = MsgView'
        BY <2>6, <3>2, <3>4, <4>1, <4>2 DEF d
      <4> QED
        BY <3>4, <4>3
    <3>6. CASE Op = "scl1"
      <4>1. bus.mscl = 0 /\ b.mscl = 1 /\ b.msda = bus.msda
            /\ (t = Asked \/ t = Talk(bus.msda, 1, x, 0, Seen(e), in, got))
        BY <2>2, <3>2, <3>6
      <4>2. bus' = b /\ dev' = AtEdge(dev, Level(b))
        BY <2>5, <3>2, <3>3, <4>1, DriveLow
      <4>3. Level(b) = Wired(bus.msda, x)
        BY <3>2, <4>1, LevelIs
      <4>4. t = Asked \/ t = MsgView'
        BY <2>4, <2>6, <3>2, <3>4, <4>1, <4>2, <4>3
      <4> QED
        BY <3>4, <4>4
    <3>7. CASE Op = "scl0"
      <4>1. bus.mscl = 1 /\ b.mscl = 0 /\ b.msda = bus.msda /\ d.st # "read"
            /\ t = Talk(bus.msda, 0, Out(Fallen(d), <<>>), 0, Seen(Fallen(d)), in, got)
        BY <2>2, <3>2, <3>7
      <4>2. dev' = Fallen(dev) /\ bus'.msda = b.msda /\ bus'.mscl = b.mscl
            /\ bus'.dsda = Out(dev', mem)
        BY <2>5, <3>2, <3>3, <4>1, DriveLow
      <4>3. t = MsgView'
        BY <2>4, <2>6, <3>4, <4>1, <4>2
      <4> QED
        BY <3>4, <4>3
    <3> QED
      BY <2>7, <3>5, <3>6, <3>7
  <2>8. CASE Op = "sample"
    <3>1. Sample
      BY <2>8, OpSteps
    <3>2. in' = Append(in, IF SDA(bus) THEN 1 ELSE 0) /\ todo' = Tail(todo)
          /\ bus' = bus /\ dev' = dev /\ rc' = rc /\ got' = got
      BY <3>1 DEF Sample, Pop, busVars
    <3>3. Wired(bus.msda, x) = IF SDA(bus) THEN 1 ELSE 0
      BY DEF Wired, SDA
    <3>4. t = MsgView'
      BY <2>2, <2>6, <2>8, <3>2, <3>3 DEF d
    <3> QED
      BY <3>2, <3>4
  <2>9. CASE Op = "ack"
    <3>1. CheckAck
      BY <2>9, OpSteps
    <3>2. CASE Last(in) # 0
      BY <3>1, <3>2 DEF CheckAck, Fail
    <3>3. CASE Last(in) = 0
      <4>1. in' = <<>> /\ todo' = Tail(todo) /\ bus' = bus /\ dev' = dev /\ rc' = rc /\ got' = got
        BY <3>1, <3>3 DEF CheckAck, Pop, busVars
      <4>2. t = MsgView'
        BY <2>2, <2>6, <2>9, <3>3, <4>1 DEF d
      <4> QED
        BY <4>1, <4>2
    <3> QED
      BY <3>2, <3>3
  <2> QED
    BY <2>2, <2>7, <2>8, <2>9
<1> QED
  BY <1>1, <1>2, <1>3

\* Before a START there is something to do.
LEMMA MsgAheadBusy ==
  ASSUME MsgCall(call), MsgAhead
  PROVE  todo # <<>>
<1> DEFINE n == Len(call.msgs)
           R == MsgLeft(call)
<1>1. /\ n \in Nat \ {0} /\ \A k \in 0 .. n : R[k] \in Seq(Ops)
      /\ \A k \in 1 .. n : MsgSends(call, k) \in Seq(Ops)
  BY MsgProgram
<1>2. 0 \in 0 .. n /\ \A k \in 1 .. n : k \in 0 .. n
  BY <1>1
<1>3. \A l \in MsgLeadIn \cup MsgLeads : l \in Seq(Ops) /\ l # <<>>
  BY MsgLeadHeads
<1>4. <<"reject">> \in Seq(Ops) /\ <<"reject">> # <<>>
  BY DEF Ops
<1>5. \E l, r \in Seq(Ops) : l # <<>> /\ todo = l \o r
  <2>1. \/ \E l \in MsgLeadIn : todo = l \o R[0]
        \/ \E k \in 1 .. n : todo = <<"reject">> \o R[k]
        \/ \E k \in 1 .. n : \E l \in MsgLeads : todo = l \o MsgSends(call, k)
    BY Zenon DEF MsgAhead, MsgAheadOf
  <2> HIDE DEF R, n
  <2> QED
    BY <1>1, <1>2, <1>3, <1>4, <2>1
<1>6. PICK l \in Seq(Ops), r \in Seq(Ops) : l # <<>> /\ todo = l \o r
  BY <1>5
<1>7. l \o r # <<>>
  BY <1>6, ConcatHead
<1> QED
  BY <1>6, <1>7

\* At the end of a message that leaves the bus to the next one.
LEMMA MsgLeaves ==
  ASSUME MsgCall(call), NEW k \in 1 .. Len(call.msgs), MsgView = MsgEndView(call.msgs[k]),
         ~call.msgs[k].stop, todo = MsgLeft(call)[k]
  PROVE  MsgAhead \/ MsgClosing
<1> DEFINE m == call.msgs[k]
           n == Len(call.msgs)
<1>1. n \in Nat \ {0} /\ k \in 0 .. n /\ m \in Msgs /\ m.buf \in Seq(Byte)
  <2>1. call.msgs \in Seq(Msgs) /\ call.msgs # <<>>
    BY DEF MsgCall
  <2>2. m \in Msgs /\ n \in Nat \ {0} /\ k \in 0 .. n
    BY <2>1
  <2>3. m.buf \in Seq(Byte)
    BY <2>2 DEF Msgs
  <2> QED
    BY <2>2, <2>3
<1>2. Talk(bus.msda, bus.mscl, bus.dsda, 0, Seen(dev), in, got)
      = Talk(1, 0, Out(Heeding(m.buf, Len(m.buf)), <<>>), 0, Heeding(m.buf, Len(m.buf)), <<>>, <<>>)
  BY DEF MsgView, MsgEndView, PlainLow
<1>3. Out(Heeding(m.buf, Len(m.buf)), <<>>) = 1
  BY <1>1, HeedingEnd
<1>4. bus.dsda = 1 /\ in = <<>> /\ got = <<>>
  <2> HIDE DEF m
  <2> QED
    BY <1>2, <1>3 DEF Talk
<1>5. MsgQuiet(bus, in, got)
  BY <1>4 DEF MsgQuiet
<1>6. MsgAheadOf(call, bus, todo, in, got) \/ (k = n /\ todo = <<>>)
  BY <1>1, <1>5, MsgReady
<1>7. k = n => Last(call.msgs) = m
  BY DEF Last
<1> QED
  BY <1>4, <1>6, <1>7 DEF MsgAhead, MsgClosing, MsgSent

\* The STOP of a message: the device begins to write what it was sent.
LEMMA MsgStops ==
  ASSUME DeviceInv, MsgCalm, MsgCall(call), rc = "OK", LineStep, UNCHANGED boardVars,
         NEW k \in 1 .. Len(call.msgs), MsgView = MsgEndView(call.msgs[k]), call.msgs[k].stop,
         todo = <<"stop">> \o MsgLeft(call)[k]
  PROVE  MsgFollows
<1> DEFINE m == call.msgs[k]
           n == Len(call.msgs)
           r == MsgLeft(call)[k]
           h == AtEdge(Heeding(m.buf, Len(m.buf)), 0)
<1>1. n \in Nat \ {0} /\ k \in 0 .. n /\ m \in Msgs /\ m.buf \in Seq(Byte)
  <2>1. call.msgs \in Seq(Msgs) /\ call.msgs # <<>>
    BY DEF MsgCall
  <2>2. m \in Msgs /\ n \in Nat \ {0} /\ k \in 0 .. n
    BY <2>1
  <2>3. m.buf \in Seq(Byte)
    BY <2>2 DEF Msgs
  <2> QED
    BY <2>2, <2>3
<1>2. r \in Seq(Ops)
  BY <1>1, MsgProgram
<1>3. Talk(bus.msda, bus.mscl, bus.dsda, 0, Seen(dev), in, got)
      = Talk(0, 1, 1, 0, h, <<>>, <<>>)
  BY DEF MsgView, MsgEndView
<1>4. /\ h.st \in {"word", "data"} /\ h.busy = FALSE
      /\ h.page = Payload(m.buf) /\ (Payload(m.buf) # <<>> => h.ptr = Pointer(m.buf))
  BY <1>1, HeedingEnd
<1> HIDE DEF m, h, r
<1>5. bus.msda = 0 /\ bus.mscl = 1 /\ bus.dsda = 1 /\ Seen(dev) = h /\ in = <<>> /\ got = <<>>
  BY <1>3 DEF Talk
<1>6. dev = h
  <2>1. Idle.st = "idle"
    BY DEF Idle
  <2> QED
    BY <1>4, <1>5, <2>1 DEF Seen
<1>7. Op = "stop" /\ Tail(todo) = r
  <2>1. <<"stop">> \in Seq(Ops) /\ <<"stop">> # <<>> /\ Head(<<"stop">>) = "stop"
        /\ Tail(<<"stop">>) = <<>>
    BY DEF Ops
  <2>2. Head(todo) = "stop" /\ Tail(todo) = <<>> \o r
    BY <1>2, <2>1, ConcatHead DEF r
  <2>3. <<>> \o r = r
    BY <1>2, ConcatEmptySeq
  <2> QED
    BY <2>2, <2>3, OpSteps
<1>8. WriteControl
  BY <1>7, OpSteps
<1>9. PICK b \in Levels :
         /\ Drive(b) /\ b.dsda = bus.dsda /\ b.hold = bus.hold
         /\ Op \in {"sda1", "stop"} => b.msda = 1 /\ b.mscl = bus.mscl
         /\ todo' = Tail(todo) /\ UNCHANGED <<cleanup, rc, in, got>>
  BY <1>8, ControlStep
<1>10. SCL(bus) /\ SCL(b) /\ ~SDA(bus) /\ SDA(b)
  BY <1>5, <1>7, <1>9 DEF SCL, SDA, MsgCalm
<1>11. StopSeen(b)
  BY <1>9, <1>10, DriveLow
<1>12. bus'.dsda = 1
  BY <1>9, <1>11 DEF StopSeen, Levels
<1>13. dev'.busy = (dev.page # <<>>) /\ dev'.page = dev.page /\ dev'.ptr = dev.ptr
  <2>1. dev' = [dev EXCEPT !.st = "idle", !.n = 0, !.busy = @ \/ dev.page # <<>>]
    BY <1>11 DEF StopSeen
  <2>2. dev \in [st : {"idle", "addr", "word", "data", "read"}, n : 0 .. Width + 1, sh : Byte,
                 words : 0 .. AddressWidth, ptr : 0 .. Cells - 1, page : Seq(Byte),
                 busy : BOOLEAN]
    BY DEF DeviceInv, BusTypeOK
  <2>3. dev.busy = FALSE
    BY <1>4, <1>6
  <2> QED
    BY <2>1, <2>2, <2>3
<1>14. call' = call /\ rc' = "OK" /\ todo' = r /\ in' = <<>> /\ got' = <<>>
  BY <1>5, <1>7, <1>9 DEF boardVars
<1>15. MsgQuiet(bus', in', got')
  BY <1>12, <1>14 DEF MsgQuiet
<1>16. MsgAheadOf(call, bus', todo', in', got') \/ (k = n /\ todo' = <<>>)
  BY <1>1, <1>14, <1>15, MsgReady DEF r
<1>17. CASE MsgAheadOf(call, bus', todo', in', got')
  BY <1>14, <1>17 DEF MsgFollows, MsgStage, MsgAhead
<1>18. CASE k = n /\ todo' = <<>>
  <2>1. Last(call.msgs) = m
    BY <1>18 DEF Last, m
  <2>2. \/ Payload(m.buf) = <<>>
        \/ dev'.busy /\ dev'.page = Payload(m.buf) /\ dev'.ptr = Pointer(m.buf)
    BY <1>4, <1>6, <1>13
  <2>3. MsgSent'
    BY <1>14, <2>1, <2>2 DEF MsgSent, Sent
  <2>4. MsgClosing'
    BY <1>12, <1>18, <2>3 DEF MsgClosing
  <2> QED
    BY <1>14, <2>4 DEF MsgFollows, MsgStage
<1> QED
  BY <1>16, <1>17, <1>18

\* Where a message ends, by what is seen.
LEMMA MsgNotThere ==
  ASSUME NEW m, NEW s \in {MsgView, Asked}, NEW u \in {Gone, MsgEndView(m)}, s = u
  PROVE  MsgView = MsgEndView(m)
<1>1. Gone.wait = 1 /\ Asked.wait = 2 /\ MsgView.wait = 0 /\ MsgEndView(m).wait = 0
  BY DEF Gone, Asked, MsgView, MsgEndView, PlainLow, Talk
<1> QED
  BY <1>1

\* In a message.
LEMMA MsgTrackStep ==
  ASSUME DeviceInv, MsgCalm, MsgCall(call), MsgTracking, rc = "OK", LineStep, UNCHANGED boardVars
  PROVE  MsgFollows
<1>1. PICK k \in 1 .. Len(call.msgs) :
        \E p \in Seq(Ops), s \in {MsgView, Asked}, u \in {Gone, MsgEndView(call.msgs[k])} :
          todo = p \o (MsgEnd(call.msgs[k]) \o MsgLeft(call)[k]) /\ Leads(Plain, s, p, u)
  BY DEF MsgTracking
<1> DEFINE m == call.msgs[k]
           r == MsgLeft(call)[k]
           f == MsgEnd(m) \o r
<1>2. PICK p \in Seq(Ops), s \in {MsgView, Asked}, u \in {Gone, MsgEndView(m)} :
        todo = p \o f /\ Leads(Plain, s, p, u)
  BY <1>1
<1>3. k \in 0 .. Len(call.msgs) /\ f \in Seq(Ops) /\ r \in Seq(Ops)
  <2>1. Len(call.msgs) \in Nat \ {0} /\ k \in 0 .. Len(call.msgs)
    BY MsgProgram
  <2> QED
    BY <2>1, MsgProgram
<1>4. call' = call
  BY DEF boardVars
<1> HIDE DEF m, r, f
<1>5. CASE p # <<>>
  <2>1. todo # <<>> /\ Op = Head(p) /\ Tail(todo) = Tail(p) \o f /\ Tail(p) \in Seq(Ops)
    BY <1>2, <1>3, <1>5, ConcatHead DEF Op
  <2>2. PICK t : Move(Plain, Head(p), s, t) /\ Leads(Plain, t, Tail(p), u)
    BY <1>2, <1>5, LeadsStep
  <2>3. rc' # "OK" \/ (rc' = "OK" /\ todo' = Tail(todo) /\ t \in {MsgView', Asked})
    BY <2>1, <2>2, MsgTrackOp
  <2>4. CASE rc' # "OK"
    BY <2>4 DEF MsgFollows
  <2>5. CASE rc' = "OK" /\ todo' = Tail(todo) /\ t \in {MsgView', Asked}
    <3>1. todo' = Tail(p) \o (MsgEnd(call.msgs[k]) \o MsgLeft(call)[k])
      BY <2>1, <2>5 DEF f, m, r
    <3>2. u \in {Gone, MsgEndView(call.msgs[k])}
      BY DEF m
    <3>3. MsgTracking'
      BY <1>4, <2>1, <2>2, <2>5, <3>1, <3>2, MsgTrackNext
    <3> QED
      BY <2>5, <3>3 DEF MsgFollows, MsgStage
  <2> QED
    BY <2>3, <2>4, <2>5
<1>6. CASE p = <<>>
  <2>1. s = u /\ todo = f
    BY <1>2, <1>3, <1>6, LeadsNone, ConcatEmptySeq
  <2>2. MsgView = MsgEndView(m)
    BY <2>1, MsgNotThere
  <2>3. CASE m.stop
    <3>1. todo = <<"stop">> \o r
      BY <2>1, <2>3 DEF f, MsgEnd
    <3> QED
      BY <2>2, <2>3, <3>1, MsgStops DEF m, r
  <2>4. CASE ~m.stop
    <3>1. todo = r
      BY <1>3, <2>1, <2>4, ConcatEmptySeq DEF f, MsgEnd
    <3>2. MsgAhead \/ MsgClosing
      BY <2>2, <2>4, <3>1, MsgLeaves DEF m, r
    <3>3. ~MsgClosing
      BY OpSteps DEF MsgClosing
    <3> QED
      BY <3>2, <3>3, MsgAheadStep
  <2> QED
    BY <2>3, <2>4
<1> QED
  BY <1>5, <1>6

\* The end of a call.
LEMMA MsgCloses ==
  ASSUME MsgCall(call), MsgStage, todo = <<>>
  PROVE  MsgClosing
<1>1. ~MsgAhead
  BY MsgAheadBusy
<1>2. CASE MsgTracking
  <2>1. PICK k \in 1 .. Len(call.msgs) :
          \E p \in Seq(Ops), s \in {MsgView, Asked}, u \in {Gone, MsgEndView(call.msgs[k])} :
            todo = p \o (MsgEnd(call.msgs[k]) \o MsgLeft(call)[k]) /\ Leads(Plain, s, p, u)
    BY <1>2 DEF MsgTracking
  <2> DEFINE m == call.msgs[k]
             r == MsgLeft(call)[k]
             f == MsgEnd(m) \o r
  <2>2. PICK p \in Seq(Ops), s \in {MsgView, Asked}, u \in {Gone, MsgEndView(m)} :
          todo = p \o f /\ Leads(Plain, s, p, u)
    BY <2>1
  <2>3. k \in 0 .. Len(call.msgs) /\ f \in Seq(Ops) /\ r \in Seq(Ops)
    <3>1. Len(call.msgs) \in Nat \ {0} /\ k \in 0 .. Len(call.msgs)
      BY MsgProgram
    <3> QED
      BY <3>1, MsgProgram
  <2> HIDE DEF m, r, f
  <2>4. p = <<>>
    BY <2>2, <2>3, ConcatHead
  <2>5. s = u /\ f = <<>>
    BY <2>2, <2>3, <2>4, LeadsNone, ConcatEmptySeq
  <2>6. MsgView = MsgEndView(m)
    BY <2>5, MsgNotThere
  <2>7. ~m.stop
    <3>1. <<"stop">> \in Seq(Ops) /\ <<"stop">> # <<>>
      BY DEF Ops
    <3>2. <<"stop">> \o r # <<>>
      BY <2>3, <3>1, ConcatHead
    <3> QED
      BY <2>5, <3>2 DEF f, MsgEnd
  <2>8. todo = r
    BY <2>3, <2>5, <2>7, ConcatEmptySeq DEF f, MsgEnd
  <2> QED
    BY <1>1, <2>6, <2>7, <2>8, MsgLeaves DEF m, r
<1> QED
  BY <1>1, <1>2 DEF MsgStage

-----------------------------------------------------------------------------
(* What a call of lab 13 knows, and a program that is about to make one. *)

\* The device does not roll over in it.
Fits(buf) ==
  Payload(buf) # <<>> => Len(Payload(buf)) <= PageSize - (Pointer(buf) % PageSize)

Meets(c) == c.op = "message" /\ c.msgs # <<>> => Fits(Last(c.msgs).buf)

\* Nobody stretches the clock of a driver that does not look, and what it sends stays on a page.
Lab13Scripts ==
  MessageStretch = 0 /\ \A s \in Scripts : \A i \in 1 .. Len(s) : Meets(s[i])

MsgInv ==
  call.op = "message" /\ resets = MaxResets =>
    /\ MsgCalm /\ attempt = 0
    /\ ret = "none" /\ rc = "OK" => MsgCall(call) /\ MsgStage
    /\ ret = "OK" => bus.dsda = 1 /\ MsgCall(call) /\ MsgSent

FreshInv ==
  /\ resets \in Nat /\ resets <= MaxResets
  /\ \A i \in 1 .. Len(script) : Meets(script[i])
  /\ call # NoCall => Meets(call)
  /\ call = NoCall /\ resets = MaxResets =>
       /\ bus.dsda = 1 /\ ~bus.hold
       /\ script # <<>> /\ script[1].op = "message" => stretches = 0

Lab13Inv == MsgInv /\ FreshInv

\* Where the data go is a cell.
LEMMA PointerCell ==
  ASSUME NEW buf \in Seq(Byte), Payload(buf) # <<>>
  PROVE  Pointer(buf) \in 0 .. Cells - 1
<1> DEFINE w == 2 ^ Width
           x == FirstWord(buf)
           y == x * w + buf[2]
<1>1. /\ Width \in Nat /\ w \in Nat \ {0} /\ Cells \in Nat \ {0} /\ AddressWidth \in {1, 2}
  BY PowerFacts, BusAssumption
<1>2. Len(buf) > AddressWidth /\ Len(buf) \in Nat
  BY <1>1, PayloadBytes
<1>3. buf[1] \in Nat /\ (AddressWidth = 2 => buf[2] \in Nat)
  <2>1. \A v \in Byte : v \in Nat
    BY <1>1 DEF Byte
  <2>2. 1 \in 1 .. Len(buf) /\ (AddressWidth = 2 => 2 \in 1 .. Len(buf))
    BY <1>1, <1>2
  <2> QED
    BY <2>1, <2>2
<1>4. x \in 0 .. Cells - 1
  <2>1. 0 * w + buf[1] = buf[1]
    BY <1>1, <1>3
  <2>2. x = buf[1] % Cells
    BY <2>1 DEF FirstWord
  <2> HIDE DEF x
  <2> QED
    BY <1>1, <1>3, <2>2, Division
<1>5. CASE AddressWidth = 1
  BY <1>4, <1>5 DEF Pointer
<1>6. CASE AddressWidth = 2
  <2>1. y \in Nat
    <3> HIDE DEF x, w
    <3>1. x \in Nat
      BY <1>1, <1>4
    <3> QED
      BY <1>1, <1>3, <1>6, <3>1
  <2>2. Pointer(buf) = y % Cells
    BY <1>6 DEF Pointer
  <2> HIDE DEF y
  <2> QED
    BY <1>1, <2>1, <2>2, Division
<1> QED
  BY <1>1, <1>5, <1>6

\* The internal write cycle brings the data of a message to their place.
LEMMA SentKept ==
  ASSUME DeviceInv, WriteCycleDone, NEW buf \in Seq(Byte), Fits(buf), Sent(buf)
  PROVE  Sent(buf)'
<1>1. BusTypeOK /\ dev.busy
  BY DEF DeviceInv, WriteCycleDone
<1>2. SUFFICES ASSUME Payload(buf) # <<>> PROVE Sent(buf)'
  BY DEF Sent
<1> DEFINE data == Payload(buf)
           q == Pointer(buf)
<1>3. q \in 0 .. Cells - 1 /\ q \in Nat /\ data \in Seq(Byte) /\ Len(data) \in Nat
  BY <1>2, PointerCell, PayloadBytes, BusAssumption
<1>4. Len(data) <= PageSize - (q % PageSize)
  BY <1>2 DEF Fits
<1>5. PageSize \in Nat \ {0} /\ Cells \in Nat \ {0} /\ Cells % PageSize = 0
  BY BusAssumption
<1>6. mem' = [a \in DOMAIN mem |->
               IF a \div PageSize = dev.ptr \div PageSize
                  /\ ((a - dev.ptr) % PageSize) + 1 \in DOMAIN dev.page
               THEN dev.page[((a - dev.ptr) % PageSize) + 1] ELSE mem[a]]
  BY DEF WriteCycleDone
<1>7. DOMAIN mem = 0 .. Cells - 1
  BY <1>1 DEF BusTypeOK
<1>8. q % PageSize \in 0 .. PageSize - 1 /\ q % Cells = q
  <2>1. q % Cells = q
    <3> HIDE DEF q
    <3> QED
      BY <1>3, <1>5
  <2> QED
    BY <1>3, <1>5, <2>1, Division
<1> HIDE DEF data, q
<1>9. ASSUME NEW i \in DOMAIN data
      PROVE  LET a == (q + i - 1) % Cells IN
             /\ a \in DOMAIN mem /\ a \div PageSize = q \div PageSize
             /\ ((a - q) % PageSize) + 1 = i
  <2> DEFINE j == i - 1
             c == (q + i - 1) % Cells
  <2>1. i \in 1 .. Len(data) /\ j \in Nat /\ j < PageSize - (q % PageSize) /\ q + i - 1 = q + j
    BY <1>3, <1>4, <1>5, <1>8
  <2>2. c = (q + j) % Cells
    BY <2>1
  <2>3. j + 1 = i
    BY <2>1
  <2> HIDE DEF j, c
  <2>4. OnPage(PageSize, Cells, q, j)
    BY <1>3, <1>5, <2>1, PageCells
  <2>5. c = q + j /\ c \in DOMAIN mem /\ c \div PageSize = q \div PageSize
        /\ (c - q) % PageSize = j
    BY <1>7, <1>8, <2>2, <2>4 DEF OnPage
  <2> QED
    BY <2>3, <2>5 DEF c
<1>10. ~dev'.busy
  <2>1. dev' = [dev EXCEPT !.busy = FALSE, !.page = <<>>]
    BY DEF WriteCycleDone
  <2> QED
    BY <1>1, <2>1 DEF BusTypeOK
<1>11. dev.page = data /\ dev.ptr = q
  BY <1>1, <1>2 DEF Sent, data, q
<1>12. ASSUME NEW i \in DOMAIN data
       PROVE  mem'[(q + i - 1) % Cells] = data[i]
  BY <1>6, <1>9, <1>11, <1>12
<1> QED
  BY <1>10, <1>12 DEF Sent, data, q

\* A step of a call of lab 13 on the lines.
LEMMA LineLab13 ==
  ASSUME BoardInv, Lab13Inv, LineStep, UNCHANGED boardVars
  PROVE  Lab13Inv'
<1>1. DeviceInv /\ ScriptInv
  BY DEF BoardInv
<1>2. todo # <<>>
  BY OpSteps
<1>3. call # NoCall /\ ret = "none"
  BY <1>1, <1>2 DEF ScriptInv
<1>4. /\ call' = call /\ script' = script /\ attempt' = attempt /\ ret' = ret
      /\ resets' = resets
  BY DEF boardVars
<1>5. FreshInv'
  BY <1>3, <1>4 DEF FreshInv, Lab13Inv
<1>6. SUFFICES ASSUME call.op = "message", resets = MaxResets
               PROVE  MsgInv'
  BY <1>4, <1>5 DEF MsgInv, Lab13Inv
<1>7. MsgCalm /\ attempt = 0 /\ (rc = "OK" => MsgCall(call) /\ MsgStage)
  BY <1>3, <1>6 DEF MsgInv, Lab13Inv
<1>8. MsgCalm'
  BY <1>1, <1>7, CalmKept
<1>9. ASSUME rc' = "OK"
      PROVE  MsgCall(call) /\ MsgStage'
  <2>1. rc = "OK" /\ MsgCall(call) /\ MsgStage
    BY <1>7, <1>9, FailedStays
  <2>2. MsgFollows
    <3>1. CASE MsgAhead
      BY <1>1, <1>7, <2>1, <3>1, MsgAheadStep
    <3>2. CASE MsgTracking
      BY <1>1, <1>7, <2>1, <3>2, MsgTrackStep
    <3>3. ~MsgClosing
      BY <1>2 DEF MsgClosing
    <3> QED
      BY <2>1, <3>1, <3>2, <3>3 DEF MsgStage
  <2> QED
    BY <1>9, <2>1, <2>2 DEF MsgFollows
<1> QED
  BY <1>3, <1>4, <1>7, <1>8, <1>9 DEF MsgInv

\* What is seen of a call is the same when the device, idle, does something.
LEMMA MsgStageKept ==
  ASSUME call' = call, todo' = todo, in' = in, got' = got, bus' = bus, Seen(dev') = Seen(dev),
         MsgSent => MsgSent'
  PROVE  MsgStage => MsgStage'
<1>1. MsgAhead => MsgAhead'
  BY DEF MsgAhead
<1>2. MsgView' = MsgView
  BY DEF MsgView
<1>3. MsgTracking => MsgTracking'
  BY <1>2 DEF MsgTracking
<1>4. MsgClosing => MsgClosing'
  BY DEF MsgClosing
<1> QED
  BY <1>1, <1>3, <1>4 DEF MsgStage

\* The device has written.
LEMMA WrittenLab13 ==
  ASSUME BoardInv, Lab13Inv, WriteCycleDone, UNCHANGED <<masterVars, boardVars>>
  PROVE  Lab13Inv'
<1>1. DeviceInv /\ BusTypeOK /\ ScriptInv
  BY DEF BoardInv, DeviceInv
<1>2. /\ call' = call /\ script' = script /\ attempt' = attempt /\ ret' = ret
      /\ resets' = resets /\ todo' = todo /\ rc' = rc /\ in' = in /\ got' = got
      /\ bus' = bus /\ stretches' = stretches
  BY DEF boardVars, masterVars, WriteCycleDone
<1>3. FreshInv'
  BY <1>2 DEF FreshInv, Lab13Inv
<1>4. SUFFICES ASSUME call.op = "message", resets = MaxResets
               PROVE  MsgInv'
  BY <1>2, <1>3 DEF MsgInv, Lab13Inv
<1>5. dev.st = "idle" /\ dev'.st = "idle"
  <2>1. dev.busy /\ dev' = [dev EXCEPT !.busy = FALSE, !.page = <<>>]
    BY DEF WriteCycleDone
  <2>2. dev.st = "idle"
    BY <1>1, <2>1 DEF DeviceInv
  <2> QED
    BY <1>1, <2>1, <2>2 DEF BusTypeOK
<1>6. Seen(dev') = Seen(dev)
  BY <1>5 DEF Seen
<1>7. ASSUME MsgCall(call), MsgSent
      PROVE  MsgSent'
  <2> DEFINE m == Last(call.msgs)
  <2>1. m \in Msgs /\ call.msgs # <<>>
    <3>1. call.msgs \in Seq(Msgs) /\ call.msgs # <<>>
      BY <1>7 DEF MsgCall
    <3> QED
      BY <3>1 DEF Last
  <2>2. m.buf \in Seq(Byte)
    BY <2>1 DEF Msgs
  <2>3. Fits(m.buf)
    <3>1. call # NoCall
      BY <1>4 DEF NoCall
    <3>2. Meets(call)
      BY <3>1 DEF FreshInv, Lab13Inv
    <3> QED
      BY <1>4, <2>1, <3>2 DEF Meets
  <2>4. m' = m
    BY <1>2
  <2> HIDE DEF m
  <2>5. ASSUME m.stop
        PROVE  Sent(m.buf)'
    <3>1. Sent(m.buf)
      BY <1>7, <2>5 DEF MsgSent, m
    <3> DEFINE buf == m.buf
    <3>2. buf' = buf
      BY <2>4
    <3>3. buf \in Seq(Byte) /\ Fits(buf) /\ Sent(buf)
      BY <2>2, <2>3, <3>1
    <3> HIDE DEF buf
    <3>4. Sent(buf)'
      BY <1>1, <3>2, <3>3, SentKept
    <3> QED
      BY <3>4 DEF buf
  <2> QED
    BY <2>4, <2>5 DEF MsgSent, m
<1>8. ASSUME MsgCall(call), MsgStage
      PROVE  MsgStage'
  BY <1>2, <1>6, <1>7, <1>8, MsgStageKept
<1>9. MsgCalm => MsgCalm'
  BY <1>2 DEF MsgCalm
<1> QED
  BY <1>2, <1>4, <1>7, <1>8, <1>9 DEF MsgInv, Lab13Inv

\* A call of lab 13 returns.
LEMMA DoneLab13 ==
  ASSUME BoardInv, Lab13Inv, TransferDone \/ WaitReady
  PROVE  Lab13Inv'
<1>1. ScriptInv
  BY DEF BoardInv
<1>2. call # NoCall /\ todo = <<>> /\ ret = "none"
  BY <1>1 DEF TransferDone, WaitReady, ScriptInv
<1>3. call' = call /\ resets' = resets /\ (script' = script \/ script' = <<>>)
  BY DEF TransferDone, WaitReady, CallReturns
<1>4. FreshInv'
  BY <1>2, <1>3 DEF FreshInv, Lab13Inv
<1>5. SUFFICES ASSUME call.op = "message", resets = MaxResets
               PROVE  MsgInv'
  BY <1>3, <1>4 DEF MsgInv, Lab13Inv
<1>6. MsgCalm /\ attempt = 0 /\ (rc = "OK" => MsgCall(call) /\ MsgStage)
  BY <1>2, <1>5 DEF MsgInv, Lab13Inv
<1>7. CallReturns(rc)
  BY <1>5, <1>6 DEF TransferDone, WaitReady
<1>8. ret' = rc /\ rc' = rc /\ attempt' = 0 /\ bus' = bus /\ dev' = dev /\ mem' = mem
      /\ stretches' = stretches
  BY <1>7 DEF CallReturns, busVars, masterVars
<1>9. MsgCalm'
  BY <1>6, <1>8 DEF MsgCalm
<1>10. ASSUME rc = "OK"
       PROVE  bus.dsda = 1 /\ MsgCall(call) /\ MsgSent
  <2>1. MsgCall(call) /\ MsgStage
    BY <1>6, <1>10
  <2>2. MsgClosing
    BY <1>2, <2>1, MsgCloses
  <2> QED
    BY <2>1, <2>2 DEF MsgClosing
<1>11. MsgSent => MsgSent'
  BY <1>3, <1>8 DEF MsgSent, Sent
<1> QED
  BY <1>3, <1>8, <1>9, <1>10, <1>11 DEF MsgInv

\* A program is chosen.
LEMMA BootLab13 ==
  ASSUME Lab13Scripts, BoardInv, Lab13Inv, Boot
  PROVE  Lab13Inv'
<1>1. PICK s \in Scripts :
        /\ script' = s
        /\ stretches' = IF Head(s).op = "message" THEN MessageStretch ELSE DeviceStretch
  BY DEF Boot
<1>2. call = NoCall /\ call' = call /\ resets' = resets /\ bus' = bus
  BY DEF Boot
<1>3. s \in Seq(Calls) /\ s # <<>> /\ Head(s) = s[1]
  BY <1>1, ScriptAssumption
<1>4. MessageStretch = 0 /\ \A i \in 1 .. Len(s) : Meets(s[i])
  BY DEF Lab13Scripts
<1>5. \A i \in 1 .. Len(script') : Meets(script'[i])
  BY <1>1, <1>4
<1>6. script'[1].op = "message" => stretches' = 0
  BY <1>1, <1>3, <1>4
<1>7. FreshInv'
  BY <1>2, <1>5, <1>6 DEF FreshInv, Lab13Inv
<1>8. call'.op # "message"
  BY <1>2 DEF NoCall
<1> QED
  BY <1>7, <1>8 DEF Lab13Inv, MsgInv

\* The bus and the device that the next call of lab 13 finds.
LEMMA QuietBefore ==
  ASSUME BoardInv, Lab13Inv, NextCall, Head(script).op = "message", resets = MaxResets
  PROVE  MsgCalm /\ bus.dsda = 1
<1>1. script \in Seq(Calls) /\ script # <<>> /\ (call = NoCall \/ ret = "OK")
  BY DEF BoardInv, ScriptInv, NextCall
<1>2. Head(script) = script[1] /\ 1 \in 1 .. Len(script)
  BY <1>1
<1>3. CASE call = NoCall
  BY <1>1, <1>2, <1>3 DEF Lab13Inv, FreshInv, MsgCalm
<1>4. CASE call # NoCall
  <2>1. call.op = "message" /\ ret = "OK"
    BY <1>1, <1>2, <1>4 DEF BoardInv, ScriptInv
  <2> QED
    BY <2>1 DEF Lab13Inv, MsgInv
<1> QED
  BY <1>3, <1>4

\* What i2c_transfer_bitbang is going to do.
LEMMA MsgPerforms ==
  ASSUME NEW dest, NEW msgs, msgs # <<>>, ~(dest >= 2 ^ (Width - 1)), MsgTransfer(dest, msgs)
  PROVE  Perform(<<"sda1", "scl1">> \o FlattenSeq(MsgBlocks(dest, msgs)), "OK", "message")
<1> DEFINE message(k) ==
        IF msgs[k].buf = <<>> \/ (k > 1 /\ ~msgs[k].restart) THEN <<"reject">>
        ELSE MsgStart \o MsgSendAddress(dest, msgs[k].read)
               \o (IF msgs[k].read THEN <<"unsupported">> ELSE MsgWrite(msgs[k]))
               \o (IF msgs[k].stop THEN MsgStop ELSE <<>>)
<1>1. Perform(<<"sda1", "scl1">> \o FlattenSeq([k \in 1 .. Len(msgs) |-> message(k)]),
              "OK", "message")
  BY DEF MsgTransfer
<1>2. \A k \in 1 .. Len(msgs) :
        message(k) = IF MsgAccepted(msgs, k) THEN MsgOps(dest, msgs[k]) ELSE <<"reject">>
  <2> TAKE k \in 1 .. Len(msgs)
  <2>1. CASE MsgAccepted(msgs, k)
    BY <2>1 DEF MsgAccepted, MsgOps, MsgBody
  <2>2. CASE ~MsgAccepted(msgs, k)
    BY <2>2 DEF MsgAccepted
  <2> QED
    BY <2>1, <2>2
<1> HIDE DEF message
<1>3. [k \in 1 .. Len(msgs) |-> message(k)] = MsgBlocks(dest, msgs)
  BY <1>2 DEF MsgBlocks
<1> QED
  BY <1>1, <1>3

\* A call of lab 13 begins.
LEMMA NextCallLab13 ==
  ASSUME BoardInv, Lab13Inv, NextCall
  PROVE  Lab13Inv'
<1> DEFINE c == Head(script)
<1>1. /\ script # <<>> /\ call' = c /\ script' = Tail(script) /\ ret' = "none" /\ attempt' = 0
      /\ bus' = bus /\ dev' = dev /\ mem' = mem /\ stretches' = stretches /\ resets' = resets
  BY DEF NextCall, busVars
<1>2. c.op = "message" => MsgTransfer(c.target, c.msgs)
  BY DEF NextCall
<1>3. script \in Seq(Calls) /\ c = script[1] /\ 1 \in 1 .. Len(script) /\ Len(script) \in Nat
      /\ \A i \in 1 .. Len(script') : i + 1 \in 1 .. Len(script) /\ script'[i] = script[i + 1]
  BY <1>1 DEF BoardInv, ScriptInv
<1>4. c \in Calls
  BY <1>3
<1>5. FreshInv'
  <2>1. c # NoCall
    <3>1. c.op # "none"
      BY <1>4, CallFields
    <3> QED
      BY <3>1 DEF NoCall
  <2>2. Meets(c) /\ \A i \in 1 .. Len(script') : Meets(script'[i])
    BY <1>3 DEF Lab13Inv, FreshInv
  <2> HIDE DEF c
  <2> QED
    BY <1>1, <2>1, <2>2 DEF Lab13Inv, FreshInv
<1>6. SUFFICES ASSUME c.op = "message", resets = MaxResets
               PROVE  MsgInv'
  BY <1>1, <1>5 DEF MsgInv, Lab13Inv
<1>7. MsgCalm /\ bus.dsda = 1
  BY <1>6, QuietBefore
<1>8. MsgCalm'
  BY <1>1, <1>7 DEF MsgCalm
<1> HIDE DEF c
<1>9. c.msgs \in Seq(Msgs) /\ c.target \in Nat
  <2>1. c.msgs \in Seq(Msgs)
    BY <1>4, <1>6, CallFields
  <2>2. c.target \in Nat
    BY <1>4, <1>6 DEF Calls
  <2> QED
    BY <2>1, <2>2
<1>10. ASSUME rc' = "OK"
       PROVE  MsgCall(c) /\ MsgStage'
  <2> DEFINE z == 2 ^ (Width - 1)
  <2>1. z \in Nat
    <3>1. Width - 1 \in 0 .. Width
      BY PowerFacts
    <3> QED
      BY <3>1, PowerFacts
  <2>2. c.msgs # <<>> /\ ~(c.target >= 2 ^ (Width - 1))
    BY <1>2, <1>6, <1>10 DEF MsgTransfer, Perform
  <2>3. c.target < z
    <3> HIDE DEF z
    <3>1. ~(c.target >= z)
      BY <2>2 DEF z
    <3> QED
      BY <1>9, <2>1, <3>1
  <2>4. MsgCall(c)
    BY <1>9, <2>2, <2>3 DEF MsgCall
  <2>5. Perform(<<"sda1", "scl1">> \o FlattenSeq(MsgBlocks(c.target, c.msgs)), "OK", "message")
    BY <1>2, <1>6, <2>2, MsgPerforms
  <2>6. FlattenSeq(MsgBlocks(c.target, c.msgs)) = MsgLeft(c)[0]
    BY <2>4, MsgProgram
  <2>7. todo' = <<"sda1", "scl1">> \o MsgLeft(c)[0] /\ in' = <<>> /\ got' = <<>>
    BY <2>5, <2>6 DEF Perform
  <2>8. MsgQuiet(bus', in', got')
    BY <1>1, <1>7, <2>7 DEF MsgQuiet
  <2>9. <<"sda1", "scl1">> \in MsgLeadIn
    BY DEF MsgLeadIn
  <2>10. MsgAheadOf(c, bus', todo', in', got')
    BY <2>7, <2>8, <2>9, Zenon DEF MsgAheadOf
  <2>11. MsgAhead'
    BY <1>1, <2>10 DEF MsgAhead
  <2> QED
    BY <2>4, <2>11 DEF MsgStage
<1> QED
  BY <1>1, <1>8, <1>10 DEF MsgInv

\* Every step keeps it.
LEMMA Lab13Step ==
  ASSUME Lab13Scripts, BoardInv, Lab13Inv, [BoardNext]_i2cVars
  PROVE  Lab13Inv'
<1>1. CASE LineStep /\ UNCHANGED boardVars
  BY <1>1, LineLab13
<1>2. CASE WriteCycleDone /\ UNCHANGED <<masterVars, boardVars>>
  BY <1>2, WrittenLab13
<1>3. CASE Unstretch /\ UNCHANGED <<masterVars, boardVars>>
  <2>1. bus.hold
    BY <1>3 DEF Unstretch
  <2>2. call' = call /\ script' = script /\ resets' = resets
    BY <1>3 DEF boardVars
  <2>3. resets = MaxResets => call # NoCall /\ call.op # "message"
    BY <2>1 DEF Lab13Inv, FreshInv, MsgInv, MsgCalm
  <2> QED
    BY <2>2, <2>3 DEF Lab13Inv, FreshInv, MsgInv
<1>4. CASE TransferDone \/ WaitReady
  BY <1>4, DoneLab13
<1>5. CASE Boot
  BY <1>5, BootLab13
<1>6. CASE NextCall
  BY <1>6, NextCallLab13
<1>7. CASE Reset
  <2>1. call' = NoCall /\ script' = <<>> /\ resets' = resets - 1 /\ resets > 0
    BY <1>7 DEF Reset
  <2>2. resets' \in Nat /\ resets' <= MaxResets /\ resets' # MaxResets
    BY <2>1, BoardAssumption DEF Lab13Inv, FreshInv
  <2>3. call'.op # "message"
    BY <2>1 DEF NoCall
  <2> QED
    BY <2>1, <2>2, <2>3 DEF Lab13Inv, FreshInv, MsgInv
<1>8. CASE Stopped \/ UNCHANGED i2cVars
  <2>1. UNCHANGED <<bus, dev, mem, stretches, todo, rc, in, got, script, call, attempt, ret,
                    resets>>
    BY <1>8 DEF Stopped, i2cVars, busVars, masterVars, boardVars
  <2>2. FreshInv'
    BY <2>1 DEF FreshInv, Lab13Inv
  <2>3. MsgSent => MsgSent'
    BY <2>1 DEF MsgSent, Sent
  <2>4. Seen(dev') = Seen(dev)
    BY <2>1
  <2>5. MsgStage => MsgStage'
    BY <2>1, <2>3, <2>4, MsgStageKept
  <2>6. MsgCalm => MsgCalm'
    BY <2>1 DEF MsgCalm
  <2> QED
    BY <2>1, <2>2, <2>3, <2>5, <2>6 DEF MsgInv, Lab13Inv
<1> QED
  BY <1>1, <1>2, <1>3, <1>4, <1>5, <1>6, <1>7, <1>8 DEF BoardNext

\* What lab 13 reports as sent was acknowledged to the last byte, and is in the device's page
\* buffer or in its memory (i2c_message.c:123-249): from power-on, when nobody stretches the
\* clock, which that driver never looks at, and what is sent last stays on a page, where the
\* device does not roll over.
THEOREM MessagesArrive == Lab13Scripts => (BoardSpec => []MessageArrives)
<1> SUFFICES ASSUME Lab13Scripts
             PROVE  BoardSpec => []MessageArrives
  OBVIOUS
<1>1. BoardInit => Lab13Inv
  <2> SUFFICES ASSUME BoardInit PROVE Lab13Inv
    OBVIOUS
  <2>1. script = <<>> /\ call = NoCall /\ resets = MaxResets /\ bus.dsda = 1 /\ ~bus.hold
    BY DEF BoardInit, BusInit
  <2>2. call.op # "message"
    BY <2>1 DEF NoCall
  <2> QED
    BY <2>1, <2>2, BoardAssumption DEF Lab13Inv, MsgInv, FreshInv
<1>2. BoardInv /\ Lab13Inv /\ [BoardNext]_i2cVars => Lab13Inv'
  BY Lab13Step
<1>3. ASSUME BoardInv, Lab13Inv
      PROVE  MessageArrives
  <2> DEFINE buf == Last(call.msgs).buf
             data == SubSeq(buf, AddressWidth + 1, Len(buf))
  <2>1. SUFFICES ASSUME ret = "OK", call.op = "message", Last(call.msgs).stop, resets = MaxResets
                 PROVE  \/ dev.page = data
                        \/ \E a \in DOMAIN mem :
                             \A i \in DOMAIN data : mem[(a + i - 1) % Cells] = data[i]
    BY DEF MessageArrives
  <2>2. MsgCall(call) /\ MsgSent
    BY <1>3, <2>1 DEF Lab13Inv, MsgInv
  <2>3. buf \in Seq(Byte)
    <3>1. call.msgs \in Seq(Msgs) /\ call.msgs # <<>>
      BY <2>2 DEF MsgCall
    <3>2. Last(call.msgs) \in Msgs
      BY <3>1 DEF Last
    <3> QED
      BY <3>2 DEF Msgs
  <2>4. Sent(buf)
    BY <2>1, <2>2 DEF MsgSent
  <2>5. data = Payload(buf)
    BY DEF Payload
  <2>6. DOMAIN mem = 0 .. Cells - 1 /\ Cells \in Nat \ {0}
    BY <1>3, BusAssumption DEF BoardInv, DeviceInv, BusTypeOK
  <2> HIDE DEF buf, data
  <2>7. CASE data = <<>>
    <3>1. 0 \in DOMAIN mem /\ DOMAIN data = {}
      BY <2>6, <2>7
    <3> QED
      BY <3>1
  <2>8. CASE data # <<>>
    <3>1. Pointer(buf) \in DOMAIN mem
      BY <2>3, <2>5, <2>6, <2>8, PointerCell
    <3>2. \/ dev.page = data
          \/ \A i \in DOMAIN data : mem[(Pointer(buf) + i - 1) % Cells] = data[i]
      BY <2>4, <2>5, <2>8 DEF Sent
    <3> QED
      BY <3>1, <3>2
  <2> QED
    BY <2>7, <2>8
<1>4. BoardSpec => []Lab13Inv
  BY <1>1, <1>2, BoardInvariance, PTL DEF BoardSpec
<1> QED
  BY <1>3, <1>4, BoardInvariance, PTL
=============================================================================
