--------------------------- MODULE StreamsProofs ---------------------------
(* What the byte streams promise, for rings of every length, every number of *)
(* descriptors and readers and writes and reads of every length.  The first  *)
(* part is about positions on a ring, the second about its operations, the   *)
(* third about the streams built on it.                                      *)
EXTENDS Streams, SequenceTheorems, TLAPS

-----------------------------------------------------------------------------
(* Remainders.                                                               *)

\* A place at most one turn off the ring, brought back onto it.
At(n, x) == IF x < 0 THEN x + n ELSE IF x < n THEN x ELSE x - n

\* A remainder is on the ring.
LEMMA ModRange == ASSUME NEW n \in Nat \ {0}, NEW x \in Int PROVE x % n \in 0 .. n - 1
  OBVIOUS

\* Within a turn of the ring a remainder is a sum or a difference.
LEMMA ModAt == ASSUME NEW n \in Nat \ {0}, NEW x \in (-n) .. 2 * n - 1 PROVE x % n = At(n, x)
<1>1. CASE x < 0
  BY <1>1 DEF At
<1>2. CASE x \in 0 .. n - 1
  BY <1>2 DEF At
<1>3. CASE x >= n
  BY <1>3 DEF At
<1> QED
  BY <1>1, <1>2, <1>3

\* A quotient and a remainder are unique.
LEMMA ModUnique ==
    ASSUME NEW n \in Nat \ {0}, NEW q \in Int, NEW r \in 0 .. n - 1 PROVE (n * q + r) % n = r
  OBVIOUS

\* A number is its quotient and its remainder.
LEMMA ModSplit ==
    ASSUME NEW n \in Nat \ {0}, NEW x \in Int
    PROVE  \E q \in Int : x = n * q + (x % n)
<1>1. x \div n \in Int /\ x = n * (x \div n) + (x % n)
  OBVIOUS
<1> QED
  BY <1>1

\* Whole turns do not matter.
LEMMA ModTurns ==
    ASSUME NEW n \in Nat \ {0}, NEW x \in Int, NEW q \in Int PROVE (n * q + x) % n = x % n
<1>1. PICK a \in Int : x = n * a + (x % n)
  BY ModSplit
<1>2. x % n \in 0 .. n - 1
  BY ModRange
<1>3. PICK r \in 0 .. n - 1 : r = x % n
  BY <1>2
<1>d. PICK d \in Int : d = q + a
  OBVIOUS
<1>4. n * q + x = n * d + r
  BY <1>1, <1>3, <1>d
<1>5. (n * d + r) % n = r
  BY ModUnique
<1> QED
  BY <1>3, <1>4, <1>5

\* The place of a sum depends on the place of its summand only.
LEMMA ModAdd ==
    ASSUME NEW n \in Nat \ {0}, NEW x \in Int, NEW k \in Int
    PROVE  (x + k) % n = ((x % n) + k) % n
<1>1. PICK a \in Int : x = n * a + (x % n)
  BY ModSplit
<1>2. PICK r \in 0 .. n - 1 : r = x % n
  BY ModRange
<1>d. PICK d \in Int : d = r + k
  OBVIOUS
<1>3. x + k = n * a + d
  BY <1>1, <1>2, <1>d
<1>4. (n * a + d) % n = d % n
  BY ModTurns
<1> QED
  BY <1>2, <1>3, <1>4, <1>d

\* An offset that wraps at a multiple of the ring's length stays on its place.
LEMMA ModMod ==
    ASSUME NEW n \in Nat \ {0}, NEW m \in Nat \ {0}, m % n = 0, NEW x \in Int
    PROVE  (x % m) % n = x % n
<1>1. PICK c \in Int : m = n * c
  <2>1. m \in Int
    OBVIOUS
  <2>2. PICK c \in Int : m = n * c + (m % n)
    BY <2>1, ModSplit
  <2> QED
    BY <2>2
<1>2. PICK a \in Int : x = m * a + (x % m)
  BY ModSplit
<1>3. PICK r \in 0 .. m - 1 : r = x % m
  BY ModRange
<1>d. PICK d \in Int : d = c * a
  OBVIOUS
<1>4. x = n * d + r
  <2>1. (n * c) * a = n * (c * a)
    OBVIOUS
  <2> QED
    BY <1>1, <1>2, <1>3, <1>d, <2>1
<1>5. r \in Int
  OBVIOUS
<1>6. (n * d + r) % n = r % n
  BY <1>5, ModTurns
<1> QED
  BY <1>3, <1>4, <1>6

-----------------------------------------------------------------------------
(* Rings.                                                                    *)

\* The bytes between two places of a ring, and that they are p's.
Space(n, s, e) == IF s <= e THEN e - s ELSE n - s + e
Flat(n, s, e, data, p) ==
    /\ Len(p) = Space(n, s, e)
    /\ \A i \in 1 .. Len(p) : p[i] = data[At(n, s + i - 1)]

\* A read takes as many bytes as there are and as are asked for, and stops right
\* behind them.
LEMMA TwoPartsRead ==
    ASSUME NEW n \in Nat \ {0}, NEW s \in 0 .. n - 1, NEW e \in 0 .. n - 1, NEW siz \in Nat
    PROVE  /\ TwoParts(n, s, e, s > e, siz).count = Least(Space(n, s, e), siz)
           /\ TwoParts(n, s, e, s > e, siz).stop = At(n, s + Least(Space(n, s, e), siz))
<1>1. CASE s > e
  BY <1>1 DEF TwoParts, Least, Space, At
<1>2. CASE ~(s > e)
  BY <1>2 DEF TwoParts, Least, Space, At
<1> QED
  BY <1>1, <1>2

\* What is left when n bytes were taken.
LEMMA FlatDrop ==
    ASSUME NEW n \in Nat \ {0}, NEW s \in 0 .. n - 1, NEW e \in 0 .. n - 1,
           NEW data, NEW T, NEW p \in Seq(T), Flat(n, s, e, data, p),
           NEW k \in 0 .. Len(p)
    PROVE  Flat(n, At(n, s + k), e, data, SubSeq(p, k + 1, Len(p)))
<1>1. PICK m \in Nat : m = Len(p)
  OBVIOUS
<1>2. m = Space(n, s, e)
  BY <1>1 DEF Flat
<1>3. Len(SubSeq(p, k + 1, m)) = m - k
  BY <1>1
<1>4. m - k = Space(n, At(n, s + k), e)
  BY <1>1, <1>2 DEF Space, At
<1>5. ASSUME NEW i \in 1 .. m - k
      PROVE  SubSeq(p, k + 1, m)[i] = data[At(n, At(n, s + k) + i - 1)]
  <2>1. SubSeq(p, k + 1, m)[i] = p[k + i]
    BY <1>1
  <2>2. p[k + i] = data[At(n, s + (k + i) - 1)]
    BY <1>1 DEF Flat
  <2>3. At(n, s + (k + i) - 1) = At(n, At(n, s + k) + i - 1)
    BY <1>1, <1>2 DEF Space, At
  <2> QED
    BY <2>1, <2>2, <2>3
<1> QED
  BY <1>1, <1>3, <1>4, <1>5 DEF Flat

\* new is data with the bytes written from place e on.
Stored(n, e, data, bytes, new) ==
    \A i \in 0 .. n - 1 :
       new[i] = IF At(n, i - e) < Len(bytes) THEN bytes[At(n, i - e) + 1] ELSE data[i]

\* The bytes of a write that does not fill the ring come after those that are there.
LEMMA FlatStore ==
    ASSUME NEW n \in Nat \ {0}, NEW s \in 0 .. n - 1, NEW e \in 0 .. n - 1,
           NEW data, NEW T, NEW p \in Seq(T), Flat(n, s, e, data, p),
           NEW bytes \in Seq(T), Len(p) + Len(bytes) < n,
           NEW new, Stored(n, e, data, bytes, new)
    PROVE  Flat(n, s, At(n, e + Len(bytes)), new, p \o bytes)
<1>1. PICK m \in Nat : m = Len(p)
  OBVIOUS
<1>2. PICK k \in Nat : k = Len(bytes)
  OBVIOUS
<1>3. m = Space(n, s, e) /\ m + k < n
  BY <1>1, <1>2 DEF Flat
<1>4. Len(p \o bytes) = m + k
  BY <1>1, <1>2
<1>5. m + k = Space(n, s, At(n, e + k))
  BY <1>3 DEF Space, At
<1>6. ASSUME NEW i \in 1 .. m + k
      PROVE  (p \o bytes)[i] = new[At(n, s + i - 1)]
  <2>0. At(n, s + i - 1) \in 0 .. n - 1
    BY <1>3 DEF At
  <2>1. PICK x \in 0 .. n - 1 : x = At(n, s + i - 1)
    BY <2>0
  <2>2. new[x] = IF At(n, x - e) < k THEN bytes[At(n, x - e) + 1] ELSE data[x]
    BY <1>2 DEF Stored
  <2>3. CASE i <= m
    <3>1. ~(At(n, x - e) < k)
      BY <2>1, <2>3, <1>3 DEF Space, At
    <3>2. p[i] = data[x]
      <4>1. i \in 1 .. Len(p)
        BY <2>3, <1>1
      <4> QED
        BY <4>1, <2>1 DEF Flat
    <3>3. (p \o bytes)[i] = p[i]
      BY <2>3, <1>1, <1>2
    <3> QED
      BY <3>1, <3>2, <3>3, <2>1, <2>2
  <2>4. CASE i > m
    <3>1. At(n, x - e) = i - m - 1
      BY <2>1, <2>4, <1>3 DEF Space, At
    <3>2. (p \o bytes)[i] = bytes[i - m]
      BY <2>4, <1>1, <1>2
    <3>3. new[x] = bytes[(i - m - 1) + 1]
      BY <3>1, <2>2, <2>4
    <3> QED
      BY <3>2, <3>3, <2>1
  <2>5. i <= m \/ i > m
    OBVIOUS
  <2> QED
    BY <2>3, <2>4, <2>5
<1> QED
  BY <1>2, <1>4, <1>5, <1>6 DEF Flat

-----------------------------------------------------------------------------
(* The operations of ringbuffer.c.                                           *)

USE DEF Tag

\* Every offset has a place.
LEMMA Place == ASSUME NEW at \in Nat PROVE at % RingLen \in 0 .. RingLen - 1
<1>1. RingLen \in Nat \ {0} /\ at \in Int
  BY StreamsAssumption
<1> QED
  BY <1>1, ModRange

\* A place is its own.
LEMMA PlaceKept == ASSUME NEW s \in 0 .. RingLen - 1 PROVE s % RingLen = s /\ s \in Nat
<1>1. RingLen \in Nat \ {0}
  BY StreamsAssumption
<1> QED
  BY <1>1

\* What follows a part of a sequence.
LEMMA TailType ==
    ASSUME NEW T, NEW p \in Seq(T), NEW k \in 0 .. Len(p)
    PROVE  /\ SubSeq(p, k + 1, Len(p)) \in Seq(T)
           /\ Len(SubSeq(p, k + 1, Len(p))) = Len(p) - k
<1>1. k + 1 \in 1 .. Len(p) + 1 /\ Len(p) \in k + 1 - 1 .. Len(p)
  OBVIOUS
<1> QED
  BY <1>1, SubSeqProperties

\* Holds in terms of places.
LEMMA HoldsFlat ==
    ASSUME NEW b \in Ring, NEW at \in Nat, NEW p \in Seq(Tag)
    PROVE  Holds(b, at, p) <=> Flat(RingLen, at % RingLen, b.end, b.data, p)
<1>1. RingLen \in Nat \ {0}
  BY StreamsAssumption
<1>2. b.len = RingLen /\ b.end \in 0 .. RingLen - 1
  BY DEF Ring
<1>3. PICK s \in 0 .. RingLen - 1 : s = at % RingLen
  BY Place
<1>4. ringbuffer_space_to_read_from(b, at) = Space(RingLen, s, b.end)
  BY <1>2, <1>3 DEF ringbuffer_space_to_read_from, Space
<1>5. Space(RingLen, s, b.end) \in 0 .. RingLen - 1
  BY <1>1, <1>2 DEF Space
<1>6. ASSUME Len(p) = Space(RingLen, s, b.end), NEW i \in 1 .. Len(p)
      PROVE  (s + i - 1) % RingLen = At(RingLen, s + i - 1)
  <2>1. PICK x \in 0 .. 2 * RingLen - 1 : x = s + i - 1
    BY <1>1, <1>5, <1>6
  <2>2. x \in (-RingLen) .. 2 * RingLen - 1
    BY <1>1
  <2>3. x % RingLen = At(RingLen, x)
    BY <1>1, <2>2, ModAt
  <2> QED
    BY <2>1, <2>3
<1> QED
  BY <1>2, <1>3, <1>4, <1>6 DEF Holds, Flat

\* An empty ring holds nothing.
LEMMA HoldsNothing ==
    ASSUME NEW b \in Ring, NEW at \in Nat, at % RingLen = b.end
    PROVE  Holds(b, at, <<>>)
<1>1. RingLen \in Nat \ {0} /\ b.end \in 0 .. RingLen - 1 /\ <<>> \in Seq(Tag)
  BY StreamsAssumption DEF Ring
<1>2. Flat(RingLen, b.end, b.end, b.data, <<>>)
  BY <1>1 DEF Flat, Space
<1> QED
  BY <1>1, <1>2, HoldsFlat

\* What ringbuffer_space_to_read and ringbuffer_space_to_write say of it.
LEMMA HoldsSpace ==
    ASSUME NEW b \in Ring, NEW p \in Seq(Tag), Holds(b, b.start, p)
    PROVE  /\ Len(p) = ringbuffer_space_to_read(b)
           /\ ringbuffer_space_to_write(b) = RingLen - Len(p)
<1>1. RingLen \in Nat \ {0} /\ b.len = RingLen
  BY StreamsAssumption DEF Ring
<1>2. PICK s \in 0 .. RingLen - 1 : s = b.start
  BY DEF Ring
<1>3. PICK e \in 0 .. RingLen - 1 : e = b.end
  BY DEF Ring
<1>4. s % RingLen = s
  BY <1>1
<1>5. Len(p) = Space(RingLen, s, e)
  BY <1>1, <1>2, <1>3, <1>4 DEF Holds, ringbuffer_space_to_read_from, Space
<1>6. ringbuffer_space_to_write(b) = RingLen - Space(RingLen, s, e)
  BY <1>1, <1>2, <1>3 DEF ringbuffer_space_to_write, Space
<1>7. Len(p) = ringbuffer_space_to_read(b)
  BY DEF Holds, ringbuffer_space_to_read
<1> QED
  BY <1>5, <1>6, <1>7

\* ringbuffer_read_from: the bytes that are there, and the place behind them.
LEMMA ReadFrom ==
    ASSUME NEW b \in Ring, NEW at \in Nat, NEW p \in Seq(Tag), Holds(b, at, p), NEW siz \in Nat
    PROVE  /\ ringbuffer_read_from(b, at, siz).bytes = SubSeq(p, 1, Least(Len(p), siz))
           /\ ringbuffer_read_from(b, at, siz).start =
                 ((at % RingLen) + Least(Len(p), siz)) % RingLen
<1>1. RingLen \in Nat \ {0} /\ b.len = RingLen
  BY StreamsAssumption DEF Ring
<1>2. PICK s \in 0 .. RingLen - 1 : s = at % RingLen
  BY Place
<1>3. PICK e \in 0 .. RingLen - 1 : e = b.end
  BY DEF Ring
<1>4. Len(p) = Space(RingLen, s, e)
  BY <1>1, <1>2, <1>3 DEF Holds, ringbuffer_space_to_read_from, Space
<1>5. PICK k \in 0 .. Len(p) : k = Least(Len(p), siz)
  BY DEF Least
<1>6. /\ TwoParts(RingLen, s, e, s > e, siz).count = k
      /\ TwoParts(RingLen, s, e, s > e, siz).stop = At(RingLen, s + k)
  BY <1>1, <1>4, <1>5, TwoPartsRead
<1>7. /\ ringbuffer_read_from(b, at, siz).bytes =
            [i \in 1 .. k |-> b.data[(s + i - 1) % RingLen]]
      /\ ringbuffer_read_from(b, at, siz).start = At(RingLen, s + k)
  BY <1>1, <1>2, <1>3, <1>6 DEF ringbuffer_read_from
<1>8. At(RingLen, s + k) = (s + k) % RingLen
  <2>1. PICK x \in (-RingLen) .. 2 * RingLen - 1 : x = s + k
    BY <1>1, <1>4 DEF Space
  <2> QED
    BY <1>1, <2>1, ModAt
<1>9. [i \in 1 .. k |-> b.data[(s + i - 1) % RingLen]] = SubSeq(p, 1, k)
  <2>1. \A i \in 1 .. k : p[i] = b.data[(s + i - 1) % RingLen]
    <3>1. \A i \in 1 .. Len(p) : p[i] = b.data[((at % b.len) + i - 1) % b.len]
      BY DEF Holds
    <3>2. ASSUME NEW i \in 1 .. k PROVE i \in 1 .. Len(p)
      OBVIOUS
    <3> QED
      BY <1>1, <1>2, <3>1, <3>2
  <2>2. SubSeq(p, 1, k) = [i \in 1 .. k |-> p[i]]
    OBVIOUS
  <2> QED
    BY <2>1, <2>2
<1> QED
  BY <1>2, <1>5, <1>7, <1>8, <1>9

\* A read leaves the bytes behind those it took.
LEMMA HoldsDrop ==
    ASSUME NEW b \in Ring, NEW c \in Ring, c.end = b.end, c.data = b.data,
           NEW at \in Nat, NEW to \in Nat, NEW p \in Seq(Tag), Holds(b, at, p),
           NEW k \in 0 .. Len(p), to % RingLen = ((at % RingLen) + k) % RingLen
    PROVE  Holds(c, to, SubSeq(p, k + 1, Len(p)))
<1>1. RingLen \in Nat \ {0}
  BY StreamsAssumption
<1>2. PICK s \in 0 .. RingLen - 1 : s = at % RingLen
  BY Place
<1>3. PICK e \in 0 .. RingLen - 1 : e = b.end
  BY DEF Ring
<1>4. Flat(RingLen, s, e, b.data, p)
  BY <1>2, <1>3, HoldsFlat
<1>5. to % RingLen = At(RingLen, s + k)
  <2>1. Len(p) = Space(RingLen, s, e)
    BY <1>4 DEF Flat
  <2>2. PICK x \in (-RingLen) .. 2 * RingLen - 1 : x = s + k
    BY <1>1, <2>1 DEF Space
  <2> QED
    BY <1>1, <1>2, <2>2, ModAt
<1>6. Flat(RingLen, At(RingLen, s + k), e, b.data, SubSeq(p, k + 1, Len(p)))
  BY <1>1, <1>4, FlatDrop
<1>7. SubSeq(p, k + 1, Len(p)) \in Seq(Tag)
  BY TailType
<1>8. Flat(RingLen, to % RingLen, c.end, c.data, SubSeq(p, k + 1, Len(p)))
  BY <1>3, <1>5, <1>6
<1> QED
  BY <1>7, <1>8, HoldsFlat

\* Store keeps the ring's bytes but those that are written.
LEMMA StoreProps ==
    ASSUME NEW b \in Ring, NEW e \in 0 .. RingLen - 1, NEW bytes \in Seq(Tag),
           NEW n \in 0 .. Len(bytes)
    PROVE  /\ Store(b, e, bytes, n) \in [0 .. RingLen - 1 -> Tag]
           /\ n = Len(bytes) => Stored(RingLen, e, b.data, bytes, Store(b, e, bytes, n))
<1>1. RingLen \in Nat \ {0} /\ b.len = RingLen /\ b.data \in [0 .. RingLen - 1 -> Tag]
  BY StreamsAssumption DEF Ring
<1>2. ASSUME NEW i \in 0 .. RingLen - 1
      PROVE  (i - e) % RingLen = At(RingLen, i - e) /\ At(RingLen, i - e) \in Nat
  <2>1. PICK x \in (-RingLen) .. 2 * RingLen - 1 : x = i - e
    BY <1>1
  <2>2. x % RingLen = At(RingLen, x)
    BY <1>1, <2>1, ModAt
  <2>3. At(RingLen, x) \in Nat
    BY <1>1, <2>1 DEF At
  <2> QED
    BY <2>1, <2>2, <2>3
<1>3. Store(b, e, bytes, n) = [i \in 0 .. RingLen - 1 |->
          IF At(RingLen, i - e) < n THEN bytes[At(RingLen, i - e) + 1] ELSE b.data[i]]
  BY <1>1, <1>2 DEF Store
<1>4. ASSUME NEW i \in 0 .. RingLen - 1
      PROVE  (IF At(RingLen, i - e) < n THEN bytes[At(RingLen, i - e) + 1] ELSE b.data[i]) \in Tag
  <2>1. PICK k \in Nat : k = At(RingLen, i - e)
    BY <1>2
  <2>2. CASE k < n
    <3>1. k + 1 \in 1 .. Len(bytes)
      BY <2>2
    <3>2. bytes[k + 1] \in Tag
      BY <3>1, LenProperties
    <3> QED
      BY <2>1, <2>2, <3>2
  <2>3. CASE ~(k < n)
    BY <1>1, <2>1, <2>3
  <2> QED
    BY <2>2, <2>3
<1>5. Store(b, e, bytes, n) \in [0 .. RingLen - 1 -> Tag]
  BY <1>3, <1>4
<1>6. ASSUME n = Len(bytes)
      PROVE  Stored(RingLen, e, b.data, bytes, Store(b, e, bytes, n))
  BY <1>3, <1>6 DEF Stored
<1> QED
  BY <1>5, <1>6

\* ringbuffer_write: the ring stays one, and when there is room the bytes are
\* behind those that were there.
LEMMA WriteProps ==
    ASSUME NEW b \in Ring, NEW bytes \in Seq(Tag)
    PROVE  /\ ringbuffer_write(b, bytes) \in Ring
           /\ ringbuffer_write(b, bytes).start = b.start
           /\ \A p \in Seq(Tag) :
                 Holds(b, b.start, p) /\ Len(bytes) < ringbuffer_space_to_write(b)
                   => Holds(ringbuffer_write(b, bytes), b.start, p \o bytes)
<1>1. RingLen \in Nat \ {0} /\ b.len = RingLen
  BY StreamsAssumption DEF Ring
<1>2. PICK s \in 0 .. RingLen - 1 : s = b.start
  BY DEF Ring
<1>3. PICK e \in 0 .. RingLen - 1 : e = b.end
  BY DEF Ring
<1>4. PICK m \in Nat : m = Len(bytes)
  BY LenProperties
<1>5. PICK t : t = TwoParts(RingLen, e, s, e >= s, m)
  OBVIOUS
<1>6. /\ t.count \in 0 .. m /\ t.stop \in 0 .. RingLen - 1
      /\ m < RingLen - Space(RingLen, s, e) => t.count = m /\ t.stop = At(RingLen, e + m)
  <2>1. CASE e >= s
    BY <1>1, <1>5, <2>1 DEF TwoParts, Least, Space, At
  <2>2. CASE ~(e >= s)
    BY <1>1, <1>5, <2>2 DEF TwoParts, Least, Space, At
  <2> QED
    BY <2>1, <2>2
<1>7. PICK d : d = Store(b, e, bytes, t.count)
  OBVIOUS
<1>8. d \in [0 .. RingLen - 1 -> Tag]
  BY <1>4, <1>6, <1>7, StoreProps
<1>9. PICK w : w = ringbuffer_write(b, bytes)
  OBVIOUS
<1>10. w = [b EXCEPT !.data = d, !.end = t.stop]
  BY <1>1, <1>2, <1>3, <1>4, <1>5, <1>7, <1>9 DEF ringbuffer_write
<1>11. w \in Ring /\ w.start = s /\ w.end = t.stop /\ w.data = d
  BY <1>2, <1>6, <1>8, <1>10 DEF Ring
<1>12. ASSUME NEW p \in Seq(Tag), Holds(b, b.start, p), m < ringbuffer_space_to_write(b)
       PROVE  Holds(w, s, p \o bytes)
  <2>1. s % RingLen = s /\ s \in Nat
    BY <1>1
  <2>2. Flat(RingLen, s, e, b.data, p)
    BY <1>2, <1>3, <1>12, <2>1, HoldsFlat
  <2>3. Len(p) = Space(RingLen, s, e)
    BY <2>2 DEF Flat
  <2>4. ringbuffer_space_to_write(b) = RingLen - Len(p)
    BY <1>12, HoldsSpace
  <2>5. t.count = m /\ t.stop = At(RingLen, e + m)
    BY <1>6, <1>12, <2>3, <2>4
  <2>6. Stored(RingLen, e, b.data, bytes, d)
    BY <1>4, <1>6, <1>7, <2>5, StoreProps
  <2>7. Len(p) + Len(bytes) < RingLen
    <3>1. Len(p) \in Nat
      BY LenProperties
    <3> QED
      BY <1>1, <1>4, <1>12, <2>4, <3>1
  <2>8. Flat(RingLen, s, At(RingLen, e + Len(bytes)), d, p \o bytes)
    BY <1>1, <2>2, <2>6, <2>7, FlatStore
  <2>9. p \o bytes \in Seq(Tag)
    BY ConcatProperties
  <2>10. Flat(RingLen, s % RingLen, w.end, w.data, p \o bytes)
    BY <1>4, <1>11, <2>1, <2>5, <2>8
  <2> QED
    BY <1>11, <2>1, <2>9, <2>10, HoldsFlat
<1> QED
  BY <1>2, <1>4, <1>9, <1>11, <1>12

\* ringbuffer_write_ignore_bounds: a reader that is less than a turn behind finds
\* the bytes behind those it has not read yet.
LEMMA WriteAllProps ==
    ASSUME NEW b \in Ring, NEW bytes \in Seq(Tag), Len(bytes) <= RingLen
    PROVE  /\ ringbuffer_write_ignore_bounds(b, bytes) \in Ring
           /\ \A at \in Nat, p \in Seq(Tag) :
                 Holds(b, at, p) /\ Len(p) + Len(bytes) < RingLen
                   => Holds(ringbuffer_write_ignore_bounds(b, bytes), at, p \o bytes)
<1>1. RingLen \in Nat \ {0} /\ b.len = RingLen
  BY StreamsAssumption DEF Ring
<1>2. PICK e \in 0 .. RingLen - 1 : e = b.end
  BY DEF Ring
<1>3. PICK m \in 0 .. RingLen : m = Len(bytes)
  BY LenProperties
<1>4. (e + m) % RingLen = At(RingLen, e + m) /\ At(RingLen, e + m) \in 0 .. RingLen - 1
  <2>1. PICK x \in (-RingLen) .. 2 * RingLen - 1 : x = e + m /\ x >= 0
    BY <1>1
  <2>2. x % RingLen = At(RingLen, x)
    BY <1>1, <2>1, ModAt
  <2>3. At(RingLen, x) \in 0 .. RingLen - 1
    BY <1>1, <2>1 DEF At
  <2> QED
    BY <2>1, <2>2, <2>3
<1>5. PICK d : d = Store(b, e, bytes, m)
  OBVIOUS
<1>6. d \in [0 .. RingLen - 1 -> Tag] /\ Stored(RingLen, e, b.data, bytes, d)
  BY <1>3, <1>5, StoreProps
<1>7. PICK w : w = ringbuffer_write_ignore_bounds(b, bytes)
  OBVIOUS
<1>8. w = [b EXCEPT !.data = d, !.end = At(RingLen, e + m)]
  BY <1>1, <1>2, <1>3, <1>4, <1>5, <1>7 DEF ringbuffer_write_ignore_bounds
<1>9. w \in Ring /\ w.end = At(RingLen, e + m) /\ w.data = d
  BY <1>4, <1>6, <1>8 DEF Ring
<1>10. ASSUME NEW at \in Nat, NEW p \in Seq(Tag), Holds(b, at, p), Len(p) + Len(bytes) < RingLen
       PROVE  Holds(w, at, p \o bytes)
  <2>1. PICK s \in 0 .. RingLen - 1 : s = at % RingLen
    BY Place
  <2>2. Flat(RingLen, s, e, b.data, p)
    BY <1>2, <1>10, <2>1, HoldsFlat
  <2>3. Flat(RingLen, s, At(RingLen, e + Len(bytes)), d, p \o bytes)
    BY <1>1, <1>6, <1>10, <2>2, FlatStore
  <2>4. p \o bytes \in Seq(Tag)
    BY ConcatProperties
  <2>5. Flat(RingLen, at % RingLen, w.end, w.data, p \o bytes)
    BY <1>3, <1>9, <2>1, <2>3
  <2> QED
    BY <1>9, <2>4, <2>5, HoldsFlat
<1> QED
  BY <1>7, <1>9, <1>10

\* There is always something that a ring holds.
LEMMA HoldsSomething ==
    ASSUME NEW b \in Ring, NEW at \in Nat PROVE \E p \in Seq(Tag) : Holds(b, at, p)
<1>1. RingLen \in Nat \ {0} /\ b.data \in [0 .. RingLen - 1 -> Tag]
  BY StreamsAssumption DEF Ring
<1>2. PICK s \in 0 .. RingLen - 1 : s = at % RingLen
  BY Place
<1>3. PICK e \in 0 .. RingLen - 1 : e = b.end
  BY DEF Ring
<1>4. PICK n \in 0 .. RingLen - 1 : n = Space(RingLen, s, e)
  <2>1. Space(RingLen, s, e) \in 0 .. RingLen - 1
    BY <1>1 DEF Space
  <2> QED
    BY <2>1
<1>5. PICK p : p = [i \in 1 .. n |-> b.data[At(RingLen, s + i - 1)]]
  OBVIOUS
<1>6. ASSUME NEW i \in 1 .. n PROVE b.data[At(RingLen, s + i - 1)] \in Tag
  <2>1. At(RingLen, s + i - 1) \in 0 .. RingLen - 1
    BY <1>1 DEF At
  <2> QED
    BY <1>1, <2>1
<1>7. p \in Seq(Tag) /\ Len(p) = n /\ \A i \in 1 .. n : p[i] = b.data[At(RingLen, s + i - 1)]
  BY <1>5, <1>6
<1>8. Flat(RingLen, s, e, b.data, p)
  BY <1>4, <1>7 DEF Flat
<1> QED
  BY <1>2, <1>3, <1>7, <1>8, HoldsFlat

\* A read that moves start.
LEMMA ReadProps ==
    ASSUME NEW b \in Ring, NEW len \in Nat, NEW n, n = Least(ringbuffer_space_to_read(b), len),
           NEW c, c = [b EXCEPT !.start = ringbuffer_read_from(b, b.start, n).start]
    PROVE  /\ n \in Nat /\ c \in Ring
           /\ \A p \in Seq(Tag) : Holds(b, b.start, p) =>
                 n \in 0 .. Len(p) /\ Holds(c, c.start, SubSeq(p, n + 1, Len(p)))
<1>1. RingLen \in Nat \ {0}
  BY StreamsAssumption
<1>2. PICK s \in 0 .. RingLen - 1 : s = b.start
  BY DEF Ring
<1>3. PICK to : to = ringbuffer_read_from(b, b.start, n).start
  OBVIOUS
<1>4. ASSUME NEW p \in Seq(Tag), Holds(b, b.start, p)
      PROVE  n \in 0 .. Len(p) /\ to = (s + n) % RingLen
  <2>1. Len(p) = ringbuffer_space_to_read(b) /\ Len(p) \in Nat
    BY <1>4, HoldsSpace, LenProperties
  <2>2. n \in 0 .. Len(p) /\ Least(Len(p), n) = n
    BY <2>1 DEF Least
  <2>3. s \in Nat /\ n \in Nat /\ s % RingLen = s
    BY <1>1, <2>2
  <2>4. ringbuffer_read_from(b, s, n).start = ((s % RingLen) + Least(Len(p), n)) % RingLen
    BY <1>2, <1>4, <2>3, ReadFrom
  <2> QED
    BY <1>2, <1>3, <2>2, <2>3, <2>4
<1>5. n \in Nat /\ to \in 0 .. RingLen - 1
  <2>1. PICK p \in Seq(Tag) : Holds(b, b.start, p)
    BY <1>2, HoldsSomething
  <2>2. n \in Nat /\ to = (s + n) % RingLen
    BY <1>4, <2>1
  <2>3. s + n \in Nat
    BY <2>2
  <2> QED
    BY <2>2, <2>3, Place
<1>6. c \in Ring /\ c.start = to /\ c.end = b.end /\ c.data = b.data
  BY <1>3, <1>5 DEF Ring
<1>7. ASSUME NEW p \in Seq(Tag), Holds(b, b.start, p)
      PROVE  Holds(c, c.start, SubSeq(p, n + 1, Len(p)))
  <2>1. n \in 0 .. Len(p) /\ to = (s + n) % RingLen
    BY <1>4, <1>7
  <2>2. s % RingLen = s /\ to % RingLen = to /\ s \in Nat /\ to \in Nat
    BY <1>5, PlaceKept
  <2>3. to % RingLen = ((s % RingLen) + n) % RingLen
    BY <2>1, <2>2
  <2>4. Holds(b, s, p)
    BY <1>2, <1>7
  <2>5. Holds(c, to, SubSeq(p, n + 1, Len(p)))
    BY <1>6, <2>1, <2>2, <2>3, <2>4, HoldsDrop
  <2> QED
    BY <1>6, <2>5
<1> QED
  BY <1>4, <1>5, <1>6, <1>7

\* A ring that was made or cleared is empty.
LEMMA EmptyRing ==
    /\ ringbuffer_create(RingLen) \in Ring
    /\ Holds(ringbuffer_create(RingLen), ringbuffer_create(RingLen).start, <<>>)
    /\ \A b \in Ring : /\ ringbuffer_clear(b) \in Ring
                       /\ Holds(ringbuffer_clear(b), ringbuffer_clear(b).start, <<>>)
<1>1. RingLen \in Nat \ {0} /\ Tags \in Nat \ {0} /\ 0 \in 0 .. RingLen - 1 /\ 0 \in Tag
  BY StreamsAssumption
<1>2. 0 % RingLen = 0
  BY <1>1
<1>3. ASSUME NEW b \in Ring, b.start = 0, b.end = 0
      PROVE  Holds(b, b.start, <<>>)
  BY <1>1, <1>2, <1>3, HoldsNothing
<1>4. PICK c : c = ringbuffer_create(RingLen)
  OBVIOUS
<1>5. c \in Ring /\ c.start = 0 /\ c.end = 0
  BY <1>1, <1>4 DEF ringbuffer_create, Ring
<1>6. ASSUME NEW b \in Ring
      PROVE  /\ ringbuffer_clear(b) \in Ring
             /\ ringbuffer_clear(b).start = 0 /\ ringbuffer_clear(b).end = 0
  BY <1>1 DEF ringbuffer_clear, Ring
<1>7. ASSUME NEW b \in Ring
      PROVE  Holds(ringbuffer_clear(b), ringbuffer_clear(b).start, <<>>)
  BY <1>3, <1>6
<1> QED
  BY <1>3, <1>4, <1>5, <1>6, <1>7

-----------------------------------------------------------------------------
(* The streams.                                                              *)

\* New bytes are bytes.
LEMMA FreshType ==
    ASSUME StreamsType, NEW c \in Channels, NEW n \in Nat
    PROVE  Fresh(c, n) \in Seq(Tag) /\ Len(Fresh(c, n)) = n
<1>1. Tags \in Nat \ {0} /\ next[c] \in Nat
  BY StreamsAssumption DEF StreamsType
<1>2. ASSUME NEW i \in 1 .. n PROVE (next[c] + i - 1) % Tags \in Tag
  <2>1. next[c] + i - 1 \in Int
    BY <1>1
  <2> QED
    BY <1>1, <2>1, ModRange
<1> QED
  BY <1>2 DEF Fresh

\* The ghost of a write, for a stream whose ring is b.
LEMMA DueProps ==
    ASSUME StreamsType, NEW c \in Channels, NEW b \in Ring, NEW n \in Nat, Due(c, b, n),
           ~over[c] => Holds(b, b.start, pend[c])
    PROVE  /\ pend' \in [Channels -> Seq(Tag)] /\ next' \in [Channels -> Tag]
           /\ over' \in [Channels -> BOOLEAN]
           /\ \A d \in Channels : d # c => pend'[d] = pend[d] /\ over'[d] = over[d]
           /\ ringbuffer_write(b, Fresh(c, n)) \in Ring
           /\ ringbuffer_write(b, Fresh(c, n)).start = b.start
           /\ ~over'[c] => /\ ~over[c]
                           /\ Holds(ringbuffer_write(b, Fresh(c, n)), b.start, pend'[c])
<1>1. PICK fr : fr = Fresh(c, n)
  OBVIOUS
<1>2. fr \in Seq(Tag) /\ Len(fr) = n
  BY <1>1, FreshType
<1>3. pend[c] \in Seq(Tag) /\ pend \in [Channels -> Seq(Tag)] /\ <<>> \in Seq(Tag)
  BY DEF StreamsType
<1>4. pend[c] \o fr \in Seq(Tag)
  BY <1>2, <1>3, ConcatProperties
<1>5. over \in [Channels -> BOOLEAN] /\ next \in [Channels -> Tag]
  BY DEF StreamsType
<1>6. /\ over' = [over EXCEPT ![c] = @ \/ n >= ringbuffer_space_to_write(b)]
      /\ pend' = [pend EXCEPT ![c] = IF over'[c] THEN <<>> ELSE @ \o fr]
      /\ next' = [next EXCEPT ![c] = (@ + n) % Tags]
  BY <1>1 DEF Due
<1>7. over' \in [Channels -> BOOLEAN] /\ (over'[c] <=> over[c] \/ n >= ringbuffer_space_to_write(b))
  BY <1>5, <1>6
<1>8. /\ pend' \in [Channels -> Seq(Tag)]
      /\ pend'[c] = IF over'[c] THEN <<>> ELSE pend[c] \o fr
  BY <1>3, <1>4, <1>6
<1>9. next' \in [Channels -> Tag]
  <2>1. Tags \in Nat \ {0} /\ next[c] \in Nat
    BY StreamsAssumption, <1>5
  <2>2. next[c] + n \in Int
    BY <2>1
  <2>3. (next[c] + n) % Tags \in Tag
    BY <2>1, <2>2, ModRange
  <2> QED
    BY <1>5, <1>6, <2>3
<1>10. \A d \in Channels : d # c => pend'[d] = pend[d] /\ over'[d] = over[d]
  BY <1>3, <1>5, <1>6
<1>11. /\ ringbuffer_write(b, fr) \in Ring /\ ringbuffer_write(b, fr).start = b.start
       /\ Holds(b, b.start, pend[c]) /\ n < ringbuffer_space_to_write(b)
            => Holds(ringbuffer_write(b, fr), b.start, pend[c] \o fr)
  BY <1>2, <1>3, WriteProps
<1>12. ASSUME ~over'[c]
       PROVE  ~over[c] /\ Holds(ringbuffer_write(b, fr), b.start, pend'[c])
  <2>1. ~over[c] /\ ~(n >= ringbuffer_space_to_write(b)) /\ pend'[c] = pend[c] \o fr
    BY <1>7, <1>8, <1>12
  <2>2. Holds(b, b.start, pend[c])
    BY <2>1
  <2>3. n < ringbuffer_space_to_write(b)
    <3>1. ringbuffer_space_to_write(b) = RingLen - Len(pend[c]) /\ Len(pend[c]) \in Nat
      BY <1>3, <2>2, HoldsSpace, LenProperties
    <3>2. RingLen \in Nat
      BY StreamsAssumption
    <3> QED
      BY <2>1, <3>1, <3>2
  <2> QED
    BY <1>11, <2>1, <2>2, <2>3
<1> QED
  BY <1>1, <1>7, <1>8, <1>9, <1>10, <1>11, <1>12

\* The ghost of a read.
LEMMA ConsumedProps ==
    ASSUME StreamsType, NEW c \in Channels, NEW n \in Nat, Consumed(c, n)
    PROVE  /\ pend' \in [Channels -> Seq(Tag)]
           /\ pend'[c] = SubSeq(pend[c], n + 1, Len(pend[c]))
           /\ \A d \in Channels : d # c => pend'[d] = pend[d]
<1>1. PICK p \in Seq(Tag) : p = pend[c]
  BY DEF StreamsType
<1>2. ASSUME NEW i \in n + 1 .. Len(p) PROVE p[i] \in Tag
  <2>1. p \in [1 .. Len(p) -> Tag] /\ Len(p) \in Nat
    BY LenProperties
  <2>2. i \in 1 .. Len(p)
    BY <2>1
  <2> QED
    BY <2>1, <2>2
<1>3. Len(p) \in Int /\ n + 1 \in Int
  BY LenProperties
<1>4. SubSeq(p, n + 1, Len(p)) \in Seq(Tag)
  BY <1>2, <1>3, SubSeqProperties
<1>5. pend \in [Channels -> Seq(Tag)]
  BY DEF StreamsType
<1> QED
  BY <1>1, <1>4, <1>5 DEF Consumed

\* The streams are different ones.
LEMMA ChannelFacts ==
    /\ {"tty", "ptm", "kbd"} \subseteq Channels /\ Fds \subseteq Channels
    /\ \A f \in Fds : f # "tty" /\ f # "ptm" /\ f # "kbd"
  BY StreamsAssumption DEF Channels

\* What a step leaves alone it keeps.
SameGhost(c) == pend'[c] = pend[c] /\ over'[c] = over[c]
LEMMA Kept ==
    ASSUME StreamsInv
    PROVE  /\ tty'.buf = tty.buf /\ SameGhost("tty") => TtyHeld'
           /\ ptm'.buf = ptm.buf /\ SameGhost("ptm") => PtmHeld'
           /\ kbd' = kbd /\ SameGhost("kbd") => KbdHeld'
           /\ sock' = sock /\ off' = off /\ (\A f \in Fds : SameGhost(f)) => SockHeld'
           /\ tty'.line_count = tty.line_count /\ SameGhost("tty") /\ raced' = raced
                /\ short' = short => LinesInv'
<1>1. tty'.buf = tty.buf /\ SameGhost("tty") => TtyHeld'
  BY DEF StreamsInv, TtyHeld, SameGhost
<1>2. ptm'.buf = ptm.buf /\ SameGhost("ptm") => PtmHeld'
  BY DEF StreamsInv, PtmHeld, SameGhost
<1>3. kbd' = kbd /\ SameGhost("kbd") => KbdHeld'
  BY DEF StreamsInv, KbdHeld, SameGhost
<1>4. sock' = sock /\ off' = off /\ (\A f \in Fds : SameGhost(f)) => SockHeld'
  BY DEF StreamsInv, SockHeld, SameGhost
<1>5. tty'.line_count = tty.line_count /\ SameGhost("tty") /\ raced' = raced
        /\ short' = short => LinesInv'
  BY DEF StreamsInv, LinesInv, SameGhost
<1> QED
  BY <1>1, <1>2, <1>3, <1>4, <1>5

\* A terminal with another ring and another count of lines.
Tty == [buf : Ring, line_count : Int, icanon : BOOLEAN]
Refilled(u, t, w, n) == u = [t EXCEPT !.buf = w, !.line_count = n]
LEMMA TtyRecord ==
    ASSUME NEW t \in Tty, NEW w \in Ring, NEW n \in Int, NEW u, Refilled(u, t, w, n)
    PROVE  u \in Tty /\ u.buf = w /\ u.line_count = n /\ u.icanon = t.icanon
  BY DEF Tty, Refilled

\* The terminal is one.
LEMMA TtyType ==
    ASSUME StreamsInv PROVE tty \in Tty /\ tty.line_count \in Int /\ tty.icanon \in BOOLEAN
<1>1. tty \in Tty
  BY DEF StreamsInv, StreamsType, Tty
<1> QED
  BY <1>1 DEF Tty

\* pty_master_write.
LEMMA TtyWriteStep ==
    ASSUME StreamsInv, NEW n \in Writes, tty_write(n) PROVE StreamsInv'
<1>1. PICK b \in Ring : b = tty.buf
  BY DEF StreamsInv, StreamsType
<1>2. n \in Nat
  BY StreamsAssumption
<1>3. PICK w : w = ringbuffer_write(b, Fresh("tty", n))
  OBVIOUS
<1>4. /\ pend' \in [Channels -> Seq(Tag)] /\ next' \in [Channels -> Tag]
      /\ over' \in [Channels -> BOOLEAN]
      /\ \A d \in Channels : d # "tty" => pend'[d] = pend[d] /\ over'[d] = over[d]
      /\ w \in Ring /\ w.start = b.start
      /\ ~over'["tty"] => ~over["tty"] /\ Holds(w, b.start, pend'["tty"])
  BY <1>1, <1>2, <1>3, ChannelFacts, DueProps DEF StreamsInv, TtyHeld, tty_write
<1>5. tty' = [tty EXCEPT !.buf = w, !.line_count = @ + 1]
  BY <1>1, <1>3 DEF tty_write
<1>6. /\ tty' \in Tty
      /\ tty'.buf = w /\ tty'.line_count = tty.line_count + 1 /\ tty.line_count \in Int
  <2>1. tty.line_count + 1 \in Int
    BY TtyType
  <2>2. Refilled(tty', tty, w, tty.line_count + 1)
    BY <1>5 DEF Refilled
  <2>3. w \in Ring
    BY <1>4
  <2> QED
    BY <2>1, <2>2, <2>3, TtyType, TtyRecord
<1>7. UNCHANGED <<ptm, made, ready, kbd, sock, off, raced, short>>
  BY DEF tty_write, sockvars
<1>8. StreamsType'
  BY <1>4, <1>6, <1>7 DEF StreamsInv, StreamsType, Tty
<1>9. SameGhost("ptm") /\ SameGhost("kbd") /\ \A f \in Fds : SameGhost(f)
  BY <1>4, ChannelFacts DEF SameGhost
<1>10. PtmHeld' /\ KbdHeld' /\ SockHeld'
  BY <1>7, <1>9, Kept
<1>11. TtyHeld'
  BY <1>4, <1>6 DEF TtyHeld
<1>12. LinesInv'
  BY <1>4, <1>6, <1>7 DEF StreamsInv, LinesInv
<1> QED
  BY <1>8, <1>10, <1>11, <1>12 DEF StreamsInv

\* A reader that saw the condition.
LEMMA StartReadStep ==
    ASSUME StreamsInv, NEW r \in Readers, StartRead(r) PROVE StreamsInv'
<1>1. UNCHANGED <<tty, ptm, made, kbd, sock, off, pend, next, over, raced, short>>
  BY DEF StartRead, sockvars
<1>2. ready' \subseteq Readers
  BY DEF StartRead, StreamsInv, StreamsType
<1>3. StreamsType'
  BY <1>1, <1>2 DEF StreamsInv, StreamsType
<1>4. SameGhost("tty") /\ SameGhost("ptm") /\ SameGhost("kbd") /\ \A f \in Fds : SameGhost(f)
  BY <1>1 DEF SameGhost
<1> QED
  BY <1>1, <1>3, <1>4, Kept DEF StreamsInv

\* pty_slave_read.
LEMMA TtyReadStep ==
    ASSUME StreamsInv, NEW r \in Readers, NEW len \in Reads, tty_read(r, len) PROVE StreamsInv'
<1>1. PICK b \in Ring : b = tty.buf
  BY DEF StreamsInv, StreamsType
<1>2. len \in Nat
  BY StreamsAssumption
<1>3. PICK n : n = Least(ringbuffer_space_to_read(b), len)
  OBVIOUS
<1>4. PICK c : c = [b EXCEPT !.start = ringbuffer_read_from(b, b.start, n).start]
  OBVIOUS
<1>5. /\ n \in Nat /\ c \in Ring
      /\ \A p \in Seq(Tag) : Holds(b, b.start, p) =>
            n \in 0 .. Len(p) /\ Holds(c, c.start, SubSeq(p, n + 1, Len(p)))
  BY <1>2, <1>3, <1>4, ReadProps
<1>6. /\ tty' = [tty EXCEPT !.buf.start = ringbuffer_read_from(b, b.start, n).start,
                            !.line_count = IF tty.icanon THEN @ - 1 ELSE @]
      /\ Consumed("tty", n)
      /\ raced' = (raced \/ (tty.icanon /\ tty.line_count <= 0))
      /\ short' = (short \/ (tty.icanon /\ n < ringbuffer_space_to_read(b)))
      /\ ready' = ready \ {r}
      /\ UNCHANGED <<ptm, made, kbd, sock, off, next, over>>
  BY <1>1, <1>3 DEF tty_read, sockvars
<1>7. /\ tty' \in Tty /\ tty'.buf = c
      /\ tty'.line_count = (IF tty.icanon THEN tty.line_count - 1 ELSE tty.line_count)
      /\ tty.line_count \in Int /\ tty.icanon \in BOOLEAN
  <2>1. PICK l \in Int : l = IF tty.icanon THEN tty.line_count - 1 ELSE tty.line_count
    BY TtyType
  <2>2. Refilled(tty', tty, c, l)
    BY <1>1, <1>4, <1>6, <2>1 DEF Refilled
  <2>3. c \in Ring
    BY <1>5
  <2> QED
    BY <2>1, <2>2, <2>3, TtyType, TtyRecord
<1>8. /\ pend' \in [Channels -> Seq(Tag)] /\ pend["tty"] \in Seq(Tag)
      /\ pend'["tty"] = SubSeq(pend["tty"], n + 1, Len(pend["tty"]))
      /\ \A d \in Channels : d # "tty" => pend'[d] = pend[d]
  BY <1>5, <1>6, ChannelFacts, ConsumedProps DEF StreamsInv, StreamsType
<1>9. StreamsType'
  BY <1>6, <1>7, <1>8 DEF StreamsInv, StreamsType, Tty
<1>10. SameGhost("ptm") /\ SameGhost("kbd") /\ \A f \in Fds : SameGhost(f)
  BY <1>6, <1>8, ChannelFacts DEF SameGhost
<1>11. PtmHeld' /\ KbdHeld' /\ SockHeld'
  BY <1>6, <1>10, Kept
<1>12. ASSUME ~over["tty"]
       PROVE  /\ Holds(c, c.start, pend'["tty"]) /\ n \in 0 .. Len(pend["tty"])
              /\ Len(pend["tty"]) = ringbuffer_space_to_read(b)
  BY <1>1, <1>5, <1>8, <1>12, HoldsSpace DEF StreamsInv, TtyHeld
<1>13. TtyHeld'
  BY <1>6, <1>7, <1>12 DEF TtyHeld
<1>14. LinesInv'
  <2>1. SUFFICES ASSUME ~over["tty"], ~raced', ~short'
                 PROVE  /\ tty'.line_count >= 0
                        /\ pend'["tty"] # <<>> => tty'.line_count >= 1
    BY <1>6 DEF LinesInv
  <2>2. /\ ~raced /\ ~(tty.icanon /\ tty.line_count <= 0)
        /\ ~short /\ ~(tty.icanon /\ n < ringbuffer_space_to_read(b))
    BY <1>6, <2>1
  <2>3. tty.line_count >= 0 /\ (pend["tty"] # <<>> => tty.line_count >= 1)
    BY <2>1, <2>2 DEF StreamsInv, LinesInv
  <2>4. Len(pend["tty"]) = ringbuffer_space_to_read(b) /\ n \in 0 .. Len(pend["tty"])
    BY <1>12, <2>1
  <2>5. CASE tty.icanon
    <3>1. n = Len(pend["tty"])
      BY <2>2, <2>4, <2>5
    <3>2. pend'["tty"] = <<>>
      BY <1>8, <3>1, TailType
    <3> QED
      BY <1>7, <2>2, <2>5, <3>2
  <2>6. CASE ~tty.icanon
    <3>1. pend["tty"] = <<>> => pend'["tty"] = <<>>
      <4>1. ASSUME pend["tty"] = <<>> PROVE Len(pend["tty"]) = 0
        BY <4>1
      <4>2. ASSUME pend["tty"] = <<>> PROVE Len(SubSeq(pend["tty"], n + 1, Len(pend["tty"]))) = 0
        BY <1>8, <2>4, <4>1, <4>2, TailType
      <4> QED
        BY <1>8, <4>2
    <3> QED
      BY <1>7, <2>3, <2>6, <3>1
  <2> QED
    BY <2>5, <2>6
<1> QED
  BY <1>9, <1>11, <1>13, <1>14 DEF StreamsInv

\* The ghosts of streams that start anew.
LEMMA RestartProps ==
    ASSUME StreamsType, NEW cs, Restart(cs)
    PROVE  /\ pend' \in [Channels -> Seq(Tag)] /\ over' \in [Channels -> BOOLEAN]
           /\ \A c \in Channels : c \in cs => pend'[c] = <<>> /\ ~over'[c]
           /\ \A c \in Channels : c \notin cs => SameGhost(c)
<1>1. pend \in [Channels -> Seq(Tag)] /\ over \in [Channels -> BOOLEAN] /\ <<>> \in Seq(Tag)
  BY DEF StreamsType
<1> QED
  BY <1>1 DEF Restart, SameGhost

\* TCSETS, TCSETSW and TCSETSF.
LEMMA TtyIoctlStep ==
    ASSUME StreamsInv, NEW icanon \in BOOLEAN, NEW flush \in BOOLEAN, tty_ioctl(icanon, flush)
    PROVE  StreamsInv'
<1>1. UNCHANGED <<ptm, made, ready, kbd, sock, off, next>>
  BY DEF tty_ioctl, sockvars
<1>2. PICK b \in Ring : b = tty.buf
  BY TtyType DEF Tty
<1>3. CASE flush
  <2>1. Restart({"tty"}) /\ raced' = FALSE /\ short' = FALSE
    BY <1>3 DEF tty_ioctl
  <2>2. tty' = [tty_clear(tty) EXCEPT !.icanon = icanon]
    BY <1>3 DEF tty_ioctl
  <2>3. PICK c \in Ring : c = ringbuffer_clear(b) /\ Holds(c, c.start, <<>>)
    BY EmptyRing
  <2>4. PICK u : Refilled(u, tty, c, 0)
    BY DEF Refilled
  <2>5. tty' = [u EXCEPT !.icanon = icanon]
    BY <1>2, <2>2, <2>3, <2>4 DEF Refilled, tty_clear
  <2>6. u \in Tty /\ u.buf = c /\ u.line_count = 0
    BY <2>4, TtyType, TtyRecord
  <2>7. tty' \in Tty /\ tty'.buf = c /\ tty'.line_count = 0
    BY <2>5, <2>6 DEF Tty
  <2>8. /\ pend' \in [Channels -> Seq(Tag)] /\ over' \in [Channels -> BOOLEAN]
        /\ pend'["tty"] = <<>>
        /\ SameGhost("ptm") /\ SameGhost("kbd") /\ \A f \in Fds : SameGhost(f)
    BY <2>1, RestartProps, ChannelFacts DEF StreamsInv
  <2>9. StreamsType'
    BY <1>1, <2>1, <2>7, <2>8 DEF StreamsInv, StreamsType, Tty
  <2>10. PtmHeld' /\ KbdHeld' /\ SockHeld'
    BY <1>1, <2>8, Kept
  <2>11. TtyHeld' /\ LinesInv'
    BY <2>3, <2>7, <2>8 DEF TtyHeld, LinesInv
  <2> QED
    BY <2>9, <2>10, <2>11 DEF StreamsInv
<1>4. CASE ~flush
  <2>1. UNCHANGED <<pend, over, raced, short>>
    BY <1>4 DEF tty_ioctl
  <2>2. tty' = [tty EXCEPT !.icanon = icanon]
    BY <1>4 DEF tty_ioctl
  <2>3. tty' \in Tty /\ tty'.buf = tty.buf /\ tty'.line_count = tty.line_count
    BY <2>2, TtyType DEF Tty
  <2>4. StreamsType'
    BY <1>1, <2>1, <2>3 DEF StreamsInv, StreamsType, Tty
  <2>5. SameGhost("tty") /\ SameGhost("ptm") /\ SameGhost("kbd") /\ \A f \in Fds : SameGhost(f)
    BY <2>1 DEF SameGhost
  <2> QED
    BY <1>1, <2>1, <2>3, <2>4, <2>5, Kept DEF StreamsInv
<1> QED
  BY <1>3, <1>4

\* A master with another ring.
Master == [buf : Ring, open : BOOLEAN]
LEMMA MasterType == ASSUME StreamsInv PROVE ptm \in Master /\ ptm.buf \in Ring
<1>1. ptm \in Master
  BY DEF StreamsInv, StreamsType, Master
<1> QED
  BY <1>1 DEF Master

\* pty_slave_write.
LEMMA PtmWriteStep ==
    ASSUME StreamsInv, NEW n \in Writes, pty_slave_write(n) PROVE StreamsInv'
<1>1. PICK b \in Ring : b = ptm.buf
  BY MasterType
<1>2. n \in Nat
  BY StreamsAssumption
<1>3. PICK w : w = ringbuffer_write(b, Fresh("ptm", n))
  OBVIOUS
<1>4. /\ pend' \in [Channels -> Seq(Tag)] /\ next' \in [Channels -> Tag]
      /\ over' \in [Channels -> BOOLEAN]
      /\ \A d \in Channels : d # "ptm" => pend'[d] = pend[d] /\ over'[d] = over[d]
      /\ w \in Ring /\ w.start = b.start
      /\ ~over'["ptm"] => ~over["ptm"] /\ Holds(w, b.start, pend'["ptm"])
  BY <1>1, <1>2, <1>3, ChannelFacts, DueProps DEF StreamsInv, PtmHeld, pty_slave_write
<1>5. ptm' = [ptm EXCEPT !.buf = w]
  BY <1>1, <1>3 DEF pty_slave_write
<1>6. w \in Ring
  BY <1>4
<1>7. ptm' \in Master /\ ptm'.buf = w
  BY <1>5, <1>6, MasterType DEF Master
<1>8. UNCHANGED <<tty, made, ready, kbd, sock, off, raced, short>>
  BY DEF pty_slave_write, sockvars
<1>9. StreamsType'
  BY <1>4, <1>7, <1>8 DEF StreamsInv, StreamsType, Master
<1>10. SameGhost("tty") /\ SameGhost("kbd") /\ \A f \in Fds : SameGhost(f)
  BY <1>4, ChannelFacts DEF SameGhost
<1>11. TtyHeld' /\ KbdHeld' /\ SockHeld' /\ LinesInv'
  BY <1>8, <1>10, Kept
<1>12. PtmHeld'
  BY <1>4, <1>7 DEF PtmHeld
<1> QED
  BY <1>9, <1>11, <1>12 DEF StreamsInv

\* pty_master_read.
LEMMA PtmReadStep ==
    ASSUME StreamsInv, NEW len \in Reads, pty_master_read(len) PROVE StreamsInv'
<1>1. PICK b \in Ring : b = ptm.buf
  BY MasterType
<1>2. len \in Nat
  BY StreamsAssumption
<1>3. PICK n : n = Least(ringbuffer_space_to_read(b), len)
  OBVIOUS
<1>4. PICK c : c = [b EXCEPT !.start = ringbuffer_read_from(b, b.start, n).start]
  OBVIOUS
<1>5. /\ n \in Nat /\ c \in Ring
      /\ \A p \in Seq(Tag) : Holds(b, b.start, p) =>
            n \in 0 .. Len(p) /\ Holds(c, c.start, SubSeq(p, n + 1, Len(p)))
  BY <1>2, <1>3, <1>4, ReadProps
<1>6. /\ ptm' = [ptm EXCEPT !.buf = c] /\ Consumed("ptm", n)
      /\ UNCHANGED <<tty, made, ready, kbd, sock, off, next, over, raced, short>>
  BY <1>1, <1>3, <1>4 DEF pty_master_read, sockvars
<1>7. c \in Ring
  BY <1>5
<1>8. ptm' \in Master /\ ptm'.buf = c
  BY <1>6, <1>7, MasterType DEF Master
<1>9. /\ pend' \in [Channels -> Seq(Tag)] /\ pend["ptm"] \in Seq(Tag)
      /\ pend'["ptm"] = SubSeq(pend["ptm"], n + 1, Len(pend["ptm"]))
      /\ \A d \in Channels : d # "ptm" => pend'[d] = pend[d]
  BY <1>5, <1>6, ChannelFacts, ConsumedProps DEF StreamsInv, StreamsType
<1>10. StreamsType'
  BY <1>6, <1>8, <1>9 DEF StreamsInv, StreamsType, Master
<1>11. SameGhost("tty") /\ SameGhost("kbd") /\ \A f \in Fds : SameGhost(f)
  BY <1>6, <1>9, ChannelFacts DEF SameGhost
<1>12. TtyHeld' /\ KbdHeld' /\ SockHeld' /\ LinesInv'
  BY <1>6, <1>11, Kept
<1>13. PtmHeld'
  BY <1>1, <1>5, <1>6, <1>8, <1>9 DEF StreamsInv, PtmHeld
<1> QED
  BY <1>10, <1>12, <1>13 DEF StreamsInv

\* ptmx_open.
LEMMA MasterAllocStep == ASSUME StreamsInv, pty_master_alloc PROVE StreamsInv'
<1>1. /\ UNCHANGED <<ready, kbd, sock, off, next>> /\ made' = TRUE
      /\ raced' = FALSE /\ short' = FALSE /\ Restart({"tty", "ptm"})
  BY DEF pty_master_alloc, sockvars
<1>2. PICK c \in Ring : c = ringbuffer_create(RingLen) /\ Holds(c, c.start, <<>>)
  BY EmptyRing
<1>3. ptm' = [buf |-> c, open |-> TRUE]
  BY <1>2 DEF pty_master_alloc
<1>4. ptm' \in Master /\ ptm'.buf = c
  BY <1>3 DEF Master
<1>5. \E d \in Ring : tty' \in Tty /\ tty'.buf = d /\ tty'.line_count = 0 /\ Holds(d, d.start, <<>>)
  <2>1. CASE made
    <3>1. PICK b \in Ring : b = tty.buf
      BY TtyType DEF Tty
    <3>2. PICK d \in Ring : d = ringbuffer_clear(b) /\ Holds(d, d.start, <<>>)
      BY EmptyRing
    <3>3. Refilled(tty', tty, d, 0)
      BY <2>1, <3>1, <3>2 DEF pty_master_alloc, tty_clear, Refilled
    <3>4. tty' \in Tty /\ tty'.buf = d /\ tty'.line_count = 0
      BY <3>3, TtyType, TtyRecord
    <3> QED
      BY <3>2, <3>4
  <2>2. CASE ~made
    <3>1. tty' = [buf |-> c, line_count |-> 0, icanon |-> TRUE]
      BY <1>2, <2>2 DEF pty_master_alloc
    <3>2. tty' \in Tty /\ tty'.buf = c /\ tty'.line_count = 0
      BY <3>1 DEF Tty
    <3> QED
      BY <1>2, <3>2
  <2> QED
    BY <2>1, <2>2
<1>6. /\ pend' \in [Channels -> Seq(Tag)] /\ over' \in [Channels -> BOOLEAN]
      /\ pend'["tty"] = <<>> /\ pend'["ptm"] = <<>>
      /\ SameGhost("kbd") /\ \A f \in Fds : SameGhost(f)
  BY <1>1, RestartProps, ChannelFacts DEF StreamsInv
<1>7. StreamsType'
  BY <1>1, <1>4, <1>5, <1>6 DEF StreamsInv, StreamsType, Tty, Master
<1>8. KbdHeld' /\ SockHeld'
  BY <1>1, <1>6, Kept
<1>9. PtmHeld'
  BY <1>2, <1>4, <1>6 DEF PtmHeld
<1>10. TtyHeld' /\ LinesInv'
  BY <1>5, <1>6 DEF TtyHeld, LinesInv
<1> QED
  BY <1>7, <1>8, <1>9, <1>10 DEF StreamsInv

\* The master's last descriptor goes.
LEMMA MasterCloseStep == ASSUME StreamsInv, pty_master_close PROVE StreamsInv'
<1>1. UNCHANGED <<tty, made, ready, kbd, sock, off, pend, next, over, raced, short>>
  BY DEF pty_master_close, sockvars
<1>2. ptm' \in Master /\ ptm'.buf = ptm.buf
  BY MasterType DEF pty_master_close, Master
<1>3. StreamsType'
  BY <1>1, <1>2 DEF StreamsInv, StreamsType, Master
<1>4. SameGhost("tty") /\ SameGhost("ptm") /\ SameGhost("kbd") /\ \A f \in Fds : SameGhost(f)
  BY <1>1 DEF SameGhost
<1> QED
  BY <1>1, <1>2, <1>3, <1>4, Kept DEF StreamsInv

\* generic_emit_key_set1.
LEMMA EmitStep == ASSUME StreamsInv, EmitPacket PROVE StreamsInv'
<1>1. PICK b \in Ring : b = kbd
  BY DEF StreamsInv, StreamsType
<1>2. Packet \in Nat
  BY StreamsAssumption
<1>3. PICK w : w = ringbuffer_write(b, Fresh("kbd", Packet))
  OBVIOUS
<1>4. /\ pend' \in [Channels -> Seq(Tag)] /\ next' \in [Channels -> Tag]
      /\ over' \in [Channels -> BOOLEAN]
      /\ \A d \in Channels : d # "kbd" => pend'[d] = pend[d] /\ over'[d] = over[d]
      /\ w \in Ring /\ w.start = b.start
      /\ ~over'["kbd"] => ~over["kbd"] /\ Holds(w, b.start, pend'["kbd"])
  BY <1>1, <1>2, <1>3, ChannelFacts, DueProps DEF StreamsInv, KbdHeld, EmitPacket
<1>5. kbd' = w /\ UNCHANGED <<tty, ptm, made, ready, sock, off, raced, short>>
  BY <1>1, <1>3 DEF EmitPacket, ptyvars, sockvars
<1>6. StreamsType'
  BY <1>4, <1>5 DEF StreamsInv, StreamsType
<1>7. SameGhost("tty") /\ SameGhost("ptm") /\ \A f \in Fds : SameGhost(f)
  BY <1>4, ChannelFacts DEF SameGhost
<1>8. TtyHeld' /\ PtmHeld' /\ SockHeld' /\ LinesInv'
  BY <1>5, <1>7, Kept
<1>9. KbdHeld'
  BY <1>4, <1>5 DEF KbdHeld
<1> QED
  BY <1>6, <1>8, <1>9 DEF StreamsInv

\* _generic_keyboard_read.
LEMMA ReadPacketsStep ==
    ASSUME StreamsInv, NEW len \in Reads, ReadPackets(len) PROVE StreamsInv'
<1>1. PICK b \in Ring : b = kbd
  BY DEF StreamsInv, StreamsType
<1>2. len \in Nat
  BY StreamsAssumption
<1>3. PICK n : n = Least(ringbuffer_space_to_read(b), len)
  OBVIOUS
<1>4. PICK c : c = [b EXCEPT !.start = ringbuffer_read_from(b, b.start, n).start]
  OBVIOUS
<1>5. /\ n \in Nat /\ c \in Ring
      /\ \A p \in Seq(Tag) : Holds(b, b.start, p) =>
            n \in 0 .. Len(p) /\ Holds(c, c.start, SubSeq(p, n + 1, Len(p)))
  BY <1>2, <1>3, <1>4, ReadProps
<1>6. /\ kbd' = c /\ Consumed("kbd", n)
      /\ UNCHANGED <<tty, ptm, made, ready, sock, off, next, over, raced, short>>
  BY <1>1, <1>3, <1>4 DEF ReadPackets, ptyvars, sockvars
<1>7. /\ pend' \in [Channels -> Seq(Tag)] /\ pend["kbd"] \in Seq(Tag)
      /\ pend'["kbd"] = SubSeq(pend["kbd"], n + 1, Len(pend["kbd"]))
      /\ \A d \in Channels : d # "kbd" => pend'[d] = pend[d]
  BY <1>5, <1>6, ChannelFacts, ConsumedProps DEF StreamsInv, StreamsType
<1>8. StreamsType'
  BY <1>5, <1>6, <1>7 DEF StreamsInv, StreamsType
<1>9. SameGhost("tty") /\ SameGhost("ptm") /\ \A f \in Fds : SameGhost(f)
  BY <1>6, <1>7, ChannelFacts DEF SameGhost
<1>10. TtyHeld' /\ PtmHeld' /\ SockHeld' /\ LinesInv'
  BY <1>6, <1>9, Kept
<1>11. KbdHeld'
  BY <1>1, <1>5, <1>6, <1>7 DEF StreamsInv, KbdHeld
<1> QED
  BY <1>8, <1>10, <1>11 DEF StreamsInv

\* local_socket_connect: the new reader is behind nothing.
LEMMA ConnectStep ==
    ASSUME StreamsInv, NEW f \in Fds, local_socket_connect(f) PROVE StreamsInv'
<1>1. UNCHANGED <<tty, ptm, made, ready, kbd, sock, pend, next, over, raced, short>>
  BY DEF local_socket_connect, ptyvars
<1>2. sock \in Ring /\ sock.end \in 0 .. RingLen - 1
  BY DEF StreamsInv, StreamsType, Ring
<1>3. RingLen \in Nat \ {0} /\ SizeMod \in Nat \ {0} /\ SizeMod % RingLen = 0
  BY StreamsAssumption
<1>4. sock.end \in 0 .. SizeMod - 1 /\ sock.end % RingLen = sock.end
  BY <1>2, <1>3
<1>5. off[f] = NoFd /\ off' = [off EXCEPT ![f] = sock.end]
      /\ off \in [Fds -> {NoFd} \cup 0 .. SizeMod - 1]
  BY DEF local_socket_connect, StreamsInv, StreamsType
<1>6. StreamsType'
  BY <1>1, <1>4, <1>5 DEF StreamsInv, StreamsType
<1>7. SameGhost("tty") /\ SameGhost("ptm") /\ SameGhost("kbd")
  BY <1>1 DEF SameGhost
<1>8. TtyHeld' /\ PtmHeld' /\ KbdHeld' /\ LinesInv'
  BY <1>1, <1>7, Kept
<1>9. SockHeld'
  <2>1. pend[f] = <<>> /\ sock.end \in Nat
    BY <1>4, <1>5 DEF StreamsInv, SockHeld
  <2>2. Holds(sock, sock.end, <<>>)
    BY <1>2, <1>4, <2>1, HoldsNothing
  <2>3. SUFFICES ASSUME NEW g \in Fds
                 PROVE  IF off'[g] = NoFd THEN pend'[g] = <<>>
                        ELSE ~over'[g] => Holds(sock', off'[g], pend'[g])
    BY DEF SockHeld
  <2>4. CASE g = f
    BY <1>1, <1>4, <1>5, <2>1, <2>2, <2>4 DEF NoFd
  <2>5. CASE g # f
    BY <1>1, <1>5, <2>5 DEF StreamsInv, SockHeld
  <2> QED
    BY <2>4, <2>5
<1> QED
  BY <1>6, <1>8, <1>9 DEF StreamsInv

\* local_socket_write: nobody waits, and those that were overtaken are told apart.
LEMMA SocketWriteStep ==
    ASSUME StreamsInv, NEW n \in Writes, local_socket_write(n) PROVE StreamsInv'
<1>1. n \in 1 .. RingLen /\ RingLen \in Nat
  BY StreamsAssumption
<1>2. PICK conn : conn = {f \in Fds : off[f] # NoFd}
  OBVIOUS
<1>3. PICK tag : tag = CHOOSE f \in Fds : TRUE
  OBVIOUS
<1>4. PICK bytes : bytes = Fresh(tag, n)
  OBVIOUS
<1>5. /\ conn # {} /\ sock' = ringbuffer_write_ignore_bounds(sock, bytes)
      /\ over' = [c \in Channels |-> over[c] \/ (c \in conn /\ Len(pend[c]) + n >= RingLen)]
      /\ pend' = [c \in Channels |-> IF c \in conn
                                    THEN (IF over'[c] THEN <<>> ELSE pend[c] \o bytes)
                                    ELSE pend[c]]
      /\ next' = [next EXCEPT ![tag] = (@ + n) % Tags]
      /\ UNCHANGED <<tty, ptm, made, ready, kbd, off, raced, short>>
  BY <1>2, <1>3, <1>4 DEF local_socket_write, ptyvars
<1>6. tag \in Fds /\ tag \in Channels
  BY <1>2, <1>3, <1>5, ChannelFacts
<1>7. bytes \in Seq(Tag) /\ Len(bytes) = n
  BY <1>1, <1>4, <1>6, FreshType DEF StreamsInv
<1>8. pend \in [Channels -> Seq(Tag)] /\ over \in [Channels -> BOOLEAN] /\ sock \in Ring
      /\ next \in [Channels -> Tag] /\ <<>> \in Seq(Tag)
      /\ off \in [Fds -> {NoFd} \cup 0 .. SizeMod - 1]
  BY DEF StreamsInv, StreamsType
<1>9. over' \in [Channels -> BOOLEAN]
  BY <1>5, <1>8
<1>10. pend' \in [Channels -> Seq(Tag)]
  <2>1. ASSUME NEW c \in Channels PROVE pend[c] \o bytes \in Seq(Tag)
    BY <1>7, <1>8, ConcatProperties
  <2> QED
    BY <1>5, <1>8, <2>1
<1>11. next' \in [Channels -> Tag]
  <2>1. Tags \in Nat \ {0} /\ next[tag] + n \in Int
    BY <1>1, <1>6, <1>8, StreamsAssumption
  <2>2. (next[tag] + n) % Tags \in Tag
    BY <2>1, ModRange
  <2> QED
    BY <1>5, <1>8, <2>2
<1>12. /\ sock' \in Ring
       /\ \A at \in Nat, p \in Seq(Tag) :
             Holds(sock, at, p) /\ Len(p) + Len(bytes) < RingLen => Holds(sock', at, p \o bytes)
  BY <1>1, <1>5, <1>7, <1>8, WriteAllProps
<1>13. StreamsType'
  BY <1>5, <1>9, <1>10, <1>11, <1>12 DEF StreamsInv, StreamsType
<1>14. SameGhost("tty") /\ SameGhost("ptm") /\ SameGhost("kbd")
  BY <1>2, <1>5, <1>8, ChannelFacts DEF SameGhost
<1>15. TtyHeld' /\ PtmHeld' /\ KbdHeld' /\ LinesInv'
  BY <1>5, <1>14, Kept
<1>16. SockHeld'
  <2>1. SUFFICES ASSUME NEW g \in Fds
                 PROVE  IF off[g] = NoFd THEN pend'[g] = <<>>
                        ELSE ~over'[g] => Holds(sock', off[g], pend'[g])
    BY <1>5 DEF SockHeld
  <2>2. g \in Channels
    BY ChannelFacts
  <2>3. CASE off[g] = NoFd
    BY <1>2, <1>5, <2>2, <2>3 DEF StreamsInv, SockHeld
  <2>4. CASE off[g] # NoFd
    <3>1. SUFFICES ASSUME ~over'[g] PROVE Holds(sock', off[g], pend'[g])
      BY <2>4
    <3>2. g \in conn /\ off[g] \in Nat
      BY <1>2, <1>8, <2>4
    <3>3. pend[g] \in Seq(Tag) /\ Len(pend[g]) \in Nat
      BY <1>8, <2>2, LenProperties
    <3>4. ~over[g] /\ ~(Len(pend[g]) + n >= RingLen) /\ pend'[g] = pend[g] \o bytes
      BY <1>5, <2>2, <3>1, <3>2
    <3>5. Len(pend[g]) + Len(bytes) < RingLen
      BY <1>1, <1>7, <3>3, <3>4
    <3>6. Holds(sock, off[g], pend[g])
      BY <2>4, <3>4 DEF StreamsInv, SockHeld
    <3> QED
      BY <1>12, <3>2, <3>3, <3>4, <3>5, <3>6
  <2> QED
    BY <2>3, <2>4
<1> QED
  BY <1>13, <1>15, <1>16 DEF StreamsInv

\* local_socket_read: the offset wraps at 2^32, a multiple of the ring's length.
LEMMA SocketReadStep ==
    ASSUME StreamsInv, NEW f \in Fds, NEW len \in Reads, local_socket_read(f, len)
    PROVE  StreamsInv'
<1>1. len \in Nat /\ RingLen \in Nat \ {0} /\ SizeMod \in Nat \ {0} /\ SizeMod % RingLen = 0
  BY StreamsAssumption
<1>2. off \in [Fds -> {NoFd} \cup 0 .. SizeMod - 1] /\ off[f] # NoFd /\ sock \in Ring
  BY DEF StreamsInv, StreamsType, local_socket_read
<1>3. PICK at \in Nat : at = off[f]
  BY <1>2
<1>4. PICK n : n = Len(ringbuffer_read_from(sock, at, len).bytes)
  OBVIOUS
<1>5. /\ off' = [off EXCEPT ![f] = (@ + n) % SizeMod] /\ Consumed(f, n)
      /\ UNCHANGED <<tty, ptm, made, ready, kbd, sock, next, over, raced, short>>
  BY <1>3, <1>4 DEF local_socket_read, ptyvars
<1>6. ASSUME NEW p \in Seq(Tag), Holds(sock, at, p) PROVE n \in 0 .. Len(p)
  <2>1. Len(p) \in Nat
    BY LenProperties
  <2>2. PICK k \in 0 .. Len(p) : k = Least(Len(p), len)
    BY <1>1, <2>1 DEF Least
  <2>3. ringbuffer_read_from(sock, at, len).bytes = SubSeq(p, 1, k)
    BY <1>1, <1>2, <1>6, <2>2, ReadFrom
  <2>4. Len(SubSeq(p, 1, k)) = k
    <3>1. k \in Nat /\ k <= Len(p)
      BY <2>1, <2>2
    <3> QED
      BY <2>1, <3>1
  <2> QED
    BY <1>4, <2>2, <2>3, <2>4
<1>7. n \in Nat
  BY <1>2, <1>6, HoldsSomething
<1>8. PICK to \in 0 .. SizeMod - 1 : to = (at + n) % SizeMod
  <2>1. at + n \in Int
    BY <1>7
  <2> QED
    BY <1>1, <2>1, ModRange
<1>9. to % RingLen = ((at % RingLen) + n) % RingLen
  <2>1. PICK x \in Int : x = at + n
    BY <1>7
  <2>2. (x % SizeMod) % RingLen = x % RingLen
    BY <1>1, ModMod
  <2>3. at \in Int /\ n \in Int
    BY <1>7
  <2>4. (at + n) % RingLen = ((at % RingLen) + n) % RingLen
    BY <1>1, <2>3, ModAdd
  <2> QED
    BY <1>8, <2>1, <2>2, <2>4
<1>10. /\ off' \in [Fds -> {NoFd} \cup 0 .. SizeMod - 1] /\ off'[f] = to
       /\ \A g \in Fds : g # f => off'[g] = off[g]
  BY <1>2, <1>3, <1>5, <1>8
<1>11. /\ pend' \in [Channels -> Seq(Tag)] /\ pend[f] \in Seq(Tag)
       /\ pend'[f] = SubSeq(pend[f], n + 1, Len(pend[f]))
       /\ \A d \in Channels : d # f => pend'[d] = pend[d]
  BY <1>5, <1>7, ChannelFacts, ConsumedProps DEF StreamsInv, StreamsType
<1>12. StreamsType'
  BY <1>5, <1>10, <1>11 DEF StreamsInv, StreamsType
<1>13. SameGhost("tty") /\ SameGhost("ptm") /\ SameGhost("kbd")
  BY <1>5, <1>11, ChannelFacts DEF SameGhost
<1>14. TtyHeld' /\ PtmHeld' /\ KbdHeld' /\ LinesInv'
  BY <1>5, <1>13, Kept
<1>15. SockHeld'
  <2>1. SUFFICES ASSUME NEW g \in Fds
                 PROVE  IF off'[g] = NoFd THEN pend'[g] = <<>>
                        ELSE ~over[g] => Holds(sock, off'[g], pend'[g])
    BY <1>5 DEF SockHeld
  <2>2. CASE g = f
    <3>1. to # NoFd /\ to \in Nat
      BY <1>1 DEF NoFd
    <3>2. ASSUME ~over[f] PROVE Holds(sock, to, pend'[f])
      <4>1. Holds(sock, at, pend[f])
        BY <1>2, <1>3, <3>2 DEF StreamsInv, SockHeld
      <4>2. n \in 0 .. Len(pend[f])
        BY <1>6, <1>11, <4>1
      <4>3. Holds(sock, to, SubSeq(pend[f], n + 1, Len(pend[f])))
        BY <1>2, <1>9, <1>11, <3>1, <4>1, <4>2, HoldsDrop
      <4> QED
        BY <1>11, <4>3
    <3> QED
      BY <1>10, <2>2, <3>1, <3>2
  <2>3. CASE g # f
    <3>1. pend'[g] = pend[g] /\ off'[g] = off[g]
      BY <1>10, <1>11, <2>3, ChannelFacts
    <3> QED
      BY <3>1 DEF StreamsInv, SockHeld
  <2> QED
    BY <2>2, <2>3
<1> QED
  BY <1>12, <1>14, <1>15 DEF StreamsInv

\* A descriptor of a socket is closed.
LEMMA SocketCloseStep ==
    ASSUME StreamsInv, NEW f \in Fds, local_socket_close(f) PROVE StreamsInv'
<1>1. /\ UNCHANGED <<tty, ptm, made, ready, kbd, sock, next, raced, short>>
      /\ Restart({f}) /\ off' = [off EXCEPT ![f] = NoFd]
  BY DEF local_socket_close, ptyvars
<1>2. off \in [Fds -> {NoFd} \cup 0 .. SizeMod - 1]
  BY DEF StreamsInv, StreamsType
<1>3. /\ pend' \in [Channels -> Seq(Tag)] /\ over' \in [Channels -> BOOLEAN]
      /\ pend'[f] = <<>> /\ \A c \in Channels : c # f => SameGhost(c)
  BY <1>1, RestartProps, ChannelFacts DEF StreamsInv
<1>4. StreamsType'
  BY <1>1, <1>2, <1>3 DEF StreamsInv, StreamsType
<1>5. SameGhost("tty") /\ SameGhost("ptm") /\ SameGhost("kbd")
  BY <1>3, ChannelFacts
<1>6. TtyHeld' /\ PtmHeld' /\ KbdHeld' /\ LinesInv'
  BY <1>1, <1>5, Kept
<1>7. SockHeld'
  <2>1. SUFFICES ASSUME NEW g \in Fds
                 PROVE  IF off'[g] = NoFd THEN pend'[g] = <<>>
                        ELSE ~over'[g] => Holds(sock, off'[g], pend'[g])
    BY <1>1 DEF SockHeld
  <2>2. CASE g = f
    BY <1>1, <1>2, <1>3, <2>2
  <2>3. CASE g # f
    <3>1. SameGhost(g) /\ off'[g] = off[g]
      BY <1>1, <1>2, <1>3, <2>3, ChannelFacts
    <3> QED
      BY <3>1 DEF StreamsInv, SockHeld, SameGhost
  <2> QED
    BY <2>2, <2>3
<1> QED
  BY <1>4, <1>6, <1>7 DEF StreamsInv

-----------------------------------------------------------------------------
(* The theorems.                                                             *)

\* In the beginning the streams are empty.
LEMMA StreamsInitInv == ASSUME StreamsInit PROVE StreamsInv
<1>1. PICK c \in Ring : c = ringbuffer_create(RingLen) /\ Holds(c, c.start, <<>>)
  BY EmptyRing
<1>2. /\ tty = [buf |-> c, line_count |-> 0, icanon |-> TRUE]
      /\ ptm = [buf |-> c, open |-> FALSE] /\ kbd = c /\ sock = c
      /\ made = FALSE /\ ready = {} /\ off = [f \in Fds |-> NoFd]
      /\ pend = [d \in Channels |-> <<>>] /\ next = [d \in Channels |-> 0]
      /\ over = [d \in Channels |-> FALSE] /\ raced = FALSE /\ short = FALSE
  BY <1>1 DEF StreamsInit
<1>3. 0 \in Tag /\ <<>> \in Seq(Tag)
  BY StreamsAssumption
<1>4. StreamsType
  <2>1. /\ tty \in [buf : Ring, line_count : Int, icanon : BOOLEAN]
        /\ ptm \in [buf : Ring, open : BOOLEAN]
    BY <1>2
  <2>2. off \in [Fds -> {NoFd} \cup 0 .. SizeMod - 1]
    BY <1>2
  <2>3. /\ pend \in [Channels -> Seq(Tag)] /\ next \in [Channels -> Tag]
        /\ over \in [Channels -> BOOLEAN]
    BY <1>2, <1>3
  <2> QED
    BY <1>2, <2>1, <2>2, <2>3 DEF StreamsType
<1>5. TtyHeld /\ PtmHeld /\ KbdHeld /\ SockHeld
  BY <1>1, <1>2, ChannelFacts DEF TtyHeld, PtmHeld, KbdHeld, SockHeld
<1>6. LinesInv
  BY <1>2, ChannelFacts DEF LinesInv
<1> QED
  BY <1>4, <1>5, <1>6 DEF StreamsInv

\* Every step keeps the invariant.
LEMMA StreamsStep == ASSUME StreamsInv, [StreamsNext]_svars PROVE StreamsInv'
<1>1. CASE TtyNext
  <2>1. ASSUME NEW n \in Writes, tty_write(n) PROVE StreamsInv'
    BY <2>1, TtyWriteStep
  <2>2. ASSUME NEW r \in Readers, StartRead(r) PROVE StreamsInv'
    BY <2>2, StartReadStep
  <2>3. ASSUME NEW r \in Readers, NEW len \in Reads, tty_read(r, len) PROVE StreamsInv'
    BY <2>3, TtyReadStep
  <2>4. ASSUME NEW icanon \in BOOLEAN, NEW flush \in BOOLEAN, tty_ioctl(icanon, flush)
        PROVE  StreamsInv'
    BY <2>4, TtyIoctlStep
  <2>5. CASE Reopen
    BY <2>5, MasterAllocStep, MasterCloseStep DEF Reopen
  <2> QED
    BY <1>1, <2>1, <2>2, <2>3, <2>4, <2>5 DEF TtyNext
<1>2. CASE PtmNext
  <2>1. ASSUME NEW n \in Writes, pty_slave_write(n) PROVE StreamsInv'
    BY <2>1, PtmWriteStep
  <2>2. ASSUME NEW len \in Reads, pty_master_read(len) PROVE StreamsInv'
    BY <2>2, PtmReadStep
  <2>3. CASE Reopen
    BY <2>3, MasterAllocStep, MasterCloseStep DEF Reopen
  <2> QED
    BY <1>2, <2>1, <2>2, <2>3 DEF PtmNext
<1>3. CASE KbdNext
  <2>1. ASSUME NEW len \in Reads, ReadPackets(len) PROVE StreamsInv'
    BY <2>1, ReadPacketsStep
  <2> QED
    BY <1>3, <2>1, EmitStep DEF KbdNext
<1>4. CASE SockNext
  <2>1. ASSUME NEW n \in Writes, local_socket_write(n) PROVE StreamsInv'
    BY <2>1, SocketWriteStep
  <2>2. ASSUME NEW f \in Fds, local_socket_connect(f) PROVE StreamsInv'
    BY <2>2, ConnectStep
  <2>3. ASSUME NEW f \in Fds, local_socket_close(f) PROVE StreamsInv'
    BY <2>3, SocketCloseStep
  <2>4. ASSUME NEW f \in Fds, NEW len \in Reads, local_socket_read(f, len) PROVE StreamsInv'
    BY <2>4, SocketReadStep
  <2> QED
    BY <1>4, <2>1, <2>2, <2>3, <2>4 DEF SockNext
<1>5. CASE UNCHANGED svars
  <2>1. UNCHANGED <<tty, ptm, made, ready, kbd, sock, off, pend, next, over, raced, short>>
    BY <1>5 DEF svars, ptyvars, sockvars
  <2>2. StreamsType'
    BY <2>1 DEF StreamsInv, StreamsType
  <2>3. SameGhost("tty") /\ SameGhost("ptm") /\ SameGhost("kbd") /\ \A f \in Fds : SameGhost(f)
    BY <2>1 DEF SameGhost
  <2> QED
    BY <2>1, <2>2, <2>3, Kept DEF StreamsInv
<1> QED
  BY <1>1, <1>2, <1>3, <1>4, <1>5 DEF StreamsNext

\* What can be read is what is due.
LEMMA ReadableIsDue ==
    ASSUME NEW b \in Ring, NEW at \in Nat, NEW p \in Seq(Tag), Holds(b, at, p)
    PROVE  Readable(b, at) = p
<1>1. RingLen \in Nat \ {0} /\ b.len = RingLen /\ b.end \in 0 .. RingLen - 1
  BY StreamsAssumption DEF Ring
<1>2. Flat(RingLen, at % RingLen, b.end, b.data, p)
  BY HoldsFlat
<1>3. PICK s \in 0 .. RingLen - 1 : s = at % RingLen
  BY Place
<1>4. Len(p) = Space(RingLen, s, b.end) /\ Len(p) \in Nat
  BY <1>2, <1>3, LenProperties DEF Flat
<1>5. Least(Len(p), RingLen) = Len(p)
  BY <1>1, <1>3, <1>4 DEF Least, Space
<1>6. ringbuffer_read_from(b, at, RingLen).bytes = SubSeq(p, 1, Len(p))
  BY <1>1, <1>5, ReadFrom
<1>7. SubSeq(p, 1, Len(p)) = p
  OBVIOUS
<1> QED
  BY <1>6, <1>7 DEF Readable

\* The invariant says what the properties say.
LEMMA StreamsInvImplies == ASSUME StreamsInv PROVE StreamsInOrder /\ InputNotStuck
<1>1. /\ tty.buf \in Ring /\ ptm.buf \in Ring /\ kbd \in Ring /\ sock \in Ring
      /\ \A c \in Channels : pend[c] \in Seq(Tag)
  <2>1. kbd \in Ring /\ sock \in Ring /\ pend \in [Channels -> Seq(Tag)]
    BY DEF StreamsInv, StreamsType
  <2>2. tty.buf \in Ring
    BY TtyType DEF Tty
  <2> QED
    BY <2>1, <2>2, MasterType
<1>2. \A b \in Ring : b.start \in Nat
  BY DEF Ring
<1>3. ~over["tty"] => Readable(tty.buf, tty.buf.start) = pend["tty"]
  BY <1>1, <1>2, ChannelFacts, ReadableIsDue DEF StreamsInv, TtyHeld
<1>4. ~over["ptm"] => Readable(ptm.buf, ptm.buf.start) = pend["ptm"]
  BY <1>1, <1>2, ChannelFacts, ReadableIsDue DEF StreamsInv, PtmHeld
<1>5. ~over["kbd"] => Readable(kbd, kbd.start) = pend["kbd"]
  BY <1>1, <1>2, ChannelFacts, ReadableIsDue DEF StreamsInv, KbdHeld
<1>6. ReaderSeesAll
  <2>1. SUFFICES ASSUME NEW f \in Fds, off[f] # NoFd, ~over[f]
                 PROVE  Readable(sock, off[f]) = pend[f]
    BY DEF ReaderSeesAll
  <2>2. off[f] \in Nat
    BY <2>1 DEF StreamsInv, StreamsType
  <2>3. Holds(sock, off[f], pend[f])
    BY <2>1 DEF StreamsInv, SockHeld
  <2> QED
    BY <1>1, <2>2, <2>3, ChannelFacts, ReadableIsDue
<1>7. InputNotStuck
  <2>1. SUFFICES ASSUME ~over["tty"], ~raced, ~short, pend["tty"] # <<>> PROVE tty_can_read
    BY DEF InputNotStuck
  <2>2. tty.line_count >= 1 /\ tty.line_count \in Int
    BY <2>1, TtyType DEF StreamsInv, LinesInv
  <2>3. Len(pend["tty"]) = ringbuffer_space_to_read(tty.buf)
    BY <1>1, <2>1, ChannelFacts, HoldsSpace DEF StreamsInv, TtyHeld
  <2>4. Len(pend["tty"]) \in Nat /\ Len(pend["tty"]) # 0
    BY <1>1, <2>1, ChannelFacts, LenProperties, EmptySeq
  <2> QED
    BY <2>2, <2>3, <2>4 DEF tty_can_read
<1> QED
  BY <1>3, <1>4, <1>5, <1>6, <1>7 DEF StreamsInOrder, StreamIsFifo

\* The invariant holds in every state, for every length of the rings, every
\* number of descriptors, and every order of writes, reads, opens and closes.
THEOREM StreamsInvariant == StreamsSpec => []StreamsInv
<1>1. StreamsInit => StreamsInv
  BY StreamsInitInv
<1>2. StreamsInv /\ [StreamsNext]_svars => StreamsInv'
  BY StreamsStep
<1> QED
  BY <1>1, <1>2, PTL DEF StreamsSpec

\* Every byte that is written to a terminal, the keyboard's queue or a socket is
\* read once and in order by each reader that keeps up, across every wrap of the
\* ring and of the 32-bit offsets of the descriptors.
THEOREM BytesInOrder == StreamsSpec => []StreamsInOrder
<1>1. StreamsInv => StreamsInOrder
  BY StreamsInvImplies
<1> QED
  BY <1>1, StreamsInvariant, PTL

\* With whole-line reads by one reader at a time, the terminal's count of lines
\* does not run out before its bytes do.
THEOREM InputCanBeRead == StreamsSpec => []InputNotStuck
<1>1. StreamsInv => InputNotStuck
  BY StreamsInvImplies
<1> QED
  BY <1>1, StreamsInvariant, PTL
=============================================================================
