------------------------------- MODULE Bitmap -------------------------------
(* algo/bitmap.c: the first-fit search the physical allocator, the kernel    *)
(* heap, the kernel zones and the shared buffers are built on.  A bitmap is  *)
(* [len, set]: its length in bits and the bits that are set.  BucketBits and *)
(* ByteBits stand for 32 and 8.                                              *)
EXTENDS Integers, FiniteSets

CONSTANTS BucketBits, ByteBits
ASSUME BitmapAssumption ==
    /\ BucketBits \in Nat \ {0} /\ ByteBits \in Nat \ {0}
    /\ BucketBits % ByteBits = 0

bitmap_wrap(len) == [len |-> len, set |-> {}]

\* One run of unset bits being measured: free bits from start on.
Scan0 == [free |-> 0, start |-> 0, done |-> FALSE]

Take(s, x, n) == [s EXCEPT !.free = @ + n, !.start = IF s.free = 0 THEN x ELSE @]

\* A bit of a bucket that is neither full nor empty: the run is compared with
\* the request only where it ends.
ScanBit(bm, n, s, x) ==
    IF s.done THEN s
    ELSE IF x \notin bm.set THEN Take(s, x, 1)
    ELSE IF s.free >= n THEN [s EXCEPT !.done = TRUE] ELSE [s EXCEPT !.free = 0]

ScanBucket(bm, n, s, i) ==
    LET first == i * BucketBits
        bits  == first .. first + BucketBits - 1
        mixed[k \in 0 .. BucketBits] ==
            IF k = 0 THEN s ELSE ScanBit(bm, n, mixed[k - 1], first + k - 1)
    IN IF s.done THEN s
       ELSE IF bits \subseteq bm.set
            THEN IF s.free >= n THEN [s EXCEPT !.done = TRUE] ELSE [s EXCEPT !.free = 0]
       ELSE IF bits \cap bm.set = {}
            THEN LET t == Take(s, first, BucketBits) IN [t EXCEPT !.done = t.free >= n]
       ELSE mixed[BucketBits]

\* The bits after the last whole bucket, looked at one by one.
ScanTail(bm, n, s, x) ==
    IF s.done THEN s
    ELSE IF x \in bm.set THEN [s EXCEPT !.free = 0]
    ELSE LET t == Take(s, x, 1) IN [t EXCEPT !.done = t.free >= n]

bitmap_next_range_of_unset_bits(bm, n) ==
    LET whole == bm.len \div BucketBits
        first == whole * BucketBits
        buckets[i \in 0 .. whole] ==
            IF i = 0 THEN Scan0 ELSE ScanBucket(bm, n, buckets[i - 1], i - 1)
        body  == LET s == buckets[whole] IN [s EXCEPT !.done = s.done \/ s.free >= n]
        tail[i \in 0 .. bm.len - first] ==
            IF i = 0 THEN body ELSE ScanTail(bm, n, tail[i - 1], first + i - 1)
    IN tail[bm.len - first]

\* -1 stands for the error codes.
bitmap_find_space(bm, n) ==
    LET s == bitmap_next_range_of_unset_bits(bm, n) IN IF s.done THEN s.start ELSE -1

\* Whole bytes only: trailing bits are never found.
bitmap_find_space_aligned(bm, n, align) ==
    LET bits == (bm.len \div ByteBits) * ByteBits
        step(s, x) ==
            IF s.done THEN s
            ELSE IF x \in bm.set THEN [s EXCEPT !.free = 0]
            ELSE LET t == [s EXCEPT !.start = IF s.free = 0 THEN x ELSE @]
                     f == IF t.start % align = 0 THEN s.free + 1 ELSE s.free
                 IN [t EXCEPT !.free = f, !.done = f = n]
        scan[i \in 0 .. bits] ==
            IF i = 0 THEN Scan0 ELSE step(scan[i - 1], i - 1)
    IN IF scan[bits].done THEN scan[bits].start ELSE -1

InRange(bm, start, n) == start + n - 1 < bm.len

\* -EFAULT and no change when the range leaves the bitmap.
bitmap_set_range(bm, start, n) ==
    IF InRange(bm, start, n) THEN [bm EXCEPT !.set = @ \cup (start .. start + n - 1)] ELSE bm
bitmap_unset_range(bm, start, n) ==
    IF InRange(bm, start, n) THEN [bm EXCEPT !.set = @ \ (start .. start + n - 1)] ELSE bm

-----------------------------------------------------------------------------
\* What the search is meant to compute: the lowest aligned run of n unset bits
\* among the first len bits, -1 when there is none.
FirstFit(bm, len, n, align) ==
    LET fits == {x \in 0 .. len - 1 :
                    /\ x % align = 0 /\ x + n - 1 < len
                    /\ (x .. x + n - 1) \cap bm.set = {}}
    IN IF fits = {} THEN -1 ELSE CHOOSE x \in fits : \A y \in fits : x <= y
=============================================================================
