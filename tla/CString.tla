------------------------------ MODULE CString ------------------------------
(***************************************************************************)
(* The string functions of the C library and of the kernel.  A character is  *)
(* a number, a string is the sequence of its characters with the final 0,    *)
(* and memory a sequence indexed from 0 by At.  Each function is checked     *)
(* against what it must return, on every input of a small alphabet.          *)
(***************************************************************************)
EXTENDS Integers, Sequences, SequencesExt, FiniteSetsExt

CONSTANTS
  Letters,    \* characters of strings, positive
  MaxStr,     \* the longest string
  MemLen,     \* bytes of memory that memmove and memset are tried on
  Delims      \* the delimiters given to strtok_r

ASSUME CStringAssumption ==
  Letters \subseteq Nat \ {0} /\ MaxStr \in Nat /\ MemLen \in Nat /\ Delims \subseteq Letters

VARIABLE cs   \* the call that is tried

NUL == 0
At(s, i) == s[i + 1]
Text(s) == SubSeq(s, 1, Len(s) - 1)
Strings == {Append(t, NUL) : t \in SeqOf(Letters, MaxStr)}

\* The least index at or after i where P holds, as the loops find it.
FirstFrom(i, P(_)) == CHOOSE j \in i..(i + MaxStr + MemLen) : P(j) /\ \A k \in i..(j - 1) : ~P(k)

-----------------------------------------------------------------------------
strlen(s) == FirstFrom(0, LAMBDA i : At(s, i) = NUL)

Cmp(a, b) == IF a < b THEN -1 ELSE IF a > b THEN 1 ELSE 0
strcmp(a, b) ==
  LET i == FirstFrom(0, LAMBDA j : At(a, j) # At(b, j) \/ At(a, j) = NUL \/ At(b, j) = NUL)
  IN  Cmp(At(a, i), At(b, i))
strncmp(a, b, num) ==
  LET i == FirstFrom(0, LAMBDA j :
             j = num \/ At(a, j) # At(b, j) \/ At(a, j) = NUL \/ At(b, j) = NUL)
  IN  IF i = num THEN 0 ELSE Cmp(At(a, i), At(b, i))
memcmp(a, b, n) ==
  LET diff == {i \in 0..(n - 1) : At(a, i) # At(b, i)}
  IN  IF diff = {} THEN 0 ELSE At(a, Min(diff)) - At(b, Min(diff))
memchr(m, c, n) ==
  LET at == {i \in 0..(n - 1) : At(m, i) = c} IN IF at = {} THEN -1 ELSE Min(at)

strcpy(dest, src) ==
  [i \in 1..Len(dest) |-> IF i <= strlen(src) THEN src[i]
                          ELSE IF i = strlen(src) + 1 THEN NUL ELSE dest[i]]
strncpy(dest, src, n) ==
  [i \in 1..Len(dest) |-> IF i > n THEN dest[i] ELSE IF i <= strlen(src) THEN src[i] ELSE NUL]
strcat(dest, src) ==
  [i \in 1..Len(dest) |->
     LET k == i - strlen(dest) IN
       IF k < 1 THEN dest[i] ELSE IF k <= strlen(src) THEN src[k]
       ELSE IF k = strlen(src) + 1 THEN NUL ELSE dest[i]]
memccpy(dest, src, stop, n) ==
  LET at == {i \in 1..n : src[i] = stop}
      k == IF at = {} THEN n ELSE Min(at)
  IN  [mem |-> [i \in 1..Len(dest) |-> IF i <= k THEN src[i] ELSE dest[i]],
       ret |-> IF at = {} THEN -1 ELSE k]

strchr(s, c) ==
  LET i == FirstFrom(0, LAMBDA j : At(s, j) = c \/ At(s, j) = NUL)
  IN  IF At(s, i) = c THEN i ELSE -1
strrchr(s, c) ==
  LET at == {i \in 0..(strlen(s) - 1) : At(s, i) = c} IN IF at = {} THEN -1 ELSE Max(at)

\* memcmp of the needle at each place before the end; it stops at the final 0
\* of the haystack, which no character of the needle equals.
MatchAt(hay, needle, i) ==
  \A j \in 0..(strlen(needle) - 1) :
    (\A k \in 0..(j - 1) : At(hay, i + k) = At(needle, k)) => At(hay, i + j) = At(needle, j)
strstr(hay, needle) ==
  LET at == {i \in 0..(strlen(hay) - 1) : MatchAt(hay, needle, i)}
  IN  IF at = {} THEN -1 ELSE Min(at)

\* strtok_r at offset str of the text s: the loop skips delimiters while the
\* token is empty, ends at the first one after it, and cuts the text there.
RECURSIVE TokScan(_, _, _, _, _)
TokScan(s, str, i, start, end) ==
  IF At(s, str + i) = NUL THEN [start |-> start, end |-> end]
  ELSE IF At(s, str + i) \in Delims /\ end # start THEN [start |-> start, end |-> end]
  ELSE TokScan(s, str, i + 1, IF At(s, str + i) \in Delims THEN start + 1 ELSE start, end + 1)
strtok_r(s, str) ==
  LET t == TokScan(s, str, 0, 0, 0)
      cut == [s EXCEPT ![str + t.end + 1] = NUL]
  IN  IF At(s, str + t.start) = NUL THEN [s |-> s, tok |-> -1, save |-> str]
      ELSE [s |-> cut, tok |-> str + t.start,
            save |-> IF At(s, str + t.end) = NUL THEN str + t.end ELSE str + t.end + 1]
RECURSIVE Tokens(_, _)
Tokens(s, str) ==
  LET r == strtok_r(s, str)
      tok == SubSeq(r.s, r.tok + 1, FirstFrom(r.tok, LAMBDA j : At(r.s, j) = NUL))
  IN  IF r.tok = -1 THEN <<>> ELSE <<tok>> \o Tokens(r.s, r.save)

-----------------------------------------------------------------------------
\* memcpy copies words of four bytes, then the rest.
CopyAt(m, dest, src, n) ==
  [i \in 1..Len(m) |-> IF i > dest /\ i <= dest + n THEN m[src + i - dest] ELSE m[i]]
RECURSIVE Copied(_, _, _, _, _)
Copied(m, dest, src, k, step) ==
  IF k = 0 THEN m ELSE Copied(CopyAt(m, dest, src, step), dest + step, src + step, k - 1, step)
memcpy(m, dest, src, n) ==
  LET c == n \div 4 IN Copied(Copied(m, dest, src, c, 4), dest + 4 * c, src + 4 * c, n % 4, 1)

\* memmove: forward through memcpy, or backward byte by byte.
RECURSIVE Backward(_, _, _, _)
Backward(m, dest, src, n) ==
  IF n = 0 THEN m
  ELSE Backward([m EXCEPT ![dest + n] = m[src + n]], dest, src, n - 1)
memmove(m, dest, src, n) ==
  IF src > dest THEN memcpy(m, dest, src, n) ELSE Backward(m, dest, src, n)

\* memset of ARM, by its labels: the addresses that are written from r3 on with
\* r2 bytes left.
RECURSIVE MemsetArm(_, _, _)
MemsetArm(label, r3, r2) ==
  LET Store(k, next) == (r3..(r3 + k - 1)) \cup MemsetArm(next, r3 + k, r2 - k)
      left == r2 - 4
  IN  CASE label = "entry" -> IF r2 = 0 THEN {} ELSE
             MemsetArm(IF r3 % 4 = 0 THEN "words" ELSE "byte", r3, r2)
        [] label = "byte" -> Store(1, IF r2 = 1 THEN "exit"
                                      ELSE IF (r3 + 1) % 4 # 0 THEN "byte" ELSE "words")
        [] label = "words" -> MemsetArm(IF r2 < 4 THEN "byte_2"
                                        ELSE IF r3 % 16 = 0 THEN "blocks" ELSE "word", r3, r2)
        [] label = "word" -> Store(4, IF left = 0 THEN "exit" ELSE IF left < 4 THEN "byte_2"
                                      ELSE IF (r3 + 4) % 16 # 0 THEN "word" ELSE "blocks")
        [] label = "blocks" -> IF r2 < 16 THEN MemsetArm("rest", r3, r2) ELSE Store(16, "blocks")
        [] label = "rest" -> IF r2 = 0 THEN {}
                             ELSE MemsetArm(IF r2 < 4 THEN "byte_2" ELSE "word_2", r3, r2)
        [] label = "word_2" -> Store(4, IF left = 0 THEN "exit"
                                        ELSE IF left >= 4 THEN "word_2" ELSE "byte_2")
        [] label = "byte_2" -> Store(1, IF r2 = 1 THEN "exit" ELSE "byte_2")
        [] label = "exit" -> {}

\* The kernel's memset: bytes up to a multiple of eight, words, and the rest; its
\* memmove goes byte by byte, and its memcmp tells the order only.
memset_kernel(dest, n) ==
  LET head == (8 - (dest % 8)) % 8
      words == (n - head) \div 8
      tail == dest + head + 8 * words
  IN  IF n < 16 THEN dest..(dest + n - 1)
      ELSE (dest..(dest + head - 1)) \cup UNION {(dest + head + 8 * i)..(dest + head + 8 * i + 7) :
                                                   i \in 0..(words - 1)}
           \cup (tail..(tail + (n - head - words * 8) - 1))
memmove_kernel(m, dest, src, n) ==
  IF src > dest THEN Copied(m, dest, src, n, 1) ELSE Backward(m, dest, src, n)
memcmp_kernel(a, b, n) ==
  LET diff == {i \in 0..(n - 1) : At(a, i) # At(b, i)}
  IN  IF diff = {} THEN 0 ELSE Cmp(At(a, Min(diff)), At(b, Min(diff)))

-----------------------------------------------------------------------------
Garbage == [i \in 1..MemLen |-> 100 + i]
CsInit ==
  \/ \E a \in Strings : cs = [fn |-> "one", a |-> a]
  \/ \E a, b \in Strings : cs = [fn |-> "two", a |-> a, b |-> b]
  \/ \E d, s \in 0..(MemLen - 1), n \in 0..MemLen :
       d + n <= MemLen /\ s + n <= MemLen /\ cs = [fn |-> "move", d |-> d, s |-> s, n |-> n]
  \/ \E d \in 0..15, n \in 0..40 : cs = [fn |-> "set", d |-> d, n |-> n]

First(t, n) == SubSeq(t, 1, IF n < Len(t) THEN n ELSE Len(t))

\* Lexicographic order of texts.
RefOrder(x, y) ==
  LET diff == {i \in 1..Len(x) : i > Len(y) \/ (i <= Len(y) /\ x[i] # y[i])}
      i == Min(diff)
  IN  IF diff = {} THEN (IF Len(x) < Len(y) THEN -1 ELSE 0)
      ELSE IF i > Len(y) THEN 1 ELSE Cmp(x[i], y[i])
\* The maximal runs of characters that are no delimiters.
RefTokens(t) ==
  LET starts == {i \in DOMAIN t : t[i] \notin Delims /\ (i = 1 \/ t[i - 1] \in Delims)}
      EndOf(i) == Max({j \in i..Len(t) : \A k \in i..j : t[k] \notin Delims})
  IN  [n \in 1..Cardinality(starts) |->
         LET i == CHOOSE j \in starts : Cardinality({k \in starts : k < j}) = n - 1
         IN  SubSeq(t, i, EndOf(i))]

\* Comparisons order texts, searches find the first or the last place, a copy
\* leaves the bytes after it alone, and strtok_r, called again until it returns
\* NULL, gives each token once.  One search is excepted: strstr of an empty text
\* in an empty text gives NULL, where the standard gives the text.
StringsExact ==
  /\ cs.fn = "two" =>
       /\ strcmp(cs.a, cs.b) = RefOrder(Text(cs.a), Text(cs.b))
       /\ LET n == Min({Len(cs.a), Len(cs.b)}) IN
            Cmp(memcmp(cs.a, cs.b, n), 0) = memcmp_kernel(cs.a, cs.b, n)
            /\ memcmp_kernel(cs.a, cs.b, n) = strcmp(cs.a, cs.b)
       /\ \A n \in 0..MaxStr :
            strncmp(cs.a, cs.b, n) = RefOrder(First(Text(cs.a), n), First(Text(cs.b), n))
       /\ Text(cs.a) # <<>> \/ Text(cs.b) # <<>> => strstr(cs.a, cs.b) =
            LET at == {i \in 0..Len(Text(cs.a)) :
                         /\ i + Len(Text(cs.b)) <= Len(Text(cs.a))
                         /\ SubSeq(Text(cs.a), i + 1, i + Len(Text(cs.b))) = Text(cs.b)}
            IN  IF at = {} THEN -1 ELSE Min(at)
       /\ LET joined == strcat(cs.a \o [i \in 1..MaxStr |-> 7], cs.b)
              moved == strncpy(Garbage, cs.b, 2)
          IN  /\ SubSeq(joined, 1, strlen(joined)) = Text(cs.a) \o Text(cs.b)
              /\ SubSeq(strcpy(Garbage, cs.b), 1, Len(cs.b)) = cs.b
              /\ SubSeq(moved, 3, MemLen) = SubSeq(Garbage, 3, MemLen)
  /\ cs.fn = "one" =>
       /\ Tokens(cs.a, 0) = RefTokens(Text(cs.a))
       /\ \A c \in Letters :
            LET first == strchr(cs.a, c)
                last == strrchr(cs.a, c)
            IN  /\ first = memchr(cs.a, c, Len(cs.a)) /\ (first = -1 <=> last = -1)
                /\ first # -1 => last >= first /\ At(cs.a, last) = c
                     /\ \A i \in (last + 1)..(Len(cs.a) - 1) : At(cs.a, i) # c
                /\ memccpy(Garbage, cs.a, c, Len(cs.a)).ret = IF first = -1 THEN -1 ELSE first + 1

\* Whatever the overlap and the alignment, memmove moves the bytes that were
\* there, and the stores of memset are those of its range.
MovesExact ==
  /\ cs.fn = "move" =>
       LET moved == CopyAt(Garbage, cs.d, cs.s, cs.n)
       IN  memmove(Garbage, cs.d, cs.s, cs.n) = moved /\ memmove_kernel(Garbage, cs.d, cs.s, cs.n) = moved
  /\ cs.fn = "set" =>
       LET range == cs.d..(cs.d + cs.n - 1)
       IN  MemsetArm("entry", cs.d, cs.n) = range /\ memset_kernel(cs.d, cs.n) = range
=============================================================================
