-------------------------------- MODULE CEnv --------------------------------
(***************************************************************************)
(* Two stores of the C library that live in plain arrays: the environment,   *)
(* a vector of "name=value" strings, and the passwd and shadow readers,      *)
(* which parse one line after another in the same static buffer.             *)
(***************************************************************************)
EXTENDS Integers, Sequences, SequencesExt, FiniteSetsExt

CONSTANTS
  Names, Values,  \* of environment variables
  MaxEnv,         \* bound: entries of environ
  UnsetAny,       \* whether unsetenv is called for a name that is absent, last or twice there
  NF,             \* fields of a line: 7 in passwd, 9 in shadow
  PwLines,        \* the lines a file is made of, without newline
  MaxPwLines,      \* lines of a file
  PwBuf           \* bytes of passwd_buf

ASSUME CEnvAssumption ==
  MaxEnv \in Nat /\ UnsetAny \in BOOLEAN /\ NF \in Nat /\ MaxPwLines \in Nat /\ PwBuf \in Nat

VARIABLES env,   \* environ, and what the program set
          pw     \* the reader of a passwd file

-----------------------------------------------------------------------------
\* getenv: the first entry of that name.
EnvEntries(e, n) == {i \in DOMAIN e : e[i].name = n}
getenv(e, n) == IF EnvEntries(e, n) = {} THEN "none" ELSE e[Min(EnvEntries(e, n))].value

\* putenv: over the first entry of that name, or in a longer vector.
putenv(e, n, v) ==
  IF EnvEntries(e, n) # {} THEN [e EXCEPT ![Min(EnvEntries(e, n))].value = v]
  ELSE Append(e, [name |-> n, value |-> v])
setenv(e, n, v, overwrite) ==
  IF ~overwrite /\ getenv(e, n) # "none" THEN e ELSE putenv(e, n, v)

\* unsetenv: the entries after the last one of that name move down, the first
\* one's place serving for a name that is not there.  The vector keeps its
\* length, and its last entry is there twice.
unsetenv(e, n) ==
  LET at == IF EnvEntries(e, n) = {} THEN 1 ELSE Max(EnvEntries(e, n))
  IN  [i \in DOMAIN e |-> IF i >= at /\ i < Len(e) THEN e[i + 1] ELSE e[i]]

EnvInit == env = [vec |-> <<>>, ref |-> [n \in Names |-> "none"]]
Set ==
  \E n \in Names, v \in Values, over \in BOOLEAN :
    /\ Len(env.vec) < MaxEnv \/ EnvEntries(env.vec, n) # {}
    /\ env' = [vec |-> setenv(env.vec, n, v, over),
               ref |-> IF over \/ env.ref[n] = "none" THEN [env.ref EXCEPT ![n] = v] ELSE env.ref]
Unset ==
  \E n \in Names :
    /\ env.vec # <<>>
    /\ UnsetAny \/ (Cardinality(EnvEntries(env.vec, n)) = 1 /\ Len(env.vec) \notin EnvEntries(env.vec, n))
    /\ env' = [vec |-> unsetenv(env.vec, n), ref |-> [env.ref EXCEPT ![n] = "none"]]
EnvNext == Set \/ Unset

\* The environment is a map: getenv gives what was set last, whatever was set
\* or removed before, although entries stay behind twice.
EnvIsMap == \A n \in Names : getenv(env.vec, n) = env.ref[n]

-----------------------------------------------------------------------------
Colon == 58
NL == 10

\* The text of a file of lines.
FileText(lines) == FoldLeft(LAMBDA t, l : t \o l \o <<NL>>, <<>>, lines)

\* fgets into the buffer: a line with its newline, or what is left; only at the
\* end of the file is there a final 0.
fgetsInto(buf, text) ==
  LET nl == {i \in DOMAIN text : text[i] = NL}
      n == Min((IF nl = {} THEN {Len(text)} ELSE {Min(nl)}) \cup {PwBuf})
  IN  [buf |-> [i \in 1..PwBuf |-> IF i <= n THEN text[i]
                                   ELSE IF nl = {} /\ i = n + 1 THEN 0 ELSE buf[i]],
       text |-> SubSeq(text, n + 1, Len(text)), eof |-> nl = {}]

\* strlen of the buffer, which holds the last line and what it did not cover.
TextLen(buf) == LET z == {i \in 1..PwBuf : buf[i] = 0} IN IF z = {} THEN PwBuf ELSE Min(z) - 1

\* parse_passwd_entry: the colons become final zeros, and the line counts when it
\* has NF parts.  With more than NF the rest of the colons stays.
parse_entry(buf) ==
  LET len == TextLen(buf)
      colons == {i \in 1..len : buf[i] = Colon}
      Nth(k) == CHOOSE i \in colons : Cardinality({j \in colons : j < i}) = k - 1
      cut == IF Cardinality(colons) >= NF THEN {Nth(k) : k \in 1..NF} ELSE colons
      new == [i \in 1..PwBuf |-> IF i \in cut \/ (i = len + 1 /\ cut = colons) THEN 0 ELSE buf[i]]
      Part(k) == SubSeq(new, IF k = 1 THEN 1 ELSE Nth(k - 1) + 1, IF k = NF THEN len ELSE Nth(k) - 1)
  IN  [buf |-> new, entry |-> IF Cardinality(colons) = NF - 1 THEN [k \in 1..NF |-> Part(k)] ELSE <<>>]

PwInit ==
  \E lines \in SeqOf(PwLines, MaxPwLines) :
    pw = [text |-> FileText(lines), buf |-> [i \in 1..PwBuf |-> 0], lines |-> lines,
          line |-> <<>>, eof |-> FALSE, entry |-> <<>>, done |-> FALSE]

\* getpwent: lines are read until one parses.  At the end of the file fgets gives
\* NULL or, where char is unsigned, a buffer without colons: no entry either way.
getpwent ==
  LET r == fgetsInto(pw.buf, pw.text)
      p == parse_entry(r.buf)
  IN  /\ ~pw.done
      /\ pw' = IF pw.eof \/ pw.text = <<>>
               THEN [pw EXCEPT !.done = TRUE, !.entry = <<>>, !.line = <<>>, !.eof = TRUE]
               ELSE [pw EXCEPT !.text = r.text, !.eof = r.eof, !.buf = p.buf, !.entry = p.entry,
                               !.line = Head(pw.lines), !.lines = Tail(@)]
PwNext == getpwent

\* The fields of a line.
RefFields(l) ==
  LET c == {i \in DOMAIN l : l[i] = Colon}
      Nth(k) == CHOOSE i \in c : Cardinality({j \in c : j < i}) = k - 1
  IN  [k \in 1..(Cardinality(c) + 1) |->
         SubSeq(l, IF k = 1 THEN 1 ELSE Nth(k - 1) + 1, IF k = Cardinality(c) + 1 THEN Len(l) ELSE Nth(k) - 1)]

\* A line of the file that has NF fields is found, with the fields it has,
\* although the line before it is still in the buffer behind it; the last field
\* alone is followed by the newline and what the buffer held.
LinesFound ==
  LET ref == RefFields(pw.line)
  IN  /\ (pw.entry # <<>>) <=> (Len(ref) = NF)
      /\ Len(ref) = NF => /\ \A k \in 1..(NF - 1) : pw.entry[k] = ref[k]
                         /\ IsPrefix(ref[NF], pw.entry[NF])
=============================================================================
