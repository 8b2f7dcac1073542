------------------------------- MODULE Stdio -------------------------------
(***************************************************************************)
(* Buffered streams of the C library.  One FILE over one file of the kernel, *)
(* used by a program that keeps the rules of the C standard: setvbuf before  *)
(* anything else, a positioning or flushing call between output and input.   *)
(* The stream is compared with the stream the standard describes, ref.       *)
(***************************************************************************)
EXTENDS Integers, Sequences, SequencesExt

CONSTANTS
  BUFSIZ,        \* the size of a new stream's buffer, bytes
  VbufSizes,     \* the sizes given to setvbuf; setlinebuf gives 0
  Contents,      \* what the file may hold at first
  IoSizes,       \* the sizes of reads and writes
  MaxFile,       \* bound: bytes in the file
  PartialWrites, \* whether write may take less than it is given
  TellBuffered   \* whether ftell is called with bytes in the read buffer

ASSUME StdioAssumption ==
  /\ BUFSIZ \in Nat /\ VbufSizes \subseteq Nat /\ IoSizes \subseteq Nat /\ MaxFile \in Nat
  /\ PartialWrites \in BOOLEAN /\ TellBuffered \in BOOLEAN
  /\ \A c \in Contents : Len(c) <= MaxFile

VARIABLE io

Newline == 0
New == 9          \* a byte the program writes
High == 200       \* a byte that is negative as a signed char
EofChar == 255    \* EOF as an unsigned char
UNGOTC_EMPTY == 99
Least(a, b) == IF a < b THEN a ELSE b
Down4(n) == (n \div 4) * 4
TakeSeq(s, n) == SubSeq(s, 1, Least(n, Len(s)))
DropSeq(s, n) == SubSeq(s, n + 1, Len(s))

\* _split_rwbuf: the first half for reading, the second for writing.
_split_rwbuf(f, size) ==
  LET rsize == Down4((size + 1) \div 2)
  IN  [f EXCEPT !.rsize = rsize, !.wsize = Down4(size - rsize), !.r = <<>>, !.w = <<>>]

\* _free_buf gives the buffer back to malloc unless _IO_USER_BUF says it is the
\* program's; no code sets that flag.
_free_buf(f) == IF "USER_BUF" \in f.flags \/ f.base = "none" THEN f ELSE [f EXCEPT !.buf = "freed"]

\* _resize_buf, when malloc gives memory.
_resize_buf(f, size) ==
  LET g == _free_buf(f)
  IN  IF size = 0 THEN g ELSE _split_rwbuf([g EXCEPT !.base = "heap", !.buf = "live"], size)

_init_stream == [flags |-> {}, base |-> "none", buf |-> "none", rsize |-> 0, wsize |-> 0,
                 r |-> <<>>, w |-> <<>>, ungotc |-> UNGOTC_EMPTY]

\* Writing s at offset off of content d.
Overlay(d, off, s) ==
  [i \in 1..(IF off + Len(s) > Len(d) THEN off + Len(s) ELSE Len(d)) |->
     IF i > off /\ i <= off + Len(s) THEN s[i - off] ELSE d[i]]

\* External: the kernel's file.  A read gives all there is, a write takes k bytes.
SysRead(n) == TakeSeq(DropSeq(io.data, io.off), n)
SysWritten(s, k) == [io EXCEPT !.data = Overlay(@, io.off, TakeSeq(s, k)), !.off = @ + k]
Accepted(n) == IF PartialWrites THEN 0..n ELSE {n}

\* _flush_wbuf: a write that is cut short leaves the buffer as it is.
Flushed(st, k) ==
  LET o == [st EXCEPT !.data = Overlay(@, st.off, TakeSeq(st.f.w, k)), !.off = @ + k]
  IN  IF k # Len(st.f.w) THEN o ELSE [o EXCEPT !.f.w = <<>>]

_drop_rbuf(f) == [f EXCEPT !.r = <<>>, !.ungotc = UNGOTC_EMPTY]

CanUseBuffer(f) == "UNBUFFERED" \notin f.flags

-----------------------------------------------------------------------------
\* _fread_internal's loop: the buffer is refilled until the request is served
\* or the file ends.  got collects what the caller receives.
RECURSIVE Refill(_, _, _)
Refill(st, size, got) ==
  LET chunk == TakeSeq(DropSeq(st.data, st.off), st.f.rsize)
      n == Least(Len(chunk), size)
  IN  IF size = 0 THEN [st |-> st, got |-> got]
      ELSE IF chunk = <<>>
      THEN [st |-> [st EXCEPT !.f.r = <<>>, !.f.flags = @ \cup {"EOF_SEEN"}], got |-> got]
      ELSE Refill([st EXCEPT !.off = @ + Len(chunk), !.f.r = DropSeq(chunk, n)],
                  size - n, got \o TakeSeq(chunk, n))

_fread_internal(st, size) ==
  LET direct == TakeSeq(DropSeq(st.data, st.off), size)
      back == IF st.f.ungotc = UNGOTC_EMPTY THEN <<>> ELSE <<st.f.ungotc>>
      held == TakeSeq(st.f.r, size - Len(back))
      s2 == [st EXCEPT !.f.ungotc = UNGOTC_EMPTY, !.f.r = DropSeq(@, Len(held))]
  IN  CASE size = 0 -> [st |-> st, got |-> <<>>]
        [] size # 0 /\ ~CanUseBuffer(st.f) ->
             [st |-> [st EXCEPT !.off = @ + Len(direct),
                        !.f.flags = @ \cup (IF Len(direct) < size THEN {"EOF_SEEN"} ELSE {})],
              got |-> direct]
        [] OTHER -> Refill(s2, size - Len(back) - Len(held), back \o held)

\* _fwrite_internal: the buffer is filled and flushed when it is full.  With no
\* room that a flush can make the loop has no end.
RECURSIVE _fwrite_internal(_, _, _)
_fwrite_internal(st, s, k) ==
  LET n == Least(st.f.wsize - Len(st.f.w), Len(s))
      filled == [st EXCEPT !.f.w = @ \o TakeSeq(s, n)]
      full == Len(filled.f.w) = st.f.wsize
      next == IF full THEN Flushed(filled, Least(k, Len(filled.f.w))) ELSE filled
  IN  IF s = <<>> THEN st
      ELSE IF n = 0 /\ Len(next.f.w) = st.f.wsize THEN [next EXCEPT !.spins = TRUE]
      ELSE _fwrite_internal(next, DropSeq(s, n), k)

\* What the standard promises: a position in a sequence of bytes.
RefRead(st, n) == TakeSeq(DropSeq(st.ref.data, st.ref.pos), n)

-----------------------------------------------------------------------------
\* _fopen_internal, after which the program may choose the buffer once.
IoInit ==
  \E c \in Contents, signed \in BOOLEAN :   \* char is signed on x86, not on ARM
    io = [signed |-> signed, f |-> _resize_buf(_init_stream, BUFSIZ), data |-> c, off |-> 0, spins |-> FALSE,
          use |-> "new", back |-> 0, wrong |-> FALSE, out |-> 0,
          ref |-> [data |-> c, pos |-> 0]]

\* setvbuf, setbuf and setlinebuf; own says whether the program gives its memory.
\* The size 0 frees the buffer and leaves it in use: use = "gone", after which no
\* call has memory of its own, and the model ends.
setvbuf ==
  /\ io.use = "new"
  /\ \E mode \in {"full", "line", "none"}, size \in VbufSizes, own \in BOOLEAN :
       /\ own => size > 0
       /\ LET fl == (io.f.flags \ {"UNBUFFERED", "LINE_BUF"})
                    \cup (CASE mode = "none" -> {"UNBUFFERED"} [] mode = "line" -> {"LINE_BUF"}
                            [] OTHER -> {})
              f == [io.f EXCEPT !.flags = fl]
          IN  io' = [io EXCEPT !.use = IF mode # "none" /\ size = 0 THEN "gone" ELSE "open",
                       !.f = CASE mode = "none" -> _free_buf(f)
                               [] mode # "none" /\ ~own -> _resize_buf(f, size)
                               [] OTHER -> _split_rwbuf([f EXCEPT !.base = "own", !.buf = "live"], size)]

fread(n) ==
  /\ io.use \in {"new", "open", "read"}
  /\ LET r == _fread_internal(io, n)
     IN  io' = [r.st EXCEPT !.use = "read", !.wrong = r.got # RefRead(io, n),
                            !.back = IF Len(r.got) > 0 THEN 1 ELSE @,
                            !.ref.pos = @ + Len(RefRead(io, n))]

\* ungetc of the byte read last.  An unbuffered stream takes it, but its reads
\* do not look at _ungotc: there, and only there, ref does not go back.
Regained(f) == IF f.ungotc # UNGOTC_EMPTY /\ CanUseBuffer(f) THEN 1 ELSE 0
ungetc ==
  /\ io.use = "read" /\ io.back > 0
  /\ io.f.ungotc = UNGOTC_EMPTY
  /\ LET f == [io.f EXCEPT !.ungotc = io.ref.data[io.ref.pos], !.flags = @ \ {"EOF_SEEN"}]
     IN  io' = [io EXCEPT !.f = f, !.ref.pos = @ - Regained(f), !.back = 0]

\* fgets: stdout is flushed, then bytes are read one by one until a newline or a
\* negative char.  Its variable c is read before it is set: c0 is what it holds.
\* EOF is negative only as a signed char, and then so is a byte above 127; as an
\* unsigned char it is stored like a byte, until the buffer is full.
fgetc(st) ==
  LET r == _fread_internal(st, 1)
  IN  [st |-> r.st, c |-> IF r.got = <<>> THEN EofChar ELSE r.got[1]]
Negative(st, c) == st.signed /\ c >= 128
RECURSIVE GetLine(_, _, _, _)
GetLine(st, size, c, got) ==
  LET r == fgetc(st)
  IN  IF c = Newline \/ Len(got) >= size THEN [st |-> st, got |-> got]
      ELSE IF Negative(st, r.c) THEN [st |-> r.st, got |-> got]
      ELSE GetLine(r.st, size, r.c, Append(got, r.c))

\* The line of the standard, and the calls that do not give it: c is a newline at
\* the start, a byte above 127 ends a line of signed chars and is lost, the end of
\* the file is not met with unsigned ones.  taken: what is used of the stream.
RefLine(rest) ==
  LET nl == {i \in DOMAIN rest : rest[i] = Newline}
  IN  IF nl = {} THEN rest ELSE TakeSeq(rest, CHOOSE i \in nl : \A j \in nl : i <= j)
Highs(line) == {i \in DOMAIN line : line[i] >= 128}
Departs(st, size, c0, line) ==
  \/ c0 = Newline
  \/ st.signed /\ Highs(line) # {}
  \/ ~st.signed /\ Len(line) < size /\ (line = <<>> \/ Last(line) # Newline)
fgets(size) ==
  /\ io.use \in {"new", "open", "read"}
  /\ \E c0 \in {Newline, New} :
       LET r == GetLine(io, size, c0, <<>>)
           line == RefLine(RefRead(io, size))
           taken == CASE c0 = Newline -> 0
                      [] c0 # Newline /\ io.signed /\ Highs(line) # {} ->
                           CHOOSE i \in Highs(line) : \A j \in Highs(line) : i <= j
                      [] OTHER -> Len(line)
       IN  io' = [r.st EXCEPT !.use = "read", !.out = 0,
                              !.wrong = ~Departs(io, size, c0, line) /\ r.got # line,
                              !.back = IF taken > 0 THEN 1 ELSE @,
                              !.ref.pos = @ + taken]

\* fwrite and fputc of n new bytes.
fwrite(n) ==
  /\ io.use \in {"new", "open", "write"} /\ io.ref.pos + n <= MaxFile
  /\ \E k \in (IF CanUseBuffer(io.f) THEN (IF PartialWrites THEN 0..io.f.wsize ELSE {io.f.wsize})
               ELSE Accepted(n)) :
       LET s == [i \in 1..n |-> New]
           st == IF CanUseBuffer(io.f) THEN _fwrite_internal(io, s, k) ELSE SysWritten(s, k)
       IN  io' = [st EXCEPT !.use = "write", !.ref.data = Overlay(@, io.ref.pos, s),
                            !.ref.pos = @ + n]

fflush ==
  \E k \in Accepted(Len(io.f.w)) :
    io' = [Flushed(io, k) EXCEPT !.use = IF @ = "write" THEN "open" ELSE @]

\* fseek to an absolute offset, and ftell: the buffered bytes are dropped, and
\* the answer is the kernel's offset.
fseek ==
  \E k \in Accepted(Len(io.f.w)), pos \in {0, 2} :
    /\ pos <= Len(io.ref.data)
    /\ io' = [Flushed(io, k) EXCEPT !.f = _drop_rbuf(@), !.off = pos, !.use = "open", !.back = 0,
                                    !.ref.pos = pos]
ftell ==
  /\ TellBuffered \/ (io.f.r = <<>> /\ io.f.ungotc = UNGOTC_EMPTY)
  /\ \E k \in Accepted(Len(io.f.w)) :
       io' = [Flushed(io, k) EXCEPT !.f = _drop_rbuf(@), !.use = "open", !.back = 0]

\* putchar to stdout, which is flushed by the next fgets.
putchar == io.out < 1 /\ io' = [io EXCEPT !.out = @ + 1]

\* fclose: flush, close, and give buffer and FILE back.
fclose ==
  \E k \in Accepted(Len(io.f.w)) :
    io' = [Flushed(io, k) EXCEPT !.use = "closed",
             !.f.buf = IF io.f.base = "own" THEN "foreign" ELSE
                       IF io.f.buf = "freed" THEN "twice" ELSE _free_buf(io.f).buf]

IoNext ==
  /\ io.use \notin {"closed", "gone"} /\ ~io.spins
  /\ \/ setvbuf \/ ungetc \/ fflush \/ fseek \/ ftell \/ putchar \/ fclose
     \/ \E n \in IoSizes : fread(n) \/ fwrite(n) \/ fgets(n)

-----------------------------------------------------------------------------
\* The stream is the standard's: a read gives the bytes at the position, the
\* file with the buffered output over it holds what was written, and the
\* position is the kernel's offset, less what is buffered and pushed back.  Said
\* of all calls but a byte pushed back on an unbuffered stream, which is lost, and
\* the calls of fgets that Departs names.
StreamIsFile ==
  /\ ~io.wrong
  /\ io.use # "closed" =>
       /\ Overlay(io.data, io.off, io.f.w) = io.ref.data
       /\ io.ref.pos = io.off + Len(io.f.w) - Len(io.f.r) - Regained(io.f)
  /\ io.use = "closed" => io.data = io.ref.data

\* Reads and writes go through memory that malloc still gives to the stream,
\* unless the size 0 was asked for, as setlinebuf does; and no call spins on a
\* buffer that a flush cannot empty.
BufferLive ==
  /\ ~io.spins
  /\ io.use # "closed" /\ CanUseBuffer(io.f) => io.f.buf = (IF io.use = "gone" THEN "freed" ELSE "live")
=============================================================================
