------------------------------ MODULE Streams ------------------------------
(* The byte streams of the kernel on top of the ring buffer: a pseudo        *)
(* terminal pair with its line discipline, the keyboard and mouse queues and *)
(* local sockets with one read offset per descriptor.  Bytes are numbered    *)
(* 0 .. Tags-1 in the order they are written, so that a byte that is lost,   *)
(* duplicated or reordered shows.  Rings have RingLen bytes (16 KB there).   *)
EXTENDS Integers, Sequences, FiniteSets, SequencesExt

CONSTANTS RingLen, Tags,
          SizeMod,       \* 2^32: descriptors' offsets wrap, and RingLen divides it
          Writes, Reads, \* lengths of writes and of reads
          Packet,        \* sizeof(kbd_packet_t)
          Readers,       \* threads that read the terminal
          MaxLines,
          Fds            \* descriptors of local sockets
ASSUME StreamsAssumption ==
    /\ RingLen \in Nat \ {0} /\ Tags \in Nat /\ Tags > RingLen
    /\ SizeMod \in Nat \ {0} /\ SizeMod % RingLen = 0
    /\ Writes \subseteq 1 .. RingLen /\ Reads \subseteq Nat
    /\ Packet \in 1 .. RingLen /\ MaxLines \in Nat
    /\ Fds \cap {"tty", "ptm", "kbd"} = {}

VARIABLES tty,      \* pty_slaves[i].tty: [buf, line_count, icanon]
          ptm,      \* pty_masters[i]: [buf, open]; open: inode_indx # 0
          made,     \* pty_slaves[i].inode_indx # 0: the slave was registered
          ready,    \* readers whose can_read was seen true
          kbd,      \* gkeyboard_buffer, gmouse_buffer
          sock,     \* the ring of a bound socket
          off,      \* off[f]: offset of a connected descriptor, NoFd otherwise
          \* what the streams should hold
          pend, next, over, raced, short

ptyvars  == <<tty, ptm, made, ready>>
sockvars == <<sock, off>>
svars == <<ptyvars, kbd, sockvars, pend, next, over, raced, short>>

-----------------------------------------------------------------------------
(* algo/ringbuffer.c: a ring is [len, start, end, data].  start = end means  *)
(* empty, so a write that fills the ring empties it.  The _user variants and *)
(* the locked wrappers of sync_ringbuffer.h do the same as the plain ones.   *)

ringbuffer_create(len) == [len |-> len, start |-> 0, end |-> 0, data |-> [i \in 0 .. len - 1 |-> 0]]
ringbuffer_clear(b) == [b EXCEPT !.start = 0, !.end = 0]

Least(m, n) == IF m < n THEN m ELSE n

ringbuffer_space_to_read_from(b, at) ==
    LET s == at % b.len IN IF s <= b.end THEN b.end - s ELSE b.len - s + b.end
ringbuffer_space_to_read(b) == ringbuffer_space_to_read_from(b, b.start)
ringbuffer_space_to_write(b) ==
    IF b.start > b.end THEN b.start - b.end ELSE b.len - b.end + b.start

\* The part up to the end of the zone, then the part from its beginning: how
\* many bytes and where the pointer stops.  An unsigned difference below zero
\* is larger than any size.
TwoParts(len, at, limit, wraps, siz) ==
    LET first == IF wraps THEN Least(siz, len - at) ELSE 0
        from  == IF wraps /\ at + first = len THEN 0 ELSE at + first
        rest  == IF from > limit THEN siz - first ELSE Least(siz - first, limit - from)
    IN [count |-> first + rest, stop |-> from + rest]

\* [bytes, start]: what is read and the new start.
ringbuffer_read_from(b, at, siz) ==
    LET s == at % b.len
        p == TwoParts(b.len, s, b.end, s > b.end, siz)
    IN [bytes |-> [i \in 1 .. p.count |-> b.data[(s + i - 1) % b.len]], start |-> p.stop]

Store(b, at, bytes, n) ==
    [i \in 0 .. b.len - 1 |-> LET k == (i - at) % b.len IN IF k < n THEN bytes[k + 1] ELSE b.data[i]]

\* What does not fit is dropped.
ringbuffer_write(b, bytes) ==
    LET p == TwoParts(b.len, b.end, b.start, b.end >= b.start, Len(bytes))
    IN [b EXCEPT !.data = Store(b, b.end, bytes, p.count), !.end = p.stop]

\* Overwrites whatever is there; the write is not longer than the ring.
ringbuffer_write_ignore_bounds(b, bytes) ==
    [b EXCEPT !.data = Store(b, b.end, bytes, Len(bytes)), !.end = (b.end + Len(bytes)) % b.len]

-----------------------------------------------------------------------------
NoFd == -1
Channels == {"tty", "ptm", "kbd"} \cup Fds

Fresh(c, n) == [i \in 1 .. n |-> (next[c] + i - 1) % Tags]

\* The ghost of a write: the bytes are due, until the ring fills up; from then on
\* the stream is not followed.
Due(c, buf, n) ==
    /\ over' = [over EXCEPT ![c] = @ \/ n >= ringbuffer_space_to_write(buf)]
    /\ pend' = [pend EXCEPT ![c] = IF over'[c] THEN <<>> ELSE @ \o Fresh(c, n)]
    /\ next' = [next EXCEPT ![c] = (@ + n) % Tags]

Consumed(c, n) == pend' = [pend EXCEPT ![c] = SubSeq(@, n + 1, Len(@))]
Restart(cs) ==
    /\ pend' = [c \in Channels |-> IF c \in cs THEN <<>> ELSE pend[c]]
    /\ over' = [c \in Channels |-> IF c \in cs THEN FALSE ELSE over[c]]

-----------------------------------------------------------------------------
\* tty.c, pty_master.c, pty_slave.c
tty_can_read ==
    IF tty.icanon THEN tty.line_count > 0 ELSE ringbuffer_space_to_read(tty.buf) >= 1

\* Mutant: the line is not counted.
tty_writeNoLine(n) ==
    /\ ptm.open
    /\ tty' = [tty EXCEPT !.buf = ringbuffer_write(@, Fresh("tty", n))]
    /\ Due("tty", tty.buf, n)
    /\ UNCHANGED <<ptm, made, ready, kbd, sockvars, raced, short>>

\* pty_master_write: every write counts as a line, whatever it holds, and the
\* caller is told that all of it was written.
tty_write(n) ==
    /\ ptm.open
    /\ tty' = [tty EXCEPT !.buf = ringbuffer_write(@, Fresh("tty", n)), !.line_count = @ + 1]
    /\ Due("tty", tty.buf, n)
    /\ UNCHANGED <<ptm, made, ready, kbd, sockvars, raced, short>>

\* init_read_blocker: the condition is seen true now, the read comes later.
StartRead(r) ==
    /\ made /\ r \notin ready /\ tty_can_read
    /\ ready' = ready \cup {r}
    /\ UNCHANGED <<tty, ptm, made, kbd, sockvars, pend, next, over, raced, short>>

\* pty_slave_read: res always equals leno, so every read takes a line off.
tty_read(r, len) ==
    LET leno == Least(ringbuffer_space_to_read(tty.buf), len)
        got  == ringbuffer_read_from(tty.buf, tty.buf.start, leno)
    IN /\ r \in ready /\ ready' = ready \ {r}
       /\ tty' = [tty EXCEPT !.buf.start = got.start,
                             !.line_count = IF tty.icanon THEN @ - 1 ELSE @]
       /\ Consumed("tty", leno)
       /\ raced' = (raced \/ (tty.icanon /\ tty.line_count <= 0))
       /\ short' = (short \/ (tty.icanon /\ leno < ringbuffer_space_to_read(tty.buf)))
       /\ UNCHANGED <<ptm, made, kbd, sockvars, next, over>>

tty_clear(t) == [t EXCEPT !.buf = ringbuffer_clear(@), !.line_count = 0]

\* TCSETS, TCSETSW and TCSETSF.
tty_ioctl(icanon, flush) ==
    /\ made
    /\ tty' = [(IF flush THEN tty_clear(tty) ELSE tty) EXCEPT !.icanon = icanon]
    /\ IF flush THEN Restart({"tty"}) /\ raced' = FALSE /\ short' = FALSE
                ELSE UNCHANGED <<pend, over, raced, short>>
    /\ UNCHANGED <<ptm, made, ready, kbd, sockvars, next>>

pty_slave_write(n) ==
    /\ made
    /\ ptm' = [ptm EXCEPT !.buf = ringbuffer_write(@, Fresh("ptm", n))]
    /\ Due("ptm", ptm.buf, n)
    /\ UNCHANGED <<tty, made, ready, kbd, sockvars, raced, short>>

pty_master_read(len) ==
    LET leno == Least(ringbuffer_space_to_read(ptm.buf), len)
    IN /\ ptm.open /\ ringbuffer_space_to_read(ptm.buf) >= 1
       /\ ptm' = [ptm EXCEPT !.buf.start = ringbuffer_read_from(ptm.buf, ptm.buf.start, leno).start]
       /\ Consumed("ptm", leno)
       /\ UNCHANGED <<tty, made, ready, kbd, sockvars, next, over, raced, short>>

\* ptmx_open: pty_master_alloc and pty_slave_create.  A slave that exists keeps
\* its termios; the master gets a new ring.
pty_master_alloc ==
    /\ ~ptm.open
    /\ ptm' = [buf |-> ringbuffer_create(RingLen), open |-> TRUE]
    /\ tty' = IF made THEN tty_clear(tty)
              ELSE [buf |-> ringbuffer_create(RingLen), line_count |-> 0, icanon |-> TRUE]
    /\ made' = TRUE
    /\ Restart({"tty", "ptm"}) /\ raced' = FALSE /\ short' = FALSE
    /\ UNCHANGED <<ready, kbd, sockvars, next>>

\* The last descriptor of the master goes: _pty_master_free_dentry_data.
pty_master_close ==
    /\ ptm.open /\ ptm' = [ptm EXCEPT !.open = FALSE]
    /\ UNCHANGED <<tty, made, ready, kbd, sockvars, pend, next, over, raced, short>>

-----------------------------------------------------------------------------
\* generic_emit_key_set1, generic_mouse_send_packet: a packet per event.
EmitPacket ==
    /\ kbd' = ringbuffer_write(kbd, Fresh("kbd", Packet))
    /\ Due("kbd", kbd, Packet)
    /\ UNCHANGED <<ptyvars, sockvars, raced, short>>

\* _generic_keyboard_read, _generic_mouse_read.
ReadPackets(len) ==
    LET n == Least(ringbuffer_space_to_read(kbd), len) IN
    /\ ringbuffer_space_to_read(kbd) >= 1
    /\ kbd' = [kbd EXCEPT !.start = ringbuffer_read_from(kbd, @, n).start]
    /\ Consumed("kbd", n)
    /\ UNCHANGED <<ptyvars, sockvars, next, over, raced, short>>

-----------------------------------------------------------------------------
\* Mutant: reading starts at the beginning of the ring.
local_socket_connectAtStart(f) ==
    /\ off[f] = NoFd /\ off' = [off EXCEPT ![f] = sock.start]
    /\ UNCHANGED <<ptyvars, kbd, sock, pend, next, over, raced, short>>

\* local_socket.c: reading starts where the next byte will be written.
local_socket_connect(f) ==
    /\ off[f] = NoFd /\ off' = [off EXCEPT ![f] = sock.end]
    /\ UNCHANGED <<ptyvars, kbd, sock, pend, next, over, raced, short>>

\* Writers never wait; a reader RingLen bytes behind is overtaken.  All
\* descriptors share one stream, so one counter tags its bytes.
local_socket_write(n) ==
    LET tag   == CHOOSE f \in Fds : TRUE
        bytes == Fresh(tag, n)
        conn  == {f \in Fds : off[f] # NoFd}
    IN /\ conn # {}
       /\ sock' = ringbuffer_write_ignore_bounds(sock, bytes)
       /\ over' = [c \in Channels |->
                      over[c] \/ (c \in conn /\ Len(pend[c]) + n >= RingLen)]
       /\ pend' = [c \in Channels |-> IF c \in conn
                                     THEN (IF over'[c] THEN <<>> ELSE pend[c] \o bytes)
                                     ELSE pend[c]]
       /\ next' = [next EXCEPT ![tag] = (@ + n) % Tags]
       /\ UNCHANGED <<ptyvars, kbd, off, raced, short>>

\* local_socket_read through vfs_read, which moves the offset.
local_socket_read(f, len) ==
    LET got == ringbuffer_read_from(sock, off[f], len) IN
    /\ off[f] # NoFd /\ ringbuffer_space_to_read_from(sock, off[f]) # 0
    /\ off' = [off EXCEPT ![f] = (@ + Len(got.bytes)) % SizeMod]
    /\ Consumed(f, Len(got.bytes))
    /\ UNCHANGED <<ptyvars, kbd, sock, next, over, raced, short>>

local_socket_close(f) ==
    /\ off[f] # NoFd /\ off' = [off EXCEPT ![f] = NoFd]
    /\ Restart({f})
    /\ UNCHANGED <<ptyvars, kbd, sock, next, raced, short>>

StreamsInit ==
    /\ tty = [buf |-> ringbuffer_create(RingLen), line_count |-> 0, icanon |-> TRUE]
    /\ ptm = [buf |-> ringbuffer_create(RingLen), open |-> FALSE]
    /\ made = FALSE /\ ready = {}
    /\ kbd = ringbuffer_create(RingLen) /\ sock = ringbuffer_create(RingLen)
    /\ off = [f \in Fds |-> NoFd]
    /\ pend = [c \in Channels |-> <<>>] /\ next = [c \in Channels |-> 0]
    /\ over = [c \in Channels |-> FALSE] /\ raced = FALSE /\ short = FALSE

\* Bound: the terminal's count of lines, which can go below 0, stays within
\* MaxLines.
Reopen == pty_master_alloc \/ pty_master_close
TtyNext ==
    \/ \E n \in Writes : tty.line_count < MaxLines /\ tty_write(n)
    \/ \E r \in Readers : StartRead(r)
    \/ \E r \in Readers, len \in Reads : tty.line_count > -MaxLines /\ tty_read(r, len)
    \/ \E icanon, flush \in BOOLEAN : tty_ioctl(icanon, flush)
    \/ Reopen
PtmNext ==
    \/ \E n \in Writes : pty_slave_write(n)
    \/ \E len \in Reads : pty_master_read(len)
    \/ Reopen
KbdNext == EmitPacket \/ \E len \in Reads : ReadPackets(len)
SockNext ==
    \/ \E n \in Writes : local_socket_write(n)
    \/ \E f \in Fds : \/ local_socket_connect(f) \/ local_socket_close(f)
                      \/ \E len \in Reads : local_socket_read(f, len)

StreamsNext == TtyNext \/ PtmNext \/ KbdNext \/ SockNext
StreamsSpec == StreamsInit /\ [][StreamsNext]_svars

-----------------------------------------------------------------------------
Readable(buf, at) == ringbuffer_read_from(buf, at, RingLen).bytes

\* Until a write is as long as the space left, what can be read is exactly
\* what was written and not yet read, in order, across every wrap: of the
\* terminal in both directions, also when a closed pair is opened again, and
\* of the keyboard.
StreamIsFifo ==
    /\ ~over["tty"] => Readable(tty.buf, tty.buf.start) = pend["tty"]
    /\ ~over["ptm"] => Readable(ptm.buf, ptm.buf.start) = pend["ptm"]
    /\ ~over["kbd"] => Readable(kbd, kbd.start) = pend["kbd"]

\* A reader that never falls RingLen bytes behind gets everything written after
\* it connected, once and in order, whatever the other readers do.
ReaderSeesAll ==
    \A f \in Fds : off[f] # NoFd /\ ~over[f] => Readable(sock, off[f]) = pend[f]

\* With whole-line reads by one reader at a time, input that is there can be
\* read: the count of lines never runs out before the bytes do.
InputNotStuck ==
    made /\ ~over["tty"] /\ ~raced /\ ~short /\ pend["tty"] # <<>> => tty_can_read

\* Every byte that is written to a terminal, the keyboard's queue or a socket
\* is read once and in order by each reader that keeps up.
StreamsInOrder == StreamIsFifo /\ ReaderSeesAll

-----------------------------------------------------------------------------
\* The invariant behind these properties.  A stream that did not overflow holds
\* the bytes that are due, byte by byte, whatever the rest of the ring holds.
Tag == 0 .. Tags - 1
Ring == [len : {RingLen}, start : 0 .. RingLen - 1, end : 0 .. RingLen - 1,
         data : [0 .. RingLen - 1 -> Tag]]
StreamsType ==
    /\ tty \in [buf : Ring, line_count : Int, icanon : BOOLEAN]
    /\ ptm \in [buf : Ring, open : BOOLEAN]
    /\ made \in BOOLEAN /\ ready \subseteq Readers
    /\ kbd \in Ring /\ sock \in Ring
    /\ off \in [Fds -> {NoFd} \cup 0 .. SizeMod - 1]
    /\ pend \in [Channels -> Seq(Tag)] /\ next \in [Channels -> Tag]
    /\ over \in [Channels -> BOOLEAN] /\ raced \in BOOLEAN /\ short \in BOOLEAN

Holds(b, at, p) ==
    /\ Len(p) = ringbuffer_space_to_read_from(b, at)
    /\ \A i \in 1 .. Len(p) : p[i] = b.data[((at % b.len) + i - 1) % b.len]
TtyHeld == ~over["tty"] => Holds(tty.buf, tty.buf.start, pend["tty"])
PtmHeld == ~over["ptm"] => Holds(ptm.buf, ptm.buf.start, pend["ptm"])
KbdHeld == ~over["kbd"] => Holds(kbd, kbd.start, pend["kbd"])
SockHeld == \A f \in Fds :
    IF off[f] = NoFd THEN pend[f] = <<>> ELSE ~over[f] => Holds(sock, off[f], pend[f])

\* Bytes that are due come with a line.
LinesInv == ~over["tty"] /\ ~raced /\ ~short =>
    tty.line_count >= 0 /\ (pend["tty"] # <<>> => tty.line_count >= 1)

StreamsInv == StreamsType /\ TtyHeld /\ PtmHeld /\ KbdHeld /\ SockHeld /\ LinesInv
=============================================================================
