------------------------------- MODULE Virtio -------------------------------
(* The virtio drivers (drivers/virtio, storage/virtio_block.c,               *)
(* io/virtio_input.c, graphics/virtio_gpu.c): rings of descriptors shared    *)
(* with the device, and the memory of the requests.  The kernel runs with    *)
(* interrupts off, so an interrupt handler runs between system calls; the    *)
(* device (external) takes requests in order, whenever it likes.             *)
EXTENDS Bitmap, Sequences, FiniteSetsExt, SequencesExt

CONSTANTS
    BusSlots,              \* what answers at each stride of the bus: "block", "gpu", "input", "other", "none"
    RingSize,           \* VIRTIO_RING_SIZE, for each kind of device
    QnMax,              \* queue_num_max of the devices
    IdxMod, AckMod,     \* values of used->idx, avail->idx (16 bits) and of ack_used_idx (32)
    PoolBlocks,         \* blocks of VIRTIO_ALLOC_BLOCK_SIZE in the pool
    PoolTaken,          \* of them, those of its bitmap
    Sectors, Datas,     \* the disk
    VEvents,            \* for each input device its events: [type, code, value]
    EventElements,      \* EVENT_BUFFER_ELEMENTS
    Overrun,            \* whether more requests are made before a handler runs than the ring holds
    MaxReqs, MaxEvs     \* bounds: requests and events

ASSUME VirtioAssumption ==
    /\ \A k \in {"block", "gpu", "input"} : RingSize[k] \in Nat \ {0} /\ IdxMod % RingSize[k] = 0
    /\ AckMod % IdxMod = 0 /\ EventElements \in Nat \ {0}

VARIABLE vq

\* _virtio_scan: a device on slot id, if anything answers there and it is known, and its
\* interrupt line.
_virtio_scan(kind) ==
    [k \in {id \in DOMAIN BusSlots : BusSlots[id] = kind} |-> 1 + (k - 1)]

-----------------------------------------------------------------------------
\* A queue: descriptors, the ring of heads for the device (avail, aidx, of which it has taken
\* last) and the ring of finished heads (used, uidx, of which the handler has seen ack).
Ring(n) == 0 .. n - 1
NoDesc == [addr |-> <<"none", 0>>, more |-> FALSE, next |-> 0]
virtio_alloc_queue(n) ==
    [size |-> n, descs |-> [i \in Ring(n) |-> NoDesc], idx |-> 0,
     avail |-> [i \in Ring(n) |-> 0], aidx |-> 0, last |-> 0,
     used |-> [i \in Ring(n) |-> 0], uidx |-> 0, ack |-> 0]

ADD_TO_QUEUE(q, wt) ==
    [q EXCEPT !.descs[q.idx] = wt, !.idx = (@ + 1) % q.size]
SET_AS_AVAIL(q, hd) ==
    [q EXCEPT !.avail[q.aidx % q.size] = hd, !.aidx = (@ + 1) % IdxMod]

\* A request of Len(addrs) descriptors, each but the last with the index of the next.
AddChain(q, addrs) ==
    LET desc(i) == [addr |-> addrs[i], more |-> i < Len(addrs),
                    next |-> IF i < Len(addrs) THEN (q.idx + i) % q.size ELSE 0]
    IN SET_AS_AVAIL(FoldLeftDomain(LAMBDA p, i : ADD_TO_QUEUE(p, desc(i)), q, addrs), q.idx)

\* External: the device takes the next head, and when it is done with it puts it back.
Waiting(q) == q.last # q.aidx
TakenHead(q) == q.avail[q.last % q.size]
Chain(q, id) ==
    LET a == q.descs[id]
        b == q.descs[a.next]
        c == q.descs[b.next]
    IN IF ~a.more THEN <<a.addr>> ELSE IF ~b.more THEN <<a.addr, b.addr>>
       ELSE <<a.addr, b.addr, c.addr>>
Finish(q, id) ==
    [q EXCEPT !.last = (@ + 1) % IdxMod,
              !.used[q.uidx % q.size] = id, !.uidx = (@ + 1) % IdxMod]

-----------------------------------------------------------------------------
\* Memory of requests: in front of each the header with its length.
BlocksNeeded(size) == (size + 8 + 31) \div 32
virtio_alloc_init == bitmap_set_range(bitmap_wrap(PoolBlocks), 0, PoolTaken)

\* req: the content, at the start of the allocation; without room the kernel stops.
virtio_alloc(v, size, req) ==
    LET n == BlocksNeeded(size)
        At(start) == IF start < 0 THEN [v EXCEPT !.halted = TRUE]
                     ELSE [v EXCEPT !.bm = bitmap_set_range(@, start, n), !.at = start,
                                    !.len[start] = n, !.mem[start] = req]
    IN At(bitmap_find_space(v.bm, n))

\* Only the address of the request itself has the header in front of it.
virtio_free_paddr(v, addr) ==
    IF addr[1] = "req" THEN [v EXCEPT !.bm = bitmap_unset_range(@, addr[2], v.len[addr[2]])]
    ELSE [v EXCEPT !.ub = TRUE]

\* Mutant: the last descriptor of the chain is the one whose memory is freed.
AckHeadNext(v) ==
    LET id == v.q.used[v.q.ack % v.q.size]
    IN [virtio_free_paddr(v, v.q.descs[v.q.descs[id].next].addr) EXCEPT
          !.q.ack = (@ + 1) % AckMod, !.pend = Tail(@)]

\* The body of the loop of both interrupt handlers.
AckHead(v) ==
    LET id == v.q.used[v.q.ack % v.q.size]
    IN [virtio_free_paddr(v, v.q.descs[id].addr) EXCEPT
          !.q.ack = (@ + 1) % AckMod, !.pend = Tail(@)]

\* while (ack_used_idx != used->idx): once they differ in their high bits it does not end.
Iterate(q) == 1 .. q.uidx - q.ack
RequestHandler(v) ==
    IF v.q.ack > v.q.uidx THEN [v EXCEPT !.ub = TRUE]
    ELSE FoldLeftDomain(LAMBDA w, i : AckHead(w), v, [i \in Iterate(v.q) |-> i])

\* No driver waits for free descriptors.
MayPush(v, requests, descs) ==
    /\ ~v.halted /\ ~v.ub /\ v.n + requests <= MaxReqs
    /\ Overrun \/ FoldLeft(LAMBDA x, r : x + r.descs, 0, v.pend) + descs <= v.q.size

Requests(kind) ==
            [kind |-> kind, q |-> virtio_alloc_queue(RingSize[kind]), bm |-> virtio_alloc_init, at |-> 0, n |-> 0,
             len |-> [b \in 0 .. PoolBlocks - 1 |-> 0],
             mem |-> [b \in 0 .. PoolBlocks - 1 |-> <<>>],
             pend |-> <<>>,       \* ghost: the requests whose memory is not freed yet
             halted |-> FALSE, ub |-> FALSE]

\* Every init function gives up when the device has no ring of this size.
Usable(kind) == RingSize[kind] <= QnMax

-----------------------------------------------------------------------------
\* The block device: one buffer; a call makes a request and spins until its status changes.
BlockInit ==
    vq = Requests("block") @@ [buffer |-> 0, disk |-> [s \in Sectors |-> 0],
                      stored |-> [s \in Sectors |-> 0], got |-> 0, want |-> 0]

\* External: what the device does with the request whose head is id.
BlockServe(v) ==
    LET id    == TakenHead(v.q)
        chain == Chain(v.q, id)
        req   == v.mem[chain[1][2]]
        w     == [v EXCEPT !.q = Finish(@, id), !.mem[chain[3][2]].status = 0]
    IN IF req.write THEN [w EXCEPT !.disk[req.sector] = v.buffer]
       ELSE [w EXCEPT !.buffer = v.disk[req.sector]]

virtio_block_dev_rw(v, lba, write, data) ==
    LET filled == IF write THEN [v EXCEPT !.buffer = data] ELSE v
        Push(made) ==
            [made EXCEPT
               !.q = AddChain(@, <<<<"req", made.at>>, <<"buf", 0>>, <<"status", made.at>>>>),
               !.pend = Append(@, [at |-> made.at, descs |-> 3]), !.n = @ + 1]
        Spin(served) ==
            IF served.mem[served.at].status = 111 THEN [served EXCEPT !.halted = TRUE]
            ELSE IF write THEN [served EXCEPT !.stored[lba] = data]
            ELSE [served EXCEPT !.got = served.buffer, !.want = v.stored[lba]]
        After(made) == IF made.halted THEN made ELSE Spin(BlockServe(Push(made)))
    IN After(virtio_alloc(filled, 24, [sector |-> lba, write |-> write, status |-> 111]))

Block ==
    /\ vq.kind = "block" /\ MayPush(vq, 1, 3)
    /\ \E lba \in Sectors, write \in BOOLEAN : \E data \in IF write THEN Datas ELSE {0} :
         vq' = virtio_block_dev_rw(vq, lba, write, data)

_virtioblock_int_handler ==
    /\ vq.kind = "block" /\ ~vq.halted /\ ~vq.ub /\ vq.q.ack # vq.q.uidx
    /\ vq' = RequestHandler(vq)

-----------------------------------------------------------------------------
\* The display: two resources, one for each half of the frame buffer; flips only make requests.
GpuSize == [create2d |-> 40 + 24, attach |-> 32 + 16 + 24, scanout |-> 48 + 24,
            transfer |-> 56 + 24, flush |-> 48 + 24]
Cmd(op, res) == [op |-> op, res |-> res]

PUSH_REQUEST(v, c) ==
    LET Addrs(at) == IF c.op = "attach" THEN <<<<"req", at>>, <<"mem", at>>, <<"resp", at>>>>
                     ELSE <<<<"req", at>>, <<"resp", at>>>>
        Push(made) ==
            IF v.halted \/ made.halted THEN made
            ELSE [made EXCEPT !.q = AddChain(@, Addrs(made.at)), !.n = @ + 1,
                              !.pend = Append(@, [at |-> made.at, descs |-> Len(Addrs(made.at))]),
                              !.todo = Append(@, c)]
    IN Push(virtio_alloc(v, GpuSize[c.op], c))
PushAll(v, cs) == FoldLeft(PUSH_REQUEST, v, cs)

_virtiogpu_dev_init ==
    <<Cmd("create2d", 1), Cmd("attach", 1), Cmd("create2d", 2), Cmd("attach", 2),
      Cmd("scanout", 1), Cmd("transfer", 1), Cmd("flush", 1)>>
GpuInit ==
    vq = PushAll(Requests("gpu") @@ [current_fb |-> 1, todo |-> <<>>, astray |-> FALSE,
                              made |-> {}, backed |-> {}, scanout |-> 0, flushed |-> 0],
                 _virtiogpu_dev_init)

_virtiogpu_flip_screen(v) ==
    LET fb == 1 + v.current_fb
    IN [PushAll(v, <<Cmd("scanout", fb), Cmd("transfer", fb), Cmd("flush", fb)>>)
          EXCEPT !.current_fb = 1 - @]
Flip ==
    /\ vq.kind = "gpu" /\ MayPush(vq, 3, 6)
    /\ vq' = _virtiogpu_flip_screen(vq)

\* External: the display executes what it finds at the address of the first descriptor.
GpuServe ==
    LET id == TakenHead(vq.q)
        c  == vq.mem[Chain(vq.q, id)[1][2]]
        v  == [vq EXCEPT !.q = Finish(@, id), !.todo = Tail(@),
                         !.astray = @ \/ c # Head(vq.todo)]
    IN /\ vq.kind = "gpu" /\ Waiting(vq.q) /\ ~vq.halted /\ ~vq.ub
       /\ vq' = CASE c.op = "create2d" -> [v EXCEPT !.made = @ \cup {c.res}]
                  [] c.op = "attach"   -> [v EXCEPT !.backed = @ \cup ({c.res} \cap v.made)]
                  [] c.op = "scanout"  -> [v EXCEPT !.scanout = c.res]
                  [] c.op = "transfer" -> [v EXCEPT !.astray = @ \/ c.res \notin v.backed]
                  [] c.op = "flush"    -> [v EXCEPT !.flushed = c.res]

virtiogpu_int_handler ==
    /\ vq.kind = "gpu" /\ ~vq.halted /\ ~vq.ub /\ vq.q.ack # vq.q.uidx
    /\ vq' = RequestHandler(vq)

-----------------------------------------------------------------------------
\* Input devices, one queue each, all its descriptors with the device from the start.
Inputs == DOMAIN _virtio_scan("input")
Lane(d) == _virtio_scan("input")[d]

_virtioinp_reset_event(q, id) == AddChain(q, <<<<"event", id>>>>)
InputInit ==
    vq = [kind |-> "input", n |-> 0, ub |-> FALSE, changed |-> FALSE,
          mouse |-> [x |-> 0, y |-> 0, btn |-> FALSE],
          qs |-> [d \in Inputs |->
                    FoldLeft(_virtioinp_reset_event, virtio_alloc_queue(RingSize["input"]),
                             [i \in 1 .. EventElements |-> i - 1])],
          buf |-> [d \in Inputs |-> [i \in 0 .. EventElements - 1 |-> <<>>]],
          out |-> <<>>,                        \* what the last handler gave to keyboard and mouse
          sent |-> [d \in Inputs |-> <<>>],    \* ghost: events that no handler has seen
          down |-> FALSE,                      \* ghost: the button, after the events handled
          due |-> <<>>]                        \* ghost: what the last handler had to give

\* External: an event is written to the next buffer, and dropped if there is none.
Event(d, e) ==
    LET q  == vq.qs[d]
        id == TakenHead(q)
    IN /\ vq.kind = "input" /\ ~vq.ub /\ vq.n < MaxEvs /\ Waiting(q)
       /\ vq' = [vq EXCEPT !.n = @ + 1, !.qs[d] = Finish(@, id),
                           !.buf[d][Chain(q, id)[1][2]] = e, !.sent[d] = Append(@, e)]

\* Releases are what the keyboard gets; code 0x110 is the left button.
_virtioinp_parse_data(v, e) ==
    CASE e.type = "key" /\ e.code = "left" -> [v EXCEPT !.mouse.btn = e.value # 0, !.changed = TRUE]
      [] e.type = "rel" /\ e.code = "x" -> [v EXCEPT !.mouse.x = @ + e.value, !.changed = TRUE]
      [] e.type = "rel" /\ e.code = "y" -> [v EXCEPT !.mouse.y = @ - e.value, !.changed = TRUE]
      [] e.type = "key" /\ e.code # "left" /\ e.value = 0 -> [v EXCEPT !.out = Append(@, e.code)]
      [] OTHER -> v

_virtioinp_send_mouse_packet(v) ==
    IF ~v.changed THEN v
    ELSE [v EXCEPT !.out = Append(@, v.mouse), !.mouse.x = 0, !.mouse.y = 0, !.changed = FALSE]

\* What the events es come to: keys in order, then one packet with the sums and the button.
Moved(es, code) ==
    FoldLeft(LAMBDA x, e : IF e.type = "rel" /\ e.code = code THEN x + e.value ELSE x, 0, es)
IsKey(e) == e.type = "key" /\ e.code # "left" /\ e.value = 0
IsButton(e) == e.type = "key" /\ e.code = "left"
Button(es, before) ==
    LET bs == SelectSeq(es, IsButton) IN IF bs = <<>> THEN before ELSE Last(bs).value # 0
Owed(es, before) ==
    LET keys == SelectSeq(es, IsKey)
        mice == {i \in DOMAIN es : es[i].type = "rel" \/ IsButton(es[i])}
    IN [i \in DOMAIN keys |-> keys[i].code] \o
       IF mice = {} THEN <<>>
       ELSE <<[x |-> Moved(es, "x"), y |-> -Moved(es, "y"), btn |-> Button(es, before)]>>

\* devid: the first device of the line, else the first of all.
_virtioinp_int_handler(line) ==
    LET ds   == {d \in Inputs : Lane(d) = line}
        d    == IF ds = {} THEN Min(Inputs) ELSE Min(ds)
        step(v, i) ==
            LET q  == v.qs[d]
                id == q.used[q.ack % q.size]
                e  == v.buf[d][q.descs[id].addr[2]]
            IN [_virtioinp_parse_data(v, e) EXCEPT
                  !.qs[d] = [_virtioinp_reset_event(q, id) EXCEPT !.ack = (@ + 1) % AckMod]]
        q0 == vq.qs[d]
        looped == FoldLeftDomain(step, [vq EXCEPT !.out = <<>>], [i \in Iterate(q0) |-> i])
    IN /\ vq.kind = "input" /\ ~vq.ub
       /\ \E x \in Inputs : Lane(x) = line /\ vq.qs[x].ack # vq.qs[x].uidx
       /\ vq' = IF q0.ack > q0.uidx THEN [vq EXCEPT !.ub = TRUE]
                ELSE [_virtioinp_send_mouse_packet(looped) EXCEPT
                        !.due = Owed(vq.sent[d], vq.down), !.down = Button(vq.sent[d], @),
                        !.sent[d] = <<>>]

-----------------------------------------------------------------------------
VqInit ==
    \/ DOMAIN _virtio_scan("block") # {} /\ Usable("block") /\ BlockInit
    \/ DOMAIN _virtio_scan("gpu") # {} /\ Usable("gpu") /\ GpuInit
    \/ Inputs # {} /\ Usable("input") /\ InputInit
VqNext ==
    \/ Block \/ _virtioblock_int_handler
    \/ Flip \/ GpuServe \/ virtiogpu_int_handler
    \/ vq.kind = "input" /\ \E d \in Inputs : _virtioinp_int_handler(Lane(d))
                                             \/ \E e \in VEvents[d] : Event(d, e)

-----------------------------------------------------------------------------
\* The memory of a request is freed once, by the handler, after the device is done with it,
\* and is not used for another request before: at every moment the pool's bitmap is what
\* the requests under way hold.
RequestMemoryExact ==
    vq.kind \in {"block", "gpu"} =>
      /\ ~vq.ub /\ ~vq.halted
      /\ vq.bm.set = 0 .. PoolTaken - 1 \cup
           UNION {vq.pend[i].at .. vq.pend[i].at + vq.len[vq.pend[i].at] - 1 : i \in DOMAIN vq.pend}

\* A block that is read is what was last written to its sector, through one buffer for all
\* requests and a ring that is reused.
SectorsExact ==
    vq.kind = "block" => vq.got = vq.want /\ \A s \in Sectors : vq.disk[s] = vq.stored[s]

\* The display gets the commands in the order of the calls, each as it was made, and once it
\* has done all of them shows the half of the buffer that programs do not draw in.
DisplayFollows ==
    vq.kind = "gpu" =>
      /\ ~vq.astray
      /\ vq.todo = <<>> => vq.scanout = 2 - vq.current_fb /\ vq.flushed = vq.scanout

\* No event is lost, repeated or mixed up while buffers go round: a handler gives the
\* keyboard the keys since the last one in their order, and the mouse the sum of the moves.
InputExact == vq.kind = "input" => ~vq.ub /\ vq.out = vq.due
=============================================================================
