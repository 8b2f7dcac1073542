-------------------------------- MODULE Ipc --------------------------------
(* Requests, replies and events between the window server and its clients    *)
(* over the two local sockets: libipc's connections, the event loops of both *)
(* sides, and what libui and the server send.  Every client reads every      *)
(* message of the server and keeps those with its key: the pid in the        *)
(* greeting, the connection id afterwards.  A message is [magic, id, key, n], *)
(* n the number of the request it answers or of the client's event.  A       *)
(* message is one unit of data and a read takes at most Chunk of them.  A    *)
(* socket holds all that was written: the model is of runs in which no       *)
(* reader falls behind by the 16 KB that a socket's ring holds.              *)
EXTENDS WsProtocol, FiniteSets

CONSTANTS Clients, Dock,  \* clients are their pids
          Chunk, MaxEvents, MaxRequests
ASSUME IpcAssumption ==
    /\ Clients \subseteq Nat \ {0} /\ IsFiniteSet(Clients) /\ Dock \in Clients
    /\ Chunk \in Nat \ {0} /\ MaxEvents \in Nat /\ MaxRequests \in Nat

VARIABLES cl,   \* cl[c]: a client process
          srv,  \* the server process
          c2s   \* what the server has not read
ipcvars == <<cl, srv, c2s>>

\* st: off, init (before the event loop), wait (in wait_for_answer), run, done
\* reading: the event loop is inside read();  unread: what its socket holds
\* batch: events_to_dispatch;  queue: m_event_queue;  inbox: m_messages
\* done: how many of its events its window has handled
NewClient == [st |-> "off", ret |-> "init", key |-> 0, req |-> GreetMessage, left |-> MaxRequests,
              reading |-> FALSE, buf |-> <<>>, unread |-> <<>>, inbox |-> <<>>,
              batch |-> <<>>, queue |-> <<>>, done |-> 0, wrong |-> FALSE]

Item(magic, id, key, n) == [magic |-> magic, id |-> id, key |-> key, n |-> n]
CallEvent         == Item(0, 1, 0, 0)
FDWaiterReadEvent == Item(0, 2, 0, 0)
Running == {"init", "wait", "run"}

\* While loop of pump_messages: a read that fills the buffer is followed by
\* another one, which waits for data.
Take(seq) == SubSeq(seq, 1, IF Len(seq) < Chunk THEN Len(seq) ELSE Chunk)
Drop(seq) == SubSeq(seq, Len(Take(seq)) + 1, Len(seq))

\* The elements of a sequence at the indices I, in their order: SelectSeq without
\* recursion, for the proofs.
Nth(I, k) == CHOOSE i \in I : Cardinality({j \in I : j <= i}) = k
Only(seq, I) == [k \in 1 .. Cardinality(I) |-> seq[Nth(I, k)]]

\* Every connected client gets what the server writes.
Broadcast(items) ==
    [c \in Clients |-> IF cl[c].st \in Running THEN [cl[c] EXCEPT !.unread = @ \o items] ELSE cl[c]]

-----------------------------------------------------------------------------
\* send_sync: the request is written, then wait_for_answer.  ret is where the
\* caller goes on.
send_sync(c, self, m, key, ret) ==
    /\ cl' = [cl EXCEPT ![c] = [self EXCEPT !.st = "wait", !.req = m, !.ret = ret]]
    /\ c2s' = Append(c2s, Item(m.magic, m.id, key, c))
    /\ UNCHANGED srv

greeting(c) == cl[c].st = "off" /\ send_sync(c, cl[c], GreetMessage, c, "init")

new_window(c) ==
    /\ cl[c].st = "init" /\ cl[c].req = GreetMessage
    /\ send_sync(c, cl[c], CreateWindowMessage, cl[c].key, "init")

\* MenuBar::create_menu of an ordinary application, once it has its window.
create_menu(c, m) ==
    /\ cl[c].st = "init" /\ cl[c].req # GreetMessage /\ c # Dock /\ cl[c].left > 0
    /\ send_sync(c, [cl[c] EXCEPT !.left = @ - 1], m, cl[c].key, "init")

\* The event loop begins; what the application asked for before has no effect on it.
RunApp(c) ==
    /\ cl[c].st = "init" /\ cl[c].req # GreetMessage
    /\ cl' = [cl EXCEPT ![c] = [@ EXCEPT !.st = "run", !.left = 0, !.req = CreateWindowMessage]]
    /\ UNCHANGED <<srv, c2s>>

\* wait_for_answer: the first message with the key and the id of the reply,
\* whatever its magic.
AnswerAt(c) ==
    LET self == cl[c]
        key  == IF self.req = GreetMessage THEN c ELSE self.key
    IN SelectInSeq(self.inbox, LAMBDA m : m.key = key /\ m.id = self.req.reply_id)

\* Mutant: the other messages are dropped with the answer.
wait_for_answerClears(c) ==
    LET self == cl[c]
        ans  == self.inbox[AnswerAt(c)]
    IN /\ self.st = "wait" /\ self.buf = <<>> /\ AnswerAt(c) # 0
       /\ cl' = [cl EXCEPT ![c] =
                  [self EXCEPT !.inbox = <<>>, !.st = self.ret,
                               !.key = IF self.req = GreetMessage THEN ans.n ELSE @,
                               !.wrong = @ \/ ans.magic # Server]]
       /\ UNCHANGED <<srv, c2s>>

wait_for_answer(c) ==
    LET self == cl[c]
        ans  == self.inbox[AnswerAt(c)]
    IN /\ self.st = "wait" /\ self.buf = <<>> /\ AnswerAt(c) # 0
       /\ cl' = [cl EXCEPT ![c] =
                  [self EXCEPT !.inbox = RemoveAt(@, AnswerAt(c)), !.st = self.ret,
                               !.key = IF self.req = GreetMessage THEN ans.n ELSE @,
                               !.wrong = @ \/ ans.magic # Server]]
       /\ UNCHANGED <<srv, c2s>>

\* In pump_messages: asked by the event loop, or because no answer is there.
Reading(c) == \/ cl[c].reading
              \/ cl[c].st = "wait" /\ (cl[c].buf # <<>> \/ AnswerAt(c) = 0)

\* Mutant: messages to the pid of a client without a key are dropped.
AddressedByKey(c, buf) == SelectSeq(buf, LAMBDA m : m.key = cl[c].key)

\* What was read is decoded into m_messages and a CallEvent to itself is queued.
\* Both users of m_messages look for the client's own key or, in the greeting,
\* its pid, so only those messages are kept here.
Addressed(c, buf) == Only(buf, {i \in DOMAIN buf : buf[i].key \in {c, cl[c].key}})
Read(c) ==
    LET self == cl[c]
        buf  == self.buf \o Take(self.unread)
    IN /\ Reading(c) /\ self.unread # <<>>
       /\ cl' = [cl EXCEPT ![c] =
                  IF Len(self.unread) >= Chunk
                  THEN [self EXCEPT !.buf = buf, !.unread = Drop(@)]
                  ELSE [self EXCEPT !.buf = <<>>, !.unread = <<>>, !.reading = FALSE,
                                    !.inbox = @ \o Addressed(c, buf), !.queue = Append(@, CallEvent)]]
       /\ UNCHANGED <<srv, c2s>>

\* EventLoop::pump: look at the descriptors, then dispatch what is queued.
Pump(c) ==
    LET self == cl[c]
        fds  == IF self.unread # <<>> THEN <<FDWaiterReadEvent>> ELSE <<>>
    IN /\ self.st = "run" /\ ~self.reading /\ self.batch = <<>> /\ self.queue \o fds # <<>>
       /\ cl' = [cl EXCEPT ![c] = [self EXCEPT !.batch = self.queue \o fds, !.queue = <<>>]]
       /\ UNCHANGED <<srv, c2s>>

\* receive_event of the connection: own messages of the client decoder become
\* events of the window.
IsEvent(m, key) == m.magic = Client /\ m.key = key
Mine(self) == Only(self.inbox, {i \in DOMAIN self.inbox : IsEvent(self.inbox[i], self.key)})

\* The first event of the batch.  The dock may ask for a popup while it handles
\* one; a request to close the window is handled by App.
Dispatch(c) ==
    LET e    == Head(cl[c].batch)
        self == [cl[c] EXCEPT !.batch = Tail(@)]
        own  == [self EXCEPT !.done = @ + 1]
        go(s) == cl' = [cl EXCEPT ![c] = s] /\ UNCHANGED <<srv, c2s>>
    IN /\ cl[c].st = "run" /\ ~cl[c].reading /\ cl[c].batch # <<>>
       /\ \/ e = FDWaiterReadEvent /\ go([self EXCEPT !.reading = TRUE])
          \/ e = CallEvent /\ go([self EXCEPT !.queue = @ \o Mine(self), !.inbox = <<>>])
          \/ /\ e.magic = Client /\ e.id # WindowCloseRequestMessage.id
             /\ \/ go(own)
                \/ c = Dock /\ own.left > 0 /\ send_sync(c, [own EXCEPT !.left = @ - 1],
                                             PopupShowMenuMessage, own.key, "run")
          \/ /\ e.magic = Client /\ e.id = WindowCloseRequestMessage.id
             /\ send_sync(c, own, DestroyWindowMessage, own.key, "done")

-----------------------------------------------------------------------------
\* The server.  conns: the key of each client;  wins: who has a window;
\* queue: the SendEvents;  sent: how many events each client was sent.
OwnerOf(key) == CHOOSE c \in Clients : srv.conns[c] = key

SrvRead ==
    /\ c2s # <<>> /\ (srv.reading \/ srv.buf = <<>>)
    /\ srv' = [srv EXCEPT !.buf = @ \o Take(c2s), !.reading = Len(c2s) >= Chunk]
    /\ c2s' = Drop(c2s) /\ UNCHANGED cl

\* send_event: the message is queued, and written when the loop gets to it.
Queue(s, c, ids) ==
    [s EXCEPT !.queue = @ \o [i \in DOMAIN ids |-> Item(Client, ids[i], s.conns[c], s.sent[c] + i)],
              !.sent[c] = @ + Len(ids)]
NotifyDock(s, ids) == IF Dock \in s.wins THEN Queue(s, Dock, ids) ELSE s

\* One request of the buffer; the reply is written at once.
SrvHandle ==
    LET m == Head(srv.buf)
        s == [srv EXCEPT !.buf = Tail(@)]
        n == Cardinality({c \in Clients : srv.conns[c] # 0}) + 1
        c == OwnerOf(m.key)
    IN /\ ~srv.reading /\ srv.buf # <<>> /\ UNCHANGED c2s
       /\ \/ /\ m.id = GreetMessage.id
             /\ srv' = [s EXCEPT !.conns[m.key] = n]
             /\ cl' = Broadcast(<<Item(Server, GreetMessage.reply_id, m.key, n)>>)
          \/ /\ m.id = CreateWindowMessage.id
             /\ srv' = NotifyDock([s EXCEPT !.wins = @ \cup {c}],
                                  <<NotifyWindowCreateMessage.id, NotifyWindowIconChangedMessage.id>>)
             /\ cl' = Broadcast(<<Item(Server, CreateWindowMessage.reply_id, m.key, m.n)>>)
          \/ /\ m.id = DestroyWindowMessage.id
             /\ srv' = [NotifyDock(s, <<NotifyWindowStatusChangedMessage.id>>) EXCEPT !.wins = @ \ {c}]
             /\ cl' = Broadcast(<<Item(Server, DestroyWindowMessage.reply_id, m.key, m.n)>>)
          \/ \E r \in {MenuBarCreateMenuMessage, MenuBarCreateItemMessage, PopupShowMenuMessage} :
             /\ m.id = r.id /\ srv' = s
             /\ cl' = Broadcast(<<Item(Server, r.reply_id, m.key, m.n)>>)

SrvSend ==
    /\ ~srv.reading /\ srv.buf = <<>> /\ srv.queue # <<>>
    /\ cl' = Broadcast(<<Head(srv.queue)>>)
    /\ srv' = [srv EXCEPT !.queue = Tail(@)] /\ UNCHANGED c2s

\* A mouse or keyboard event for an application.
Inputs == {MouseActionMessage.id, MouseWheelMessage.id, WindowCloseRequestMessage.id}
SrvInput(c, id) ==
    /\ ~srv.reading /\ srv.buf = <<>> /\ c \in srv.wins \ {Dock} /\ srv.sent[c] < MaxEvents
    /\ srv' = Queue(srv, c, <<id>>) /\ UNCHANGED <<cl, c2s>>

\* The dock is up: applications are started from it.
IpcInit ==
    /\ cl = [c \in Clients |-> IF c # Dock THEN NewClient
                              ELSE [NewClient EXCEPT !.st = "run", !.key = 1, !.req = CreateWindowMessage]]
    /\ srv = [reading |-> FALSE, buf |-> <<>>, queue |-> <<>>, wins |-> {Dock},
              conns |-> [c \in Clients |-> IF c = Dock THEN 1 ELSE 0], sent |-> [c \in Clients |-> 0]]
    /\ c2s = <<>>

ClientStep(c) == greeting(c) \/ new_window(c) \/ RunApp(c) \/ wait_for_answer(c)
                 \/ Read(c) \/ Pump(c) \/ Dispatch(c)
                 \/ \E m \in {MenuBarCreateMenuMessage, MenuBarCreateItemMessage} : create_menu(c, m)
ServerStep == SrvRead \/ SrvHandle \/ SrvSend
IpcNext ==
    \/ \E c \in Clients : ClientStep(c) \/ \E id \in Inputs : SrvInput(c, id)
    \/ ServerStep

\* Both event loops run for ever and never stop in the middle of a handler.
IpcFairness == (\A c \in Clients : WF_ipcvars(ClientStep(c))) /\ WF_ipcvars(ServerStep)

IpcSpec == IpcInit /\ [][IpcNext]_ipcvars

-----------------------------------------------------------------------------
\* The greeting is answered to the pid and all else to the connection id, in one
\* field of the message.  Ids and pids come from two counters: nothing keeps an id
\* from being the pid of a client that greets later.
PidsApart == \A c, d \in Clients : srv.conns[c] # d

\* send_sync returns the reply to the request although it compares no magic
\* and the ids of replies and of events overlap: MouseAction has the id of the
\* reply to the greeting, MouseWheel that of the reply to new_window.  It holds
\* while PidsApart does.
AnswerIsReply == \A c \in Clients : ~cl[c].wrong

\* The events for a key among s are those numbered from a + 1 to b, each once and
\* in this order.
Holds(s, key, a, b) ==
    LET own == {i \in DOMAIN s : IsEvent(s[i], key)}
    IN /\ a <= b
       /\ \A i \in own : s[i].n \in a + 1 .. b
       /\ \A i, j \in own : i < j => s[i].n < s[j].n
       /\ \A v \in a + 1 .. b : \E i \in own : s[i].n = v

\* What is on its way to the window of client c, the first to be handled first.
Underway(c) ==
    cl[c].batch \o (cl[c].queue \o (cl[c].inbox \o (cl[c].buf \o (cl[c].unread \o srv.queue))))

\* A window handles its events in the order the server queued them, each once,
\* whatever requests it and the others wait for in between.
EventsInOrder ==
    \A c \in Clients :
        cl[c].st \in Running => Holds(Underway(c), srv.conns[c], cl[c].done, srv.sent[c])

\* A client that asks is answered, unless its read or the server's took exactly
\* a whole number of buffers and waits for more.
Answered ==
    \A c \in Clients :
        cl[c].st = "wait" ~> \/ cl[c].st # "wait" \/ srv.reading
                             \/ cl[c].buf # <<>>
=============================================================================
