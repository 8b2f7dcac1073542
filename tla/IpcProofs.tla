---------------------------- MODULE IpcProofs ----------------------------
(* For every set of clients, size of reads and number of events, and as long *)
(* as no connection id is the pid of a client: a request gets its own reply, *)
(* and a window handles its events in order.  The                            *)
(* invariant follows each request and each event from the process that       *)
(* sends it to the one that takes it; then come the lemmas on sequences,     *)
(* the steps of a client, the steps of the server and the theorems.          *)
EXTENDS Ipc, FiniteSetTheorems, SequenceTheorems, WellFoundedInduction, TLAPS

\* Messages and events, the requests, and the records of a client and of the server.
Items == [magic : Nat, id : Nat, key : Nat, n : Nat]
Requests == {GreetMessage, CreateWindowMessage, DestroyWindowMessage,
             MenuBarCreateMenuMessage, MenuBarCreateItemMessage, PopupShowMenuMessage}
ClientType ==
    [st : {"off", "init", "wait", "run", "done"}, ret : {"init", "run", "done"}, key : Nat,
     req : Requests, left : Nat, reading : BOOLEAN, buf : Seq(Items), unread : Seq(Items),
     inbox : Seq(Items), batch : Seq(Items), queue : Seq(Items), done : Nat, wrong : BOOLEAN]
ServerType ==
    [reading : BOOLEAN, buf : Seq(Items), queue : Seq(Items), wins : SUBSET Clients,
     conns : [Clients -> Nat], sent : [Clients -> Nat]]

\* Connection ids are the numbers of the connections: none twice, and none a pid.
Connected(conns) == {c \in Clients : conns[c] # 0}
Apart(conns) == \A c, d \in Clients : conns[c] # d
ConnsInv(s) ==
    /\ \A c, d \in Clients : s.conns[c] = s.conns[d] /\ s.conns[c] # 0 => c = d
    /\ \A c \in Clients : s.conns[c] <= Cardinality(Connected(s.conns))
    /\ \A c \in s.wins : s.conns[c] # 0
    /\ s.conns[Dock] # 0
    /\ Apart(s.conns)

\* The events the server sends to a client, and to which one.
EventIds(c) ==
    IF c = Dock
    THEN {NotifyWindowCreateMessage.id, NotifyWindowIconChangedMessage.id, NotifyWindowStatusChangedMessage.id}
    ELSE Inputs
EventTo(m, conns) == \E c \in Connected(conns) : m.key = conns[c] /\ m.id \in EventIds(c)

\* Only events are queued in the server, and only these and replies are on the way.
QueuedInv(s) == \A i \in DOMAIN s.queue : s.queue[i].magic = Client /\ EventTo(s.queue[i], s.conns)
Known(m, conns) ==
    \/ m.magic = Client /\ EventTo(m, conns)
    \/ m.magic = Server /\ (m.key \in Clients \/ \E c \in Connected(conns) : m.key = conns[c])

\* The key in a request, and the messages that the code may take for its reply.
AskKey(c, self) == IF self.req = GreetMessage THEN c ELSE self.key
IsReply(m, c, conns) == m.magic = Server /\ m.key \in {c, conns[c]}

\* The requests of a client that wait for the server, and what comes to the client.
Pending(c, reqs) == {i \in DOMAIN reqs : reqs[i].n = c}
Incoming(self) == self.inbox \o (self.buf \o self.unread)

\* What a client asked, and that it asks one thing at a time.
AskInv(c, self, s, reqs) ==
    /\ \A i \in Pending(c, reqs) :
         /\ self.st = "wait" /\ reqs[i].id = self.req.id /\ reqs[i].key = AskKey(c, self)
         /\ self.req = GreetMessage => s.conns[c] = 0
         /\ self.req = CreateWindowMessage => s.sent[c] = 0 /\ c \notin s.wins
    /\ \A i, j \in Pending(c, reqs) : i = j

\* Where a client is in its life.
StageInv(c, self, s) ==
    /\ self.key # 0 => self.key = s.conns[c]
    /\ self.key = 0 <=> (self.st = "off" \/ (self.st = "wait" /\ self.req = GreetMessage))
    /\ self.st = "off" => /\ s.conns[c] = 0 /\ self.done = 0 /\ self.req = GreetMessage
                          /\ self.batch = <<>> /\ self.queue = <<>> /\ Incoming(self) = <<>>
    /\ self.req = GreetMessage => s.sent[c] = 0 /\ c \notin s.wins
    /\ c = Dock => /\ self.st \in {"run", "wait", "done"} /\ self.req # GreetMessage
                   /\ self.st = "wait" => /\ self.req \in {PopupShowMenuMessage, DestroyWindowMessage}
                                          /\ self.ret # "init"

\* At most one reply is on the way, to the request the client waits with; the
\* reply to new_window comes before every event.
ReplyInv(c, self, s, reqs) ==
    LET in == Incoming(self)
    IN /\ \A i \in DOMAIN in : Known(in[i], s.conns)
       /\ \A i \in DOMAIN in : IsReply(in[i], c, s.conns) =>
            /\ self.st = "wait" /\ Pending(c, reqs) = {}
            /\ in[i].id = self.req.reply_id /\ in[i].key = AskKey(c, self)
            /\ self.req = GreetMessage => in[i].n = s.conns[c] /\ s.conns[c] # 0
       /\ \A i, j \in DOMAIN in : IsReply(in[i], c, s.conns) /\ IsReply(in[j], c, s.conns) => i = j
       /\ self.st = "wait" /\ self.req = CreateWindowMessage /\ Pending(c, reqs) = {} =>
            \E i \in DOMAIN in : /\ IsReply(in[i], c, s.conns)
                                 /\ \A j \in DOMAIN in : IsEvent(in[j], s.conns[c]) => i < j

\* Events in the client's loop are its own.
LoopInv(c, self, s) ==
    \A q \in {self.batch, self.queue} : \A i \in DOMAIN q :
        q[i].magic = 0 \/ (self.key # 0 /\ IsEvent(q[i], self.key))

\* Everything on its way to the window of the client.
Coming(self, s) == self.batch \o (self.queue \o (Incoming(self) \o s.queue))

\* What holds of a client in a state of the server and its requests.
ClientInv(c, self, s, reqs) ==
    /\ self \in ClientType
    /\ ~self.wrong
    /\ AskInv(c, self, s, reqs)
    /\ self.st # "done" =>
         /\ StageInv(c, self, s) /\ ReplyInv(c, self, s, reqs) /\ LoopInv(c, self, s)
         /\ Holds(Coming(self, s), s.conns[c], self.done, s.sent[c])

\* What holds of the server.
ServerInv(s, reqs) ==
    /\ s \in ServerType /\ reqs \in Seq(Items)
    /\ ConnsInv(s) /\ QueuedInv(s)
    /\ \A i \in DOMAIN reqs : reqs[i].n \in Clients

\* The inductive invariant.
IpcInv ==
    /\ c2s \in Seq(Items) /\ ServerInv(srv, srv.buf \o c2s)
    /\ cl \in [Clients -> ClientType]
    /\ \A c \in Clients : ClientInv(c, cl[c], srv, srv.buf \o c2s)

-----------------------------------------------------------------------------
\* Leaving out elements of a sequence that do not matter.

\* t is s without some elements, none of them in X.
Thin(t, s, X) ==
    \E f \in [DOMAIN t -> DOMAIN s] :
        /\ \A i, j \in DOMAIN t : i < j => f[i] < f[j]
        /\ \A i \in DOMAIN t : t[i] = s[f[i]]
        /\ \A j \in DOMAIN s : s[j] \in X => \E i \in DOMAIN t : f[i] = j

\* Nothing is left out.
LEMMA ThinSame ==
  ASSUME NEW S, NEW s \in Seq(S), NEW X
  PROVE  Thin(s, s, X)
<1> DEFINE f == [i \in DOMAIN s |-> i]
<1> f \in [DOMAIN s -> DOMAIN s]
  OBVIOUS
<1> QED BY DEF Thin

\* One element is left out.
LEMMA ThinNone ==
  ASSUME NEW m, NEW X, m \notin X
  PROVE  Thin(<<>>, <<m>>, X)
<1> DEFINE f == [i \in DOMAIN <<>> |-> 1]
<1>1. DOMAIN <<m>> = 1..1 /\ <<m>>[1] = m /\ \A j \in 1..1 : j = 1
  OBVIOUS
<1>2. DOMAIN <<>> = {}
  OBVIOUS
<1>3. f \in [DOMAIN <<>> -> DOMAIN <<m>>]
  BY <1>2
<1>4. \A j \in DOMAIN <<m>> : <<m>>[j] \notin X
  BY <1>1
<1> HIDE DEF f
<1> QED BY <1>2, <1>3, <1>4, Zenon DEF Thin

\* Parts are thinned one by one.
LEMMA ThinConcat ==
  ASSUME NEW S, NEW s1 \in Seq(S), NEW s2 \in Seq(S), NEW t1 \in Seq(S), NEW t2 \in Seq(S), NEW X,
         Thin(t1, s1, X), Thin(t2, s2, X)
  PROVE  Thin(t1 \o t2, s1 \o s2, X)
<1>1. PICK f \in [DOMAIN t1 -> DOMAIN s1] :
        /\ \A i, j \in DOMAIN t1 : i < j => f[i] < f[j]
        /\ \A i \in DOMAIN t1 : t1[i] = s1[f[i]]
        /\ \A j \in DOMAIN s1 : s1[j] \in X => \E i \in DOMAIN t1 : f[i] = j
  BY DEF Thin
<1>2. PICK g \in [DOMAIN t2 -> DOMAIN s2] :
        /\ \A i, j \in DOMAIN t2 : i < j => g[i] < g[j]
        /\ \A i \in DOMAIN t2 : t2[i] = s2[g[i]]
        /\ \A j \in DOMAIN s2 : s2[j] \in X => \E i \in DOMAIN t2 : g[i] = j
  BY DEF Thin
<1> DEFINE t == t1 \o t2
           s == s1 \o s2
           h == [i \in DOMAIN t |-> IF i <= Len(t1) THEN f[i] ELSE Len(s1) + g[i - Len(t1)]]
<1>3. /\ DOMAIN t = 1 .. Len(t1) + Len(t2) /\ DOMAIN s = 1 .. Len(s1) + Len(s2)
      /\ DOMAIN t1 = 1 .. Len(t1) /\ DOMAIN t2 = 1 .. Len(t2)
      /\ DOMAIN s1 = 1 .. Len(s1) /\ DOMAIN s2 = 1 .. Len(s2)
      /\ Len(t1) \in Nat /\ Len(t2) \in Nat /\ Len(s1) \in Nat /\ Len(s2) \in Nat
  OBVIOUS
<1>4. /\ \A i \in DOMAIN t : t[i] = IF i <= Len(t1) THEN t1[i] ELSE t2[i - Len(t1)]
      /\ \A i \in DOMAIN s : s[i] = IF i <= Len(s1) THEN s1[i] ELSE s2[i - Len(s1)]
  BY <1>3, ConcatProperties
<1> HIDE DEF t, s
<1>5. \A i \in DOMAIN t : /\ i \in 1..Len(t1) => h[i] = f[i] /\ f[i] \in 1..Len(s1)
                          /\ ~(i \in 1..Len(t1)) => /\ i - Len(t1) \in 1..Len(t2)
                                                    /\ h[i] = Len(s1) + g[i - Len(t1)]
                                                    /\ g[i - Len(t1)] \in 1..Len(s2)
  BY <1>3, SMTT(30)
<1>6. h \in [DOMAIN t -> DOMAIN s]
  BY <1>3, <1>5
<1>7. \A i, j \in DOMAIN t : i < j => h[i] < h[j]
  <2> SUFFICES ASSUME NEW i \in DOMAIN t, NEW j \in DOMAIN t, i < j PROVE h[i] < h[j]
    OBVIOUS
  <2> HIDE DEF h
  <2>1. CASE j \in 1..Len(t1)
    BY <2>1, <1>1, <1>3, <1>5
  <2>2. CASE i \in 1..Len(t1) /\ ~(j \in 1..Len(t1))
    BY <2>2, <1>3, <1>5
  <2>3. CASE ~(i \in 1..Len(t1)) /\ ~(j \in 1..Len(t1))
    <3>1. i - Len(t1) \in DOMAIN t2 /\ j - Len(t1) \in DOMAIN t2 /\ i - Len(t1) < j - Len(t1)
      BY <2>3, <1>3, <1>5
    <3>2. g[i - Len(t1)] < g[j - Len(t1)]
      BY <3>1, <1>2
    <3> QED BY <3>2, <2>3, <1>3, <1>5
  <2> QED BY <2>1, <2>2, <2>3, <1>3
<1>8. \A i \in DOMAIN t : t[i] = s[h[i]]
  <2> SUFFICES ASSUME NEW i \in DOMAIN t PROVE t[i] = s[h[i]]
    OBVIOUS
  <2> HIDE DEF h
  <2>1. h[i] \in DOMAIN s
    BY <1>6
  <2>2. CASE i \in 1..Len(t1)
    BY <2>1, <2>2, <1>1, <1>3, <1>4, <1>5
  <2>3. CASE ~(i \in 1..Len(t1))
    <3>1. t2[i - Len(t1)] = s2[g[i - Len(t1)]]
      BY <1>2, <1>3, <1>5, <2>3
    <3>2. h[i] = Len(s1) + g[i - Len(t1)] /\ g[i - Len(t1)] \in 1..Len(s2)
      BY <2>3, <1>5
    <3>3. ~(h[i] <= Len(s1)) /\ h[i] - Len(s1) = g[i - Len(t1)]
      BY <3>2, <1>3
    <3>4. s[h[i]] = s2[g[i - Len(t1)]]
      BY <2>1, <3>3, <1>4
    <3>5. t[i] = t2[i - Len(t1)]
      BY <2>3, <1>3, <1>4
    <3> QED BY <3>1, <3>4, <3>5
  <2> QED BY <2>2, <2>3
<1>9. \A j \in DOMAIN s : s[j] \in X => \E i \in DOMAIN t : h[i] = j
  <2> SUFFICES ASSUME NEW j \in DOMAIN s, s[j] \in X PROVE \E i \in DOMAIN t : h[i] = j
    OBVIOUS
  <2> HIDE DEF h
  <2>2. CASE j \in 1..Len(s1)
    BY <2>2, <1>1, <1>3, <1>4, <1>5
  <2>3. CASE ~(j \in 1..Len(s1))
    <3>1. j - Len(s1) \in DOMAIN s2 /\ s2[j - Len(s1)] \in X
      BY <2>3, <1>3, <1>4
    <3>2. PICK i \in DOMAIN t2 : g[i] = j - Len(s1)
      BY <3>1, <1>2
    <3>3. i + Len(t1) \in DOMAIN t /\ ~(i + Len(t1) \in 1..Len(t1)) /\ (i + Len(t1)) - Len(t1) = i
      BY <1>3
    <3>4. h[i + Len(t1)] = Len(s1) + g[(i + Len(t1)) - Len(t1)]
      BY <3>3, <1>5
    <3>5. h[i + Len(t1)] = j
      BY <3>2, <3>3, <3>4, <1>3
    <3> QED BY <3>3, <3>5
  <2> QED BY <2>2, <2>3
<1> HIDE DEF h
<1>10. Thin(t, s, X)
  BY <1>6, <1>7, <1>8, <1>9 DEF Thin
<1> QED BY <1>10 DEF t, s

\* The elements of a set of indices have their places.
LEMMA NthFacts ==
  ASSUME NEW n \in Nat, NEW I \in SUBSET (1..n)
  PROVE  /\ Cardinality(I) \in Nat
         /\ \A k \in 1..Cardinality(I) : Nth(I, k) \in I
         /\ \A k, l \in 1..Cardinality(I) : k < l => Nth(I, k) < Nth(I, l)
         /\ \A i \in I : \E k \in 1..Cardinality(I) : Nth(I, k) = i
<1> DEFINE Upto(i) == {j \in I : j <= i}
           g == [i \in I |-> Cardinality(Upto(i))]
           N == Cardinality(I)
<1>1. IsFiniteSet(I) /\ N \in Nat
  <2>1. IsFiniteSet(1..n)
    BY FS_Interval
  <2>2. IsFiniteSet(I)
    BY <2>1, FS_Subset
  <2> QED BY <2>2, FS_CardinalityType
<1>0. \A i \in I : i \in Int
  OBVIOUS
<1>2. \A i \in I : IsFiniteSet(Upto(i)) /\ Cardinality(Upto(i)) \in 1..N
  <2> TAKE i \in I
  <2>1. Upto(i) \in SUBSET I /\ i \in Upto(i)
    OBVIOUS
  <2>2. IsFiniteSet(Upto(i)) /\ Cardinality(Upto(i)) <= N /\ Cardinality(Upto(i)) \in Nat
    BY <1>1, <2>1, FS_Subset, FS_CardinalityType
  <2>3. Cardinality(Upto(i)) # 0
    BY <2>1, <2>2, FS_EmptySet
  <2> QED BY <1>1, <2>2, <2>3
<1>3. \A i, j \in I : i < j => Cardinality(Upto(i)) < Cardinality(Upto(j))
  <2> SUFFICES ASSUME NEW i \in I, NEW j \in I, i < j
               PROVE  Cardinality(Upto(i)) < Cardinality(Upto(j))
    OBVIOUS
  <2>1. Upto(i) \in SUBSET Upto(j) /\ j \in Upto(j) /\ j \notin Upto(i)
    <3>1. i \in Int /\ j \in Int
      BY <1>0
    <3>2. \A x \in I : x <= i => x <= j
      BY <1>0, <3>1
    <3>3. j <= j /\ ~(j <= i)
      BY <3>1
    <3> QED BY <3>2, <3>3
  <2> HIDE DEF Upto
  <2>2. Cardinality(Upto(i)) <= Cardinality(Upto(j)) /\ Cardinality(Upto(i)) # Cardinality(Upto(j))
    BY <2>1, <1>2, FS_Subset
  <2> QED BY <2>2, <1>1, <1>2
<1> HIDE DEF Upto
<1>11. \A i, j \in I : Cardinality(Upto(i)) = Cardinality(Upto(j)) => i = j
  <2> SUFFICES ASSUME NEW i \in I, NEW j \in I, i # j
               PROVE  Cardinality(Upto(i)) # Cardinality(Upto(j))
    OBVIOUS
  <2>1. i < j \/ j < i
    BY <1>0
  <2>2. Cardinality(Upto(i)) \in Int /\ Cardinality(Upto(j)) \in Int
    BY <1>1, <1>2
  <2> QED BY <1>3, <2>1, <2>2
<1>4. g \in Injection(I, 1..N)
  <2>1. g \in [I -> 1..N]
    BY <1>2
  <2>2. \A i, j \in I : g[i] = g[j] => i = j
    BY <1>11
  <2> HIDE DEF g
  <2> QED BY <2>1, <2>2 DEF Injection, IsInjective
<1>5. IsFiniteSet(1..N) /\ Cardinality(1..N) = N
  BY <1>1, FS_Interval
<1>6. g \in Surjection(I, 1..N)
  BY <1>4, <1>5, FS_Injection
<1>7. \A k \in 1..N : \E i \in I : Cardinality(Upto(i)) = k
  BY <1>6 DEF Surjection
<1>8. \A k \in 1..N : Nth(I, k) \in I /\ Cardinality(Upto(Nth(I, k))) = k
  BY <1>7 DEF Nth, Upto
<1>9. \A i \in I : Nth(I, Cardinality(Upto(i))) = i
  BY <1>2, <1>8, <1>11
<1>10. \A k, l \in 1..N : k < l => Nth(I, k) < Nth(I, l)
  <2> SUFFICES ASSUME NEW k \in 1..N, NEW l \in 1..N, k < l, ~(Nth(I, k) < Nth(I, l)) PROVE FALSE
    OBVIOUS
  <2>0. Nth(I, k) \in Int /\ Nth(I, l) \in Int
    BY <1>0, <1>8
  <2>1. Nth(I, l) < Nth(I, k) \/ Nth(I, k) = Nth(I, l)
    BY <2>0
  <2>2. /\ Nth(I, k) \in I /\ Cardinality(Upto(Nth(I, k))) = k
        /\ Nth(I, l) \in I /\ Cardinality(Upto(Nth(I, l))) = l
    BY <1>8
  <2>3. ~(l < k) /\ k # l
    BY <1>1
  <2>4. ~(Nth(I, l) < Nth(I, k))
    BY <1>3, <2>2, <2>3
  <2> QED BY <2>1, <2>2, <2>3, <2>4
<1> QED BY <1>1, <1>2, <1>8, <1>9, <1>10

\* A selection of a sequence.
LEMMA ThinOnly ==
  ASSUME NEW S, NEW s \in Seq(S), NEW I \in SUBSET DOMAIN s, NEW X,
         \A j \in DOMAIN s : s[j] \in X => j \in I
  PROVE  /\ Only(s, I) \in Seq(S)
         /\ Thin(Only(s, I), s, X)
         /\ \A i \in DOMAIN Only(s, I) : \E j \in I : Only(s, I)[i] = s[j]
<1> DEFINE N == Cardinality(I)
           t == Only(s, I)
           f == [k \in 1..N |-> Nth(I, k)]
<1>1. DOMAIN s = 1..Len(s) /\ Len(s) \in Nat
  OBVIOUS
<1>2. /\ N \in Nat
      /\ \A k \in 1..N : Nth(I, k) \in I
      /\ \A k, l \in 1..N : k < l => Nth(I, k) < Nth(I, l)
      /\ \A i \in I : \E k \in 1..N : Nth(I, k) = i
  BY <1>1, NthFacts
<1>3. t = [k \in 1..N |-> s[Nth(I, k)]]
  BY DEF Only
<1> HIDE DEF N, t
<1>4. \A k \in 1..N : t[k] = s[Nth(I, k)] /\ t[k] \in S
  BY <1>1, <1>2, <1>3
<1>5. t \in Seq(S) /\ DOMAIN t = 1..N
  BY <1>2, <1>3, <1>4, IsASeq
<1>6. f \in [DOMAIN t -> DOMAIN s]
  BY <1>2, <1>5
<1>7. /\ \A i, j \in DOMAIN t : i < j => f[i] < f[j]
      /\ \A i \in DOMAIN t : t[i] = s[f[i]]
      /\ \A j \in DOMAIN s : s[j] \in X => \E i \in DOMAIN t : f[i] = j
  <2>1. \A i \in DOMAIN t : f[i] = Nth(I, i) /\ i \in 1..N
    BY <1>5
  <2> HIDE DEF f
  <2>2. \A i, j \in DOMAIN t : i < j => f[i] < f[j]
    BY ONLY <1>2, <2>1
  <2>3. \A i \in DOMAIN t : t[i] = s[f[i]]
    BY ONLY <1>4, <2>1
  <2>4. \A j \in DOMAIN s : s[j] \in X => j \in I
    OBVIOUS
  <2>5. \A i \in I : \E j \in DOMAIN t : f[j] = i
    BY ONLY <1>2, <1>5, <2>1
  <2>6. \A j \in DOMAIN s : s[j] \in X => \E i \in DOMAIN t : f[i] = j
    BY ONLY <2>4, <2>5
  <2> QED BY <2>2, <2>3, <2>6
<1> HIDE DEF f
<1>8. Thin(t, s, X)
  BY ONLY <1>6, <1>7 DEF Thin
<1> QED BY <1>2, <1>4, <1>5, <1>8 DEF t

\* Elements outside X are left out.
LEMMA ThinAll ==
  ASSUME NEW S, NEW u \in Seq(S), NEW X, \A i \in DOMAIN u : u[i] \notin X
  PROVE  Thin(<<>>, u, X)
<1> DEFINE f == [i \in DOMAIN <<>> |-> 1]
<1>2. DOMAIN <<>> = {}
  OBVIOUS
<1>3. f \in [DOMAIN <<>> -> DOMAIN u]
  BY <1>2
<1> HIDE DEF f
<1> QED BY <1>2, <1>3, Zenon DEF Thin

\* The events for a key.
Events(k) == {m \in Items : IsEvent(m, k)}

\* Holds, without the local definition.
LEMMA HoldsDef ==
  ASSUME NEW s, NEW k, NEW a, NEW b
  PROVE  Holds(s, k, a, b) <=>
           /\ a <= b
           /\ \A i \in DOMAIN s : IsEvent(s[i], k) => s[i].n \in a + 1 .. b
           /\ \A i, j \in DOMAIN s : IsEvent(s[i], k) /\ IsEvent(s[j], k) /\ i < j => s[i].n < s[j].n
           /\ \A v \in a + 1 .. b : \E i \in DOMAIN s : IsEvent(s[i], k) /\ s[i].n = v
BY DEF Holds

\* What is no event of the client does not count.
LEMMA ThinHolds ==
  ASSUME NEW s \in Seq(Items), NEW t \in Seq(Items), NEW k, NEW a \in Int, NEW b \in Int,
         Thin(t, s, Events(k))
  PROVE  Holds(t, k, a, b) <=> Holds(s, k, a, b)
<1>1. PICK f \in [DOMAIN t -> DOMAIN s] :
        /\ \A i, j \in DOMAIN t : i < j => f[i] < f[j]
        /\ \A i \in DOMAIN t : t[i] = s[f[i]]
        /\ \A j \in DOMAIN s : s[j] \in Events(k) => \E i \in DOMAIN t : f[i] = j
  BY DEF Thin
<1>2. DOMAIN s = 1..Len(s) /\ DOMAIN t = 1..Len(t) /\ Len(s) \in Nat /\ Len(t) \in Nat
  OBVIOUS
<1>3. /\ \A i \in DOMAIN s : s[i] \in Items /\ s[i].n \in Nat
      /\ \A i \in DOMAIN t : t[i] \in Items /\ t[i].n \in Nat
  <2>1. (\A i \in DOMAIN s : s[i] \in Items) /\ (\A i \in DOMAIN t : t[i] \in Items)
    BY <1>2
  <2>2. \A m \in Items : m.n \in Nat
    BY DEF Items
  <2> QED BY <2>1, <2>2
<1>4. \A j \in DOMAIN s : IsEvent(s[j], k) => \E i \in DOMAIN t : f[i] = j /\ t[i] = s[j]
  BY <1>1, <1>3 DEF Events
<1>5. \A i \in DOMAIN t : f[i] \in DOMAIN s /\ t[i] = s[f[i]]
  BY <1>1
<1>6. \A i, j \in DOMAIN t : f[i] < f[j] => i < j
  <2> SUFFICES ASSUME NEW i \in DOMAIN t, NEW j \in DOMAIN t, f[i] < f[j], ~(i < j) PROVE FALSE
    OBVIOUS
  <2>1. i \in Int /\ j \in Int /\ f[i] \in Int /\ f[j] \in Int
    BY <1>2, <1>5
  <2>2. i = j \/ j < i
    BY <2>1
  <2> QED BY <1>1, <2>1, <2>2
<1>7. ASSUME Holds(s, k, a, b) PROVE Holds(t, k, a, b)
  <2>1. \A i \in DOMAIN t : IsEvent(t[i], k) => t[i].n \in a + 1 .. b
    BY <1>5, <1>7, HoldsDef
  <2>2. \A i, j \in DOMAIN t : IsEvent(t[i], k) /\ IsEvent(t[j], k) /\ i < j => t[i].n < t[j].n
    BY <1>1, <1>5, <1>7, HoldsDef
  <2>3. \A v \in a + 1 .. b : \E i \in DOMAIN t : IsEvent(t[i], k) /\ t[i].n = v
    <3> TAKE v \in a + 1 .. b
    <3>1. PICK j \in DOMAIN s : IsEvent(s[j], k) /\ s[j].n = v
      BY <1>7, HoldsDef
    <3> QED BY <3>1, <1>4
  <2> QED BY <2>1, <2>2, <2>3, <1>7, HoldsDef
<1>8. ASSUME Holds(t, k, a, b) PROVE Holds(s, k, a, b)
  <2>1. \A i \in DOMAIN s : IsEvent(s[i], k) => s[i].n \in a + 1 .. b
    <3> TAKE i \in DOMAIN s
    <3> HAVE IsEvent(s[i], k)
    <3>1. PICK x \in DOMAIN t : t[x] = s[i]
      BY <1>4
    <3> QED BY <3>1, <1>8, HoldsDef
  <2>2. \A i, j \in DOMAIN s : IsEvent(s[i], k) /\ IsEvent(s[j], k) /\ i < j => s[i].n < s[j].n
    <3> SUFFICES ASSUME NEW i \in DOMAIN s, NEW j \in DOMAIN s, IsEvent(s[i], k), IsEvent(s[j], k), i < j
                 PROVE  s[i].n < s[j].n
      OBVIOUS
    <3>1. PICK x \in DOMAIN t : f[x] = i /\ t[x] = s[i]
      BY <1>4
    <3>2. PICK y \in DOMAIN t : f[y] = j /\ t[y] = s[j]
      BY <1>4
    <3>3. x < y
      BY <3>1, <3>2, <1>6
    <3> QED BY <3>1, <3>2, <3>3, <1>8, HoldsDef
  <2>3. \A v \in a + 1 .. b : \E i \in DOMAIN s : IsEvent(s[i], k) /\ s[i].n = v
    <3> TAKE v \in a + 1 .. b
    <3>1. PICK j \in DOMAIN t : IsEvent(t[j], k) /\ t[j].n = v
      BY <1>8, HoldsDef
    <3> QED BY <3>1, <1>5
  <2> QED BY <2>1, <2>2, <2>3, <1>8, HoldsDef
<1> QED BY <1>7, <1>8

\* No event at all.
LEMMA HoldsNone ==
  ASSUME NEW s \in Seq(Items), NEW k, NEW a \in Int, \A i \in DOMAIN s : ~IsEvent(s[i], k)
  PROVE  Holds(s, k, a, a)
<1>1. a <= a /\ a + 1 .. a = {}
  OBVIOUS
<1> QED BY <1>1, HoldsDef

\* Nothing is due: no event.
LEMMA NoneDue ==
  ASSUME NEW s \in Seq(Items), NEW k, NEW a \in Int, Holds(s, k, a, a)
  PROVE  \A i \in DOMAIN s : ~IsEvent(s[i], k)
<1>1. a + 1 .. a = {}
  OBVIOUS
<1> QED BY <1>1, HoldsDef

\* The first event is handled.
LEMMA HoldsTail ==
  ASSUME NEW s \in Seq(Items), s # <<>>, NEW k, NEW a \in Int, NEW b \in Int,
         Holds(s, k, a, b), IsEvent(s[1], k)
  PROVE  Holds(Tail(s), k, a + 1, b)
<1>1. /\ DOMAIN s = 1..Len(s) /\ Len(s) \in Nat /\ Len(s) >= 1 /\ DOMAIN Tail(s) = 1..(Len(s) - 1)
      /\ \A i \in 1..(Len(s) - 1) : Tail(s)[i] = s[i + 1]
  OBVIOUS
<1>2. \A i \in DOMAIN s : s[i].n \in Nat
  <2>1. \A i \in DOMAIN s : s[i] \in Items
    BY <1>1
  <2>2. \A m \in Items : m.n \in Nat
    BY DEF Items
  <2> QED BY <2>1, <2>2
<1>3. \A i \in DOMAIN Tail(s) : i + 1 \in DOMAIN s /\ 1 < i + 1 /\ Tail(s)[i] = s[i + 1]
  BY <1>1
<1>4. \A i \in DOMAIN s : i = 1 \/ (i - 1 \in DOMAIN Tail(s) /\ Tail(s)[i - 1] = s[i])
  BY <1>1
<1>5. 1 \in DOMAIN s /\ s[1].n \in a + 1 .. b
  BY <1>1, HoldsDef
<1>6. \A i \in DOMAIN s : IsEvent(s[i], k) /\ i # 1 => s[1].n < s[i].n
  <2>1. \A i, j \in DOMAIN s : IsEvent(s[i], k) /\ IsEvent(s[j], k) /\ i < j => s[i].n < s[j].n
    BY HoldsDef
  <2>2. \A i \in DOMAIN s : i # 1 => 1 < i
    BY ONLY <1>1
  <2> QED BY ONLY <1>5, <2>1, <2>2, IsEvent(s[1], k)
<1>7. s[1].n = a + 1
  <2>1. a + 1 \in a + 1 .. b
    BY <1>5
  <2>2. PICK i \in DOMAIN s : IsEvent(s[i], k) /\ s[i].n = a + 1
    BY <2>1, HoldsDef
  <2>3. CASE i # 1
    BY <2>2, <2>3, <1>2, <1>5, <1>6
  <2> QED BY <2>2, <2>3
<1>8. \A i \in DOMAIN Tail(s) : IsEvent(Tail(s)[i], k) => Tail(s)[i].n \in (a + 1) + 1 .. b
  <2> TAKE i \in DOMAIN Tail(s)
  <2> HAVE IsEvent(Tail(s)[i], k)
  <2>1. i + 1 \in DOMAIN s /\ i + 1 # 1 /\ Tail(s)[i] = s[i + 1]
    BY <1>1, <1>3
  <2>2. s[i + 1].n \in a + 1 .. b /\ s[1].n < s[i + 1].n
    BY <2>1, <1>6, HoldsDef
  <2> QED BY <2>1, <2>2, <1>7
<1>9. \A i, j \in DOMAIN Tail(s) :
        IsEvent(Tail(s)[i], k) /\ IsEvent(Tail(s)[j], k) /\ i < j => Tail(s)[i].n < Tail(s)[j].n
  <2> SUFFICES ASSUME NEW i \in DOMAIN Tail(s), NEW j \in DOMAIN Tail(s), IsEvent(Tail(s)[i], k),
                      IsEvent(Tail(s)[j], k), i < j
               PROVE  Tail(s)[i].n < Tail(s)[j].n
    OBVIOUS
  <2>1. i + 1 < j + 1
    BY <1>1
  <2> QED BY <2>1, <1>3, HoldsDef
<1>10. \A v \in (a + 1) + 1 .. b : \E i \in DOMAIN Tail(s) : IsEvent(Tail(s)[i], k) /\ Tail(s)[i].n = v
  <2> TAKE v \in (a + 1) + 1 .. b
  <2>1. v \in a + 1 .. b /\ v # a + 1
    OBVIOUS
  <2>2. PICK i \in DOMAIN s : IsEvent(s[i], k) /\ s[i].n = v
    BY <2>1, HoldsDef
  <2> QED BY <2>1, <2>2, <1>4, <1>7
<1>11. a + 1 <= b
  BY <1>5
<1> QED BY <1>8, <1>9, <1>10, <1>11, HoldsDef

\* More events are queued.
LEMMA HoldsMore ==
  ASSUME NEW s \in Seq(Items), NEW u \in Seq(Items), NEW k, NEW a \in Int, NEW b \in Int,
         Holds(s, k, a, b), \A i \in DOMAIN u : IsEvent(u[i], k) /\ u[i].n = b + i
  PROVE  Holds(s \o u, k, a, b + Len(u))
<1> DEFINE t == s \o u
           c == b + Len(u)
<1>1. /\ DOMAIN s = 1..Len(s) /\ DOMAIN u = 1..Len(u) /\ Len(s) \in Nat /\ Len(u) \in Nat
      /\ DOMAIN t = 1..(Len(s) + Len(u))
  OBVIOUS
<1>2. \A i \in DOMAIN t : IF i <= Len(s) THEN i \in DOMAIN s /\ t[i] = s[i]
                          ELSE i - Len(s) \in DOMAIN u /\ t[i] = u[i - Len(s)]
  BY <1>1, ConcatProperties
<1>3. /\ \A i \in DOMAIN s : i \in DOMAIN t /\ t[i] = s[i]
      /\ \A i \in DOMAIN u : Len(s) + i \in DOMAIN t /\ t[Len(s) + i] = u[i]
  BY <1>1, ConcatProperties
<1> HIDE DEF t
<1>4. a <= b /\ a <= c /\ b <= c
  BY <1>1, HoldsDef
<1>5. \A i \in DOMAIN t : IsEvent(t[i], k) => t[i].n \in a + 1 .. c
  <2> TAKE i \in DOMAIN t
  <2> HAVE IsEvent(t[i], k)
  <2>1. CASE i <= Len(s)
    BY <2>1, <1>2, <1>4, HoldsDef
  <2>2. CASE ~(i <= Len(s))
    BY <2>2, <1>1, <1>2, <1>4
  <2> QED BY <2>1, <2>2
<1>6. \A i, j \in DOMAIN t : IsEvent(t[i], k) /\ IsEvent(t[j], k) /\ i < j => t[i].n < t[j].n
  <2> SUFFICES ASSUME NEW i \in DOMAIN t, NEW j \in DOMAIN t, IsEvent(t[i], k), IsEvent(t[j], k), i < j
               PROVE  t[i].n < t[j].n
    OBVIOUS
  <2>1. CASE j <= Len(s)
    <3>1. i <= Len(s)
      BY <2>1, <1>1
    <3> QED BY <3>1, <2>1, <1>2, HoldsDef
  <2>2. CASE i <= Len(s) /\ ~(j <= Len(s))
    <3>1. t[i].n \in a + 1 .. b
      BY <2>2, <1>2, HoldsDef
    <3>2. t[j].n = b + (j - Len(s)) /\ j - Len(s) >= 1
      BY <2>2, <1>1, <1>2
    <3> QED BY <3>1, <3>2, <1>1
  <2>3. CASE ~(i <= Len(s)) /\ ~(j <= Len(s))
    BY <2>3, <1>1, <1>2
  <2> QED BY <2>1, <2>2, <2>3, <1>1
<1>7. \A v \in a + 1 .. c : \E i \in DOMAIN t : IsEvent(t[i], k) /\ t[i].n = v
  <2> TAKE v \in a + 1 .. c
  <2>1. CASE v <= b
    <3>1. v \in a + 1 .. b
      BY <2>1
    <3>2. PICK i \in DOMAIN s : IsEvent(s[i], k) /\ s[i].n = v
      BY <3>1, HoldsDef
    <3> QED BY <3>2, <1>3
  <2>2. CASE ~(v <= b)
    <3>1. v - b \in DOMAIN u /\ b + (v - b) = v
      BY <2>2, <1>1
    <3> QED BY <3>1, <1>3
  <2> QED BY <2>1, <2>2
<1>8. Holds(t, k, a, c)
  BY <1>4, <1>5, <1>6, <1>7, HoldsDef
<1> QED BY <1>8 DEF t

-----------------------------------------------------------------------------
\* Requests and who asks.

\* The ids of the requests, of their replies and of the events.
LEMMA Ids ==
  /\ GreetMessage.id = 1 /\ GreetMessage.reply_id = 2
  /\ CreateWindowMessage.id = 3 /\ CreateWindowMessage.reply_id = 4
  /\ DestroyWindowMessage.id = 5 /\ DestroyWindowMessage.reply_id = 6
  /\ MenuBarCreateMenuMessage.id = 12 /\ MenuBarCreateMenuMessage.reply_id = 13
  /\ MenuBarCreateItemMessage.id = 14 /\ MenuBarCreateItemMessage.reply_id = 15
  /\ PopupShowMenuMessage.id = 16 /\ PopupShowMenuMessage.reply_id = 17
  /\ NotifyWindowCreateMessage.id = 12 /\ NotifyWindowStatusChangedMessage.id = 13
  /\ NotifyWindowIconChangedMessage.id = 15
  /\ MouseActionMessage.id = 2 /\ MouseWheelMessage.id = 4 /\ WindowCloseRequestMessage.id = 7
  /\ Server = 320 /\ Client = 737
BY DEF GreetMessage, CreateWindowMessage, DestroyWindowMessage, MenuBarCreateMenuMessage,
       MenuBarCreateItemMessage, PopupShowMenuMessage, NotifyWindowCreateMessage,
       NotifyWindowStatusChangedMessage, NotifyWindowIconChangedMessage, MouseActionMessage, MouseWheelMessage,
       WindowCloseRequestMessage, Msg, Server, Client

\* A request is known by its id.
LEMMA RequestById ==
  ASSUME NEW m \in Requests, NEW r \in Requests, m.id = r.id
  PROVE  m = r
BY Ids DEF Requests

\* Connection ids are apart from the pids.
LEMMA KeyNoPid ==
  ASSUME NEW s \in ServerType, ConnsInv(s)
  PROVE  \A c, d \in Clients : s.conns[c] \in Nat /\ d \in Nat /\ s.conns[c] # d
BY IpcAssumption DEF ServerType, ConnsInv, Apart

\* The requests of a client when one is added.
LEMMA PendingAppend ==
  ASSUME NEW reqs \in Seq(Items), NEW q \in Items
  PROVE  /\ Append(reqs, q) \in Seq(Items)
         /\ \A d : q.n # d => Pending(d, Append(reqs, q)) = Pending(d, reqs)
         /\ \A d : q.n = d => Pending(d, Append(reqs, q)) = Pending(d, reqs) \cup {Len(reqs) + 1}
         /\ \A i \in DOMAIN reqs : Append(reqs, q)[i] = reqs[i]
         /\ Append(reqs, q)[Len(reqs) + 1] = q
<1>1. /\ Append(reqs, q) \in Seq(Items) /\ Len(reqs) \in Nat
      /\ DOMAIN Append(reqs, q) = 1 .. (Len(reqs) + 1) /\ DOMAIN reqs = 1 .. Len(reqs)
      /\ \A i \in DOMAIN reqs : Append(reqs, q)[i] = reqs[i]
      /\ Append(reqs, q)[Len(reqs) + 1] = q
  OBVIOUS
<1>2. \A i : i \in DOMAIN Append(reqs, q) <=> i \in DOMAIN reqs \/ i = Len(reqs) + 1
  BY <1>1
<1> QED BY <1>1, <1>2 DEF Pending

\* A client does not care for what others ask.
LEMMA OtherAsks ==
  ASSUME NEW d, NEW self, NEW s, NEW reqs \in Seq(Items), NEW q \in Items, q.n # d,
         ClientInv(d, self, s, reqs)
  PROVE  ClientInv(d, self, s, Append(reqs, q))
<1>1. Pending(d, Append(reqs, q)) = Pending(d, reqs)
  BY PendingAppend
<1>2. \A i \in Pending(d, reqs) : Append(reqs, q)[i] = reqs[i]
  BY PendingAppend DEF Pending
<1>3. AskInv(d, self, s, Append(reqs, q))
  BY <1>1, <1>2 DEF AskInv, ClientInv
<1>4. self.st # "done" => ReplyInv(d, self, s, Append(reqs, q))
  BY <1>1 DEF ReplyInv, ClientInv
<1> QED BY <1>3, <1>4 DEF ClientInv

\* Only connections, windows, numbers of events and queued events matter.
LEMMA SameServer ==
  ASSUME NEW c, NEW self, NEW s, NEW t, NEW reqs,
         t.conns = s.conns, t.wins = s.wins, t.sent = s.sent, t.queue = s.queue,
         ClientInv(c, self, s, reqs)
  PROVE  ClientInv(c, self, t, reqs)
BY DEF ClientInv, AskInv, StageInv, ReplyInv, LoopInv, Coming

\* send_sync: the client asks and waits.
LEMMA AskStep ==
  ASSUME NEW c \in Clients, NEW self, NEW new \in ClientType, NEW s, NEW reqs \in Seq(Items), NEW q \in Items,
         ClientInv(c, self, s, reqs), self.st \in {"off", "init", "run"},
         new.st = "wait", new.key = self.key, new.done = self.done, new.wrong = self.wrong,
         new.batch = self.batch, new.queue = self.queue, new.inbox = self.inbox,
         new.buf = self.buf, new.unread = self.unread,
         q.n = c, q.id = new.req.id, q.key = AskKey(c, new),
         new.req = GreetMessage <=> self.st = "off",
         new.req = CreateWindowMessage => self.req = GreetMessage,
         c = Dock => new.req \in {PopupShowMenuMessage, DestroyWindowMessage} /\ new.ret # "init"
  PROVE  ClientInv(c, new, s, Append(reqs, q))
<1>0. self.st # "done" /\ self.st # "wait"
  OBVIOUS
<1>1. StageInv(c, self, s) /\ ReplyInv(c, self, s, reqs) /\ LoopInv(c, self, s) /\ AskInv(c, self, s, reqs)
  BY <1>0 DEF ClientInv
<1>2. Incoming(new) = Incoming(self)
  BY DEF Incoming
<1>3. Pending(c, reqs) = {}
  BY <1>0, <1>1 DEF AskInv
<1>4. Pending(c, Append(reqs, q)) = {Len(reqs) + 1} /\ Append(reqs, q)[Len(reqs) + 1] = q
  <2>1. Pending(c, Append(reqs, q)) = Pending(c, reqs) \cup {Len(reqs) + 1}
    BY PendingAppend
  <2> QED BY <1>3, <2>1, PendingAppend
<1>5. StageInv(c, new, s)
  <2>1. new.req = GreetMessage => s.sent[c] = 0 /\ c \notin s.wins
    BY <1>1 DEF StageInv
  <2>2. c = Dock => new.req # GreetMessage
    BY Ids
  <2> QED BY <1>0, <1>1, <2>1, <2>2 DEF StageInv
<1>6. AskInv(c, new, s, Append(reqs, q))
  BY <1>1, <1>4 DEF AskInv, StageInv
<1>7. \A i \in DOMAIN Incoming(self) : ~IsReply(Incoming(self)[i], c, s.conns)
  BY <1>0, <1>1 DEF ReplyInv
<1>8. ReplyInv(c, new, s, Append(reqs, q))
  BY <1>1, <1>2, <1>4, <1>7 DEF ReplyInv
<1>9. LoopInv(c, new, s)
  BY <1>1 DEF LoopInv
<1> QED BY <1>0, <1>2, <1>5, <1>6, <1>8, <1>9 DEF ClientInv, Coming

\* The application enters its event loop.
LEMMA RunStep ==
  ASSUME NEW c \in Clients, NEW self, NEW new \in ClientType, NEW s, NEW reqs \in Seq(Items),
         ClientInv(c, self, s, reqs), self.st = "init",
         new.st = "run", new.key = self.key, new.done = self.done, new.wrong = self.wrong,
         new.batch = self.batch, new.queue = self.queue, new.inbox = self.inbox,
         new.buf = self.buf, new.unread = self.unread, self.req # GreetMessage, new.req # GreetMessage
  PROVE  ClientInv(c, new, s, reqs)
<1>1. /\ StageInv(c, self, s) /\ ReplyInv(c, self, s, reqs) /\ LoopInv(c, self, s) /\ AskInv(c, self, s, reqs)
  BY DEF ClientInv
<1>2. Incoming(new) = Incoming(self)
  BY DEF Incoming
<1>3. Pending(c, reqs) = {}
  BY <1>1 DEF AskInv
<1>5. StageInv(c, new, s)
  BY <1>1 DEF StageInv
<1>6. AskInv(c, new, s, reqs)
  BY <1>3 DEF AskInv
<1>8. ReplyInv(c, new, s, reqs)
  BY <1>1, <1>2, <1>3 DEF ReplyInv
<1>9. LoopInv(c, new, s)
  BY <1>1 DEF LoopInv
<1> QED BY <1>2, <1>5, <1>6, <1>8, <1>9 DEF ClientInv, Coming

-----------------------------------------------------------------------------
\* The answer in the inbox.

\* A non-empty set of indices has a first one.
LEMMA FirstIndex ==
  ASSUME NEW I \in SUBSET Nat, I # {}
  PROVE  Min(I) \in I /\ \A i \in I : Min(I) <= i
<1> DEFINE R == {ss \in Nat \X Nat : ss[1] < ss[2]}
<1>1. IsWellFoundedOn(R, Nat)
  BY NatLessThanWellFounded DEF OpToRel
<1> HIDE DEF R
<1>2. PICK x \in I : \A y \in I : ~(<<y, x>> \in R)
  BY <1>1, WFMin
<1>3. \A y \in I : x <= y
  <2> TAKE y \in I
  <2>1. x \in Nat /\ y \in Nat /\ ~(<<y, x>> \in R)
    BY <1>2
  <2>2. ~(y < x)
    BY <2>1 DEF R
  <2> QED BY <2>1, <2>2
<1> QED BY <1>3 DEF Min

\* The message that wait_for_answer takes: the first that looks like the answer.
LooksLike(m, c, self) == m.key = AskKey(c, self) /\ m.id = self.req.reply_id

\* SelectInSeq finds the first such message.
LEMMA AnswerFirst ==
  ASSUME NEW c, cl[c].inbox \in Seq(Items), AnswerAt(c) # 0
  PROVE  /\ AnswerAt(c) \in DOMAIN cl[c].inbox
         /\ LooksLike(cl[c].inbox[AnswerAt(c)], c, cl[c])
         /\ \A i \in DOMAIN cl[c].inbox : LooksLike(cl[c].inbox[i], c, cl[c]) => AnswerAt(c) <= i
<1> DEFINE s == cl[c].inbox
           I == {i \in 1..Len(s) : LooksLike(s[i], c, cl[c])}
<1>1. DOMAIN s = 1..Len(s) /\ Len(s) \in Nat
  OBVIOUS
<1>2. AnswerAt(c) = IF I # {} THEN Min(I) ELSE 0
  BY DEF AnswerAt, SelectInSeq, LooksLike, AskKey
<1>3. I # {} /\ AnswerAt(c) = Min(I)
  BY <1>2
<1>4. I \in SUBSET Nat
  BY <1>1
<1>5. Min(I) \in I /\ \A i \in I : Min(I) <= i
  BY <1>3, <1>4, FirstIndex
<1> QED BY <1>1, <1>3, <1>5

\* RemoveAt leaves out one element.
LEMMA Removed ==
  ASSUME NEW S, NEW s \in Seq(S), NEW p \in DOMAIN s
  PROVE  /\ RemoveAt(s, p) \in Seq(S)
         /\ Len(RemoveAt(s, p)) = Len(s) - 1
         /\ \A i \in 1 .. Len(s) - 1 : RemoveAt(s, p)[i] = IF i < p THEN s[i] ELSE s[i + 1]
<1> DEFINE a == SubSeq(s, 1, p - 1)
           b == SubSeq(s, p + 1, Len(s))
<1>1. DOMAIN s = 1..Len(s) /\ Len(s) \in Nat /\ p \in 1..Len(s) /\ \A i \in 1..Len(s) : s[i] \in S
  OBVIOUS
<1>2. /\ a \in Seq(S) /\ Len(a) = p - 1 /\ \A i \in 1 .. p - 1 : a[i] = s[i]
  <2>1. \A i \in 1 .. p - 1 : s[i] \in S
    BY <1>1
  <2>2. a \in Seq(S) /\ Len(a) = (IF 1 <= p - 1 THEN (p - 1) - 1 + 1 ELSE 0)
        /\ \A i \in 1 .. (p - 1) - 1 + 1 : a[i] = s[1 + i - 1]
    BY <1>1, <2>1, SubSeqProperties
  <2> HIDE DEF a
  <2>3. Len(a) = p - 1
    BY <1>1, <2>2
  <2>4. \A i \in 1 .. p - 1 : i \in 1 .. (p - 1) - 1 + 1 /\ 1 + i - 1 = i
    BY <1>1
  <2> QED BY <2>2, <2>3, <2>4
<1>3. /\ b \in Seq(S) /\ Len(b) = Len(s) - p /\ \A i \in 1 .. Len(s) - p : b[i] = s[p + i]
  <2>1. \A i \in p + 1 .. Len(s) : s[i] \in S
    BY <1>1
  <2>2. b \in Seq(S) /\ Len(b) = (IF p + 1 <= Len(s) THEN Len(s) - (p + 1) + 1 ELSE 0)
        /\ \A i \in 1 .. Len(s) - (p + 1) + 1 : b[i] = s[(p + 1) + i - 1]
    BY <1>1, <2>1, SubSeqProperties
  <2> HIDE DEF b
  <2>3. \A i \in 1 .. Len(s) - p : i \in 1 .. Len(s) - (p + 1) + 1 /\ (p + 1) + i - 1 = p + i
    BY <1>1
  <2> QED BY <1>1, <2>2, <2>3
<1>4. RemoveAt(s, p) = a \o b
  BY DEF RemoveAt
<1> HIDE DEF a, b
<1>5. /\ a \o b \in Seq(S) /\ Len(a \o b) = Len(a) + Len(b)
      /\ \A i \in 1 .. Len(a) + Len(b) : (a \o b)[i] = IF i <= Len(a) THEN a[i] ELSE b[i - Len(a)]
  BY <1>2, <1>3, ConcatProperties
<1>6. \A i \in 1 .. Len(s) - 1 : (a \o b)[i] = IF i < p THEN s[i] ELSE s[i + 1]
  <2> TAKE i \in 1 .. Len(s) - 1
  <2>1. i \in 1 .. Len(a) + Len(b)
    BY <1>1, <1>2, <1>3
  <2>2. CASE i < p
    <3>1. i <= Len(a) /\ i \in 1 .. p - 1
      BY <2>2, <1>1, <1>2
    <3> QED BY <3>1, <2>1, <2>2, <1>2, <1>5
  <2>3. CASE ~(i < p)
    <3>1. ~(i <= Len(a)) /\ i - Len(a) \in 1 .. Len(s) - p /\ p + (i - Len(a)) = i + 1
      BY <2>3, <1>1, <1>2
    <3> QED BY <3>1, <2>1, <2>3, <1>3, <1>5
  <2> QED BY <2>2, <2>3
<1> QED BY <1>1, <1>2, <1>3, <1>4, <1>5, <1>6

\* The same as a selection, also within a longer sequence.
LEMMA ThinRemoved ==
  ASSUME NEW S, NEW s \in Seq(S), NEW p \in DOMAIN s, NEW X, s[p] \notin X
  PROVE  /\ Thin(RemoveAt(s, p), s, X)
         /\ \A i \in DOMAIN RemoveAt(s, p) : \E j \in DOMAIN s : j # p /\ RemoveAt(s, p)[i] = s[j]
<1> DEFINE r == RemoveAt(s, p)
           f == [i \in DOMAIN r |-> IF i < p THEN i ELSE i + 1]
<1>1. DOMAIN s = 1..Len(s) /\ Len(s) \in Nat /\ p \in 1..Len(s)
  OBVIOUS
<1>2. DOMAIN r = 1 .. Len(s) - 1 /\ \A i \in DOMAIN r : r[i] = IF i < p THEN s[i] ELSE s[i + 1]
  <2>1. /\ r \in Seq(S) /\ Len(r) = Len(s) - 1
        /\ \A i \in 1 .. Len(s) - 1 : r[i] = IF i < p THEN s[i] ELSE s[i + 1]
    BY Removed
  <2> HIDE DEF r
  <2>2. DOMAIN r = 1 .. Len(s) - 1
    BY <2>1
  <2> QED BY <2>1, <2>2
<1> HIDE DEF r
<1>3. f \in [DOMAIN r -> DOMAIN s]
  BY <1>1, <1>2
<1>4. \A i, j \in DOMAIN r : i < j => f[i] < f[j]
  BY <1>1, <1>2
<1>5. \A i \in DOMAIN r : r[i] = s[f[i]] /\ f[i] # p
  BY <1>1, <1>2
<1>6. \A j \in DOMAIN s : s[j] \in X => \E i \in DOMAIN r : f[i] = j
  <2> SUFFICES ASSUME NEW j \in DOMAIN s, s[j] \in X PROVE \E i \in DOMAIN r : f[i] = j
    OBVIOUS
  <2>1. CASE j < p
    <3>1. j \in DOMAIN r /\ f[j] = j
      BY <1>1, <1>2, <2>1
    <3> QED BY <3>1
  <2>2. CASE p < j
    <3>1. j - 1 \in DOMAIN r /\ f[j - 1] = j
      BY <1>1, <1>2, <2>2
    <3> QED BY <3>1
  <2> QED BY <1>1, <2>1, <2>2
<1> HIDE DEF f
<1>7. Thin(r, s, X)
  BY <1>3, <1>4, <1>5, <1>6 DEF Thin
<1> QED BY <1>3, <1>5, <1>7 DEF r

\* Removing from the first part of a concatenation.
LEMMA RemovedConcat ==
  ASSUME NEW S, NEW s \in Seq(S), NEW t \in Seq(S), NEW p \in DOMAIN s
  PROVE  RemoveAt(s, p) \o t = RemoveAt(s \o t, p)
<1> DEFINE u == s \o t
           r == RemoveAt(s, p)
           v == RemoveAt(u, p)
<1>1. /\ DOMAIN s = 1..Len(s) /\ Len(s) \in Nat /\ p \in 1..Len(s) /\ Len(t) \in Nat
      /\ u \in Seq(S) /\ Len(u) = Len(s) + Len(t) /\ DOMAIN u = 1..(Len(s) + Len(t))
      /\ \A i \in 1 .. Len(s) + Len(t) : u[i] = IF i <= Len(s) THEN s[i] ELSE t[i - Len(s)]
  BY ConcatProperties
<1>2. /\ r \in Seq(S) /\ Len(r) = Len(s) - 1
      /\ \A i \in 1 .. Len(s) - 1 : r[i] = IF i < p THEN s[i] ELSE s[i + 1]
  BY Removed
<1>3. p \in DOMAIN u
  BY <1>1
<1> HIDE DEF u
<1>4. /\ v \in Seq(S) /\ Len(v) = Len(u) - 1
      /\ \A i \in 1 .. Len(u) - 1 : v[i] = IF i < p THEN u[i] ELSE u[i + 1]
  BY <1>1, <1>3, Removed
<1> HIDE DEF r, v
<1>5. /\ r \o t \in Seq(S) /\ Len(r \o t) = Len(r) + Len(t)
      /\ \A i \in 1 .. Len(r) + Len(t) : (r \o t)[i] = IF i <= Len(r) THEN r[i] ELSE t[i - Len(r)]
  BY <1>2, ConcatProperties
<1>6. Len(r \o t) = Len(v)
  BY <1>1, <1>2, <1>4, <1>5
<1>7. \A i \in 1 .. Len(r \o t) : (r \o t)[i] = v[i]
  <2> TAKE i \in 1 .. Len(r \o t)
  <2>0. i \in 1 .. Len(r) + Len(t) /\ i \in 1 .. Len(u) - 1
    BY <1>1, <1>2, <1>5
  <2>1. CASE i < p
    <3>1. i <= Len(r) /\ i \in 1 .. Len(s) - 1 /\ i <= Len(s) /\ i \in 1 .. Len(s) + Len(t)
      BY <2>1, <1>1, <1>2
    <3> QED BY <2>0, <2>1, <3>1, <1>1, <1>2, <1>4, <1>5
  <2>2. CASE ~(i < p) /\ i <= Len(r)
    <3>1. i \in 1 .. Len(s) - 1 /\ i + 1 <= Len(s) /\ i + 1 \in 1 .. Len(s) + Len(t)
      BY <2>0, <2>2, <1>1, <1>2
    <3> QED BY <2>0, <2>2, <3>1, <1>1, <1>2, <1>4, <1>5
  <2>3. CASE ~(i <= Len(r))
    <3>1. ~(i < p) /\ ~(i + 1 <= Len(s)) /\ i + 1 \in 1 .. Len(s) + Len(t) /\ (i + 1) - Len(s) = i - Len(r)
      BY <2>0, <2>3, <1>1, <1>2
    <3> QED BY <2>0, <2>3, <3>1, <1>1, <1>4, <1>5
  <2> QED BY <2>1, <2>2, <2>3
<1>8. r \o t = v
  BY <1>4, <1>5, <1>6, <1>7, SeqEqual
<1> QED BY <1>8 DEF r, v, u

\* One read of a socket.
LEMMA TakeDrop ==
  ASSUME NEW S, NEW s \in Seq(S)
  PROVE  /\ Take(s) \in Seq(S) /\ Drop(s) \in Seq(S) /\ Take(s) \o Drop(s) = s
         /\ Len(s) < Chunk => Take(s) = s
<1> DEFINE n == IF Len(s) < Chunk THEN Len(s) ELSE Chunk
<1>1. n \in 0 .. Len(s) /\ Len(s) \in Nat
  BY IpcAssumption
<1>2. \A i \in 1 .. Len(s) : s[i] \in S
  OBVIOUS
<1>3. Take(s) = SubSeq(s, 1, n)
  BY DEF Take
<1> HIDE DEF n
<1>4. SubSeq(s, 1, n) \in Seq(S) /\ Len(SubSeq(s, 1, n)) = n
  BY <1>1, <1>2, SubSeqProperties
<1>5. Drop(s) = SubSeq(s, n + 1, Len(s))
  BY <1>3, <1>4 DEF Drop
<1>6. SubSeq(s, n + 1, Len(s)) \in Seq(S)
  BY <1>1, <1>2, SubSeqProperties
<1>7. SubSeq(s, 1, n) \o SubSeq(s, n + 1, Len(s)) = SubSeq(s, 1, Len(s))
  <2>1. 1 \in 1 .. Len(s) + 1 /\ n \in 1 - 1 .. Len(s) /\ Len(s) \in n .. Len(s)
    BY <1>1
  <2> QED BY <2>1, ConcatAdjacentSubSeq
<1>8. SubSeq(s, 1, Len(s)) = s
  BY SubSeqFull
<1>9. Len(s) < Chunk => n = Len(s)
  BY DEF n
<1> QED BY <1>3, <1>4, <1>5, <1>6, <1>7, <1>8, <1>9

\* The head of a queue is handled.
LEMMA HeadTail ==
  ASSUME NEW S, NEW s \in Seq(S), s # <<>>
  PROVE  /\ s = <<Head(s)>> \o Tail(s) /\ Head(s) \in S /\ Tail(s) \in Seq(S) /\ Head(s) = s[1]
         /\ \A i \in DOMAIN Tail(s) : i + 1 \in DOMAIN s /\ Tail(s)[i] = s[i + 1]
         /\ \A t \in Seq(S) : Tail(s \o t) = Tail(s) \o t /\ s \o t # <<>> /\ (s \o t)[1] = s[1]
<1>1. /\ Head(s) \in S /\ Tail(s) \in Seq(S) /\ Head(s) = s[1]
      /\ \A i \in DOMAIN Tail(s) : i + 1 \in DOMAIN s /\ Tail(s)[i] = s[i + 1]
  OBVIOUS
<1>2. s = <<Head(s)>> \o Tail(s)
  <2>1. Len(s) = Len(<<Head(s)>> \o Tail(s)) /\ <<Head(s)>> \o Tail(s) \in Seq(S)
    BY <1>1
  <2>2. \A i \in 1 .. Len(s) : s[i] = (<<Head(s)>> \o Tail(s))[i]
    BY <1>1
  <2> QED BY <2>1, <2>2, SeqEqual
<1>3. \A t \in Seq(S) : Tail(s \o t) = Tail(s) \o t /\ s \o t # <<>> /\ (s \o t)[1] = s[1]
  <2> TAKE t \in Seq(S)
  <2>1. /\ s \o t \in Seq(S) /\ Len(s \o t) = Len(s) + Len(t) /\ Len(s) \in Nat /\ Len(s) >= 1 /\ Len(t) \in Nat
        /\ \A i \in 1 .. Len(s) + Len(t) : (s \o t)[i] = IF i <= Len(s) THEN s[i] ELSE t[i - Len(s)]
    BY ConcatProperties
  <2>2. s \o t # <<>> /\ (s \o t)[1] = s[1]
    BY <2>1
  <2>3. /\ Tail(s \o t) \in Seq(S) /\ Len(Tail(s \o t)) = Len(s) + Len(t) - 1
        /\ \A i \in 1 .. Len(s) + Len(t) - 1 : Tail(s \o t)[i] = (s \o t)[i + 1]
    BY <2>1, <2>2, HeadTailProperties
  <2>4. /\ Tail(s) \in Seq(S) /\ Len(Tail(s)) = Len(s) - 1 /\ \A i \in 1 .. Len(s) - 1 : Tail(s)[i] = s[i + 1]
    BY HeadTailProperties
  <2>5. /\ Tail(s) \o t \in Seq(S) /\ Len(Tail(s) \o t) = (Len(s) - 1) + Len(t)
        /\ \A i \in 1 .. (Len(s) - 1) + Len(t) :
             (Tail(s) \o t)[i] = IF i <= Len(s) - 1 THEN Tail(s)[i] ELSE t[i - (Len(s) - 1)]
    BY <2>4, ConcatProperties
  <2>6. \A i \in 1 .. Len(s) + Len(t) - 1 : Tail(s \o t)[i] = (Tail(s) \o t)[i]
    <3> TAKE i \in 1 .. Len(s) + Len(t) - 1
    <3>1. i + 1 \in 1 .. Len(s) + Len(t) /\ i \in 1 .. (Len(s) - 1) + Len(t)
      BY <2>1
    <3>2. CASE i <= Len(s) - 1
      BY <3>1, <3>2, <2>1, <2>3, <2>4, <2>5
    <3>3. CASE ~(i <= Len(s) - 1)
      <4>1. (i + 1) - Len(s) = i - (Len(s) - 1) /\ ~(i + 1 <= Len(s))
        BY <3>3, <2>1
      <4> QED BY <4>1, <3>1, <3>3, <2>1, <2>3, <2>5
    <3> QED BY <3>2, <3>3
  <2>7. Tail(s \o t) = Tail(s) \o t
    BY <2>1, <2>3, <2>5, <2>6, SeqEqual
  <2> QED BY <2>2, <2>7
<1> QED BY <1>1, <1>2, <1>3

-----------------------------------------------------------------------------
\* What is coming to a client.

\* Concatenation of messages.
LEMMA Assoc == \A a, b, e \in Seq(Items) : (a \o b) \o e = a \o (b \o e)
BY ConcatAssociative

\* The types of the parts of a client.
LEMMA ClientTypes ==
  ASSUME NEW self \in ClientType
  PROVE  /\ self.batch \in Seq(Items) /\ self.queue \in Seq(Items) /\ self.inbox \in Seq(Items)
         /\ self.buf \in Seq(Items) /\ self.unread \in Seq(Items) /\ Incoming(self) \in Seq(Items)
         /\ self.key \in Nat /\ self.done \in Nat /\ self.req \in Requests /\ self.wrong \in BOOLEAN
         /\ self.buf \o self.unread \in Seq(Items)
<1>1. /\ self.batch \in Seq(Items) /\ self.queue \in Seq(Items) /\ self.inbox \in Seq(Items)
      /\ self.buf \in Seq(Items) /\ self.unread \in Seq(Items)
      /\ self.key \in Nat /\ self.done \in Nat /\ self.req \in Requests /\ self.wrong \in BOOLEAN
  BY DEF ClientType
<1> QED BY <1>1, ConcatProperties DEF Incoming

\* The parts of what is coming, one inside the other.
LEMMA ComingType ==
  ASSUME NEW self \in ClientType, NEW s \in ServerType
  PROVE  /\ s.queue \in Seq(Items) /\ Incoming(self) \o s.queue \in Seq(Items)
         /\ self.queue \o (Incoming(self) \o s.queue) \in Seq(Items)
         /\ Coming(self, s) \in Seq(Items)
         /\ s.sent \in [Clients -> Nat] /\ s.conns \in [Clients -> Nat] /\ s.wins \subseteq Clients
<1>1. s.queue \in Seq(Items) /\ s.sent \in [Clients -> Nat] /\ s.conns \in [Clients -> Nat] /\ s.wins \subseteq Clients
  BY DEF ServerType
<1>2. Incoming(self) \o s.queue \in Seq(Items)
  BY <1>1, ClientTypes, ConcatProperties
<1>3. self.queue \o (Incoming(self) \o s.queue) \in Seq(Items)
  BY <1>2, ClientTypes, ConcatProperties
<1>4. Coming(self, s) \in Seq(Items)
  BY <1>3, ClientTypes, ConcatProperties DEF Coming
<1> QED BY <1>1, <1>2, <1>3, <1>4

\* A thinner part makes the whole thinner.
LEMMA ComingThin ==
  ASSUME NEW a \in Seq(Items), NEW b \in Seq(Items), NEW i \in Seq(Items), NEW q \in Seq(Items),
         NEW a2 \in Seq(Items), NEW b2 \in Seq(Items), NEW i2 \in Seq(Items), NEW q2 \in Seq(Items), NEW X,
         Thin(a2, a, X), Thin(b2, b, X), Thin(i2, i, X), Thin(q2, q, X)
  PROVE  /\ a \o (b \o (i \o q)) \in Seq(Items) /\ a2 \o (b2 \o (i2 \o q2)) \in Seq(Items)
         /\ Thin(a2 \o (b2 \o (i2 \o q2)), a \o (b \o (i \o q)), X)
<1>1. i \o q \in Seq(Items) /\ i2 \o q2 \in Seq(Items) /\ Thin(i2 \o q2, i \o q, X)
  BY ConcatProperties, ThinConcat
<1>2. b \o (i \o q) \in Seq(Items) /\ b2 \o (i2 \o q2) \in Seq(Items)
      /\ Thin(b2 \o (i2 \o q2), b \o (i \o q), X)
  BY <1>1, ConcatProperties, ThinConcat
<1>3. a \o (b \o (i \o q)) \in Seq(Items) /\ a2 \o (b2 \o (i2 \o q2)) \in Seq(Items)
      /\ Thin(a2 \o (b2 \o (i2 \o q2)), a \o (b \o (i \o q)), X)
  BY <1>2, ConcatProperties, ThinConcat
<1> QED BY <1>3

\* What differs only in elements that are no events of a client holds the same.
LEMMA ComingHolds ==
  ASSUME NEW self \in ClientType, NEW new \in ClientType, NEW s \in ServerType, NEW t \in ServerType,
         NEW k, NEW a \in Int, NEW b \in Int,
         Thin(new.batch, self.batch, Events(k)), Thin(new.queue, self.queue, Events(k)),
         Thin(Incoming(new), Incoming(self), Events(k)), Thin(t.queue, s.queue, Events(k))
  PROVE  Holds(Coming(new, t), k, a, b) <=> Holds(Coming(self, s), k, a, b)
<1>1. Thin(Coming(new, t), Coming(self, s), Events(k))
  <2>1. /\ self.batch \in Seq(Items) /\ self.queue \in Seq(Items) /\ Incoming(self) \in Seq(Items)
        /\ new.batch \in Seq(Items) /\ new.queue \in Seq(Items) /\ Incoming(new) \in Seq(Items)
        /\ s.queue \in Seq(Items) /\ t.queue \in Seq(Items)
    BY ClientTypes, ComingType
  <2>2. Thin(new.batch \o (new.queue \o (Incoming(new) \o t.queue)),
             self.batch \o (self.queue \o (Incoming(self) \o s.queue)), Events(k))
    BY <2>1, ComingThin
  <2> QED BY <2>2 DEF Coming
<1>2. Coming(new, t) \in Seq(Items) /\ Coming(self, s) \in Seq(Items)
  BY ComingType
<1> QED BY <1>1, <1>2, ThinHolds

\* Every message is kept.
LEMMA ThinItems == \A s \in Seq(Items) : \A X : Thin(s, s, X)
BY ThinSame

\* An event is due only to a client that was sent one.
LEMMA NoneSent ==
  ASSUME NEW c \in Clients, NEW self \in ClientType, NEW s \in ServerType,
         Holds(Coming(self, s), s.conns[c], self.done, s.sent[c]), s.sent[c] = 0
  PROVE  \A i \in DOMAIN Incoming(self) : ~IsEvent(Incoming(self)[i], s.conns[c])
<1> DEFINE r == Incoming(self) \o s.queue
           t == self.queue \o r
<1>1. self.done = 0
  BY ClientTypes, HoldsDef
<1>2. \A i \in DOMAIN Coming(self, s) : ~IsEvent(Coming(self, s)[i], s.conns[c])
  BY <1>1, ComingType, NoneDue
<1>3. /\ self.batch \in Seq(Items) /\ self.queue \in Seq(Items) /\ Incoming(self) \in Seq(Items)
      /\ r \in Seq(Items) /\ t \in Seq(Items) /\ s.queue \in Seq(Items)
  BY ClientTypes, ComingType
<1>4. \A i \in DOMAIN t : \E j \in DOMAIN Coming(self, s) : Coming(self, s)[j] = t[i]
  <2> HIDE DEF t
  <2> TAKE i \in DOMAIN t
  <2> DEFINE z == self.batch
  <2>0. z \in Seq(Items) /\ t \in Seq(Items) /\ i \in DOMAIN t
    BY <1>3
  <2> HIDE DEF z
  <2>1. i + Len(z) \in DOMAIN (z \o t) /\ (z \o t)[i + Len(z)] = t[i]
    BY ONLY <2>0
  <2> QED BY <2>1 DEF Coming, t, z
<1>5. \A i \in DOMAIN r : \E j \in DOMAIN t : t[j] = r[i]
  <2> HIDE DEF r
  <2> TAKE i \in DOMAIN r
  <2> DEFINE z == self.queue
  <2>0. z \in Seq(Items) /\ r \in Seq(Items) /\ i \in DOMAIN r
    BY <1>3
  <2> HIDE DEF z
  <2>1. i + Len(z) \in DOMAIN (z \o r) /\ (z \o r)[i + Len(z)] = r[i]
    BY ONLY <2>0
  <2> QED BY <2>1 DEF z
<1>6. \A i \in DOMAIN Incoming(self) : \E j \in DOMAIN r : r[j] = Incoming(self)[i]
  <2> TAKE i \in DOMAIN Incoming(self)
  <2>1. i \in DOMAIN r /\ r[i] = Incoming(self)[i]
    BY <1>3
  <2> QED BY <2>1
<1> HIDE DEF r, t
<1> QED BY <1>2, <1>4, <1>5, <1>6

\* The first part of a concatenation.
LEMMA ConcatFront ==
  ASSUME NEW S, NEW s \in Seq(S), NEW t \in Seq(S), NEW u, u = s \o t
  PROVE  /\ DOMAIN u = 1 .. Len(u) /\ Len(u) = Len(s) + Len(t)
         /\ Len(s) \in Nat /\ Len(t) \in Nat /\ Len(u) \in Nat
         /\ \A i \in DOMAIN s : i \in DOMAIN u /\ u[i] = s[i]
         /\ \A i \in DOMAIN t : Len(s) + i \in DOMAIN u /\ u[Len(s) + i] = t[i]
         /\ \A i \in DOMAIN u : i \notin DOMAIN s => i - Len(s) \in DOMAIN t /\ u[i] = t[i - Len(s)]
<1>1. /\ DOMAIN s = 1 .. Len(s) /\ Len(s) \in Nat /\ DOMAIN t = 1 .. Len(t) /\ Len(t) \in Nat
      /\ u \in Seq(S) /\ Len(u) = Len(s) + Len(t)
      /\ \A i \in 1 .. Len(s) + Len(t) : u[i] = IF i <= Len(s) THEN s[i] ELSE t[i - Len(s)]
  BY ConcatProperties
<1>2. DOMAIN u = 1 .. Len(u) /\ Len(u) \in Nat
  BY <1>1
<1> QED BY <1>1, <1>2

\* The answer that is found is the reply.
LEMMA AnswerMagic ==
  ASSUME NEW c \in Clients, NEW self, NEW s \in ServerType, NEW reqs, ConnsInv(s),
         ClientInv(c, self, s, reqs), self.st = "wait", NEW p \in DOMAIN self.inbox,
         LooksLike(self.inbox[p], c, self),
         \A i \in DOMAIN self.inbox : LooksLike(self.inbox[i], c, self) => p <= i
  PROVE  self.inbox[p].magic = Server /\ p \in DOMAIN Incoming(self) /\ Incoming(self)[p] = self.inbox[p]
<1> DEFINE in == Incoming(self)
           m == self.inbox[p]
<1>1. /\ StageInv(c, self, s) /\ ReplyInv(c, self, s, reqs) /\ AskInv(c, self, s, reqs)
      /\ Holds(Coming(self, s), s.conns[c], self.done, s.sent[c]) /\ self \in ClientType
  BY DEF ClientInv
<1>2. /\ self.inbox \in Seq(Items) /\ self.buf \o self.unread \in Seq(Items) /\ self.req \in Requests
      /\ in \in Seq(Items) /\ in = self.inbox \o (self.buf \o self.unread)
      /\ DOMAIN self.inbox = 1 .. Len(self.inbox) /\ Len(self.inbox) \in Nat
  BY <1>1, ClientTypes DEF Incoming
<1>3. /\ \A i \in DOMAIN self.inbox : i \in DOMAIN in /\ in[i] = self.inbox[i]
      /\ DOMAIN in = 1 .. Len(in) /\ Len(in) \in Nat
  <2> DEFINE rest == self.buf \o self.unread
  <2>1. self.inbox \in Seq(Items) /\ rest \in Seq(Items) /\ in = self.inbox \o rest
    BY <1>2
  <2> HIDE DEF rest, in
  <2> QED BY <2>1, ConcatFront
<1>4. p \in DOMAIN in /\ in[p] = m
  BY <1>3
<1>5. Known(m, s.conns)
  BY <1>1, <1>4 DEF ReplyInv
<1> SUFFICES ASSUME m.magic # Server PROVE FALSE
  BY <1>4
<1>6. PICK d \in Clients : s.conns[d] # 0 /\ m.key = s.conns[d] /\ m.id \in EventIds(d) /\ m.magic = Client
  BY <1>5 DEF Known, EventTo, Connected
<1>7. self.req # GreetMessage
  <2> SUFFICES ASSUME self.req = GreetMessage PROVE FALSE
    OBVIOUS
  <2>1. m.key = c
    BY DEF LooksLike, AskKey
  <2> QED BY <2>1, <1>6, KeyNoPid
<1>8. self.key # 0 /\ self.key = s.conns[c] /\ m.key = self.key
  BY <1>1, <1>7 DEF StageInv, LooksLike, AskKey
<1>9. d = c
  BY <1>6, <1>8 DEF ConnsInv
<1>10. m.id = self.req.reply_id
  BY DEF LooksLike
<1>11. c # Dock
  <2> SUFFICES ASSUME c = Dock PROVE FALSE
    OBVIOUS
  <2>1. self.req.reply_id \in {6, 17}
    BY <1>1, Ids DEF StageInv
  <2>2. m.id \in {12, 13, 15}
    BY <1>6, <1>9, Ids DEF EventIds
  <2> QED BY <2>1, <2>2, <1>10
<1>12. m.id \in {2, 4, 7}
  BY <1>6, <1>9, <1>11, Ids DEF EventIds, Inputs
<1>13. self.req = CreateWindowMessage
  <2>1. \A r \in Requests : r.reply_id \in {2, 4, 7} => r \in {GreetMessage, CreateWindowMessage}
    BY Ids DEF Requests
  <2> QED BY <2>1, <1>2, <1>7, <1>10, <1>12
<1>14. IsEvent(in[p], s.conns[c])
  BY <1>4, <1>6, <1>9 DEF IsEvent
<1>15. s.sent[c] # 0
  BY <1>1, <1>4, <1>14, NoneSent
<1>16. Pending(c, reqs) = {}
  BY <1>1, <1>13, <1>15 DEF AskInv
<1>17. PICK i \in DOMAIN in : /\ IsReply(in[i], c, s.conns)
                              /\ \A j \in DOMAIN in : IsEvent(in[j], s.conns[c]) => i < j
  BY <1>1, <1>13, <1>16 DEF ReplyInv
<1>18. i < p
  BY <1>4, <1>14, <1>17
<1>19. i \in DOMAIN self.inbox /\ in[i] = self.inbox[i]
  <2>1. i \in 1 .. Len(self.inbox)
    BY <1>2, <1>3, <1>18
  <2> QED BY <2>1, <1>2, <1>3
<1>20. in[i].id = self.req.reply_id /\ in[i].key = AskKey(c, self)
  BY <1>1, <1>17 DEF ReplyInv
<1>21. p <= i
  BY <1>19, <1>20 DEF LooksLike
<1> QED BY <1>2, <1>18, <1>19, <1>21

-----------------------------------------------------------------------------
\* The steps of a client, on the record of the client.

\* wait_for_answer: the reply is taken out of the inbox and the client goes on.
LEMMA AnswerStep ==
  ASSUME NEW c \in Clients, NEW self, NEW new \in ClientType, NEW s \in ServerType, NEW reqs, ConnsInv(s),
         ClientInv(c, self, s, reqs), self.st = "wait", NEW p \in DOMAIN self.inbox,
         LooksLike(self.inbox[p], c, self), self.inbox[p].magic = Server,
         p \in DOMAIN Incoming(self), Incoming(self)[p] = self.inbox[p],
         new.st = self.ret, new.req = self.req, new.ret = self.ret, new.done = self.done, ~new.wrong,
         new.key = IF self.req = GreetMessage THEN self.inbox[p].n ELSE self.key,
         new.batch = self.batch, new.queue = self.queue, new.inbox = RemoveAt(self.inbox, p),
         new.buf = self.buf, new.unread = self.unread
  PROVE  ClientInv(c, new, s, reqs)
<1> DEFINE in == Incoming(self)
           k == s.conns[c]
<1>1. /\ StageInv(c, self, s) /\ ReplyInv(c, self, s, reqs) /\ AskInv(c, self, s, reqs) /\ LoopInv(c, self, s)
      /\ Holds(Coming(self, s), k, self.done, s.sent[c]) /\ self \in ClientType
      /\ self.ret \in {"init", "run", "done"}
  BY DEF ClientInv, ClientType
<1>2. /\ self.inbox \in Seq(Items) /\ self.buf \o self.unread \in Seq(Items) /\ in \in Seq(Items)
      /\ self.batch \in Seq(Items) /\ self.queue \in Seq(Items) /\ s.queue \in Seq(Items)
      /\ self.done \in Int /\ s.sent[c] \in Int
  <2>1. self.inbox \in Seq(Items) /\ self.buf \o self.unread \in Seq(Items) /\ in \in Seq(Items)
    BY <1>1, ClientTypes
  <2>2. /\ self.batch \in Seq(Items) /\ self.queue \in Seq(Items) /\ s.queue \in Seq(Items)
        /\ self.done \in Int /\ s.sent[c] \in Int
    BY ONLY <1>1, c \in Clients, s \in ServerType DEF ClientType, ServerType
  <2> QED BY <2>1, <2>2
<1>3. Incoming(new) = RemoveAt(in, p)
  <2> DEFINE rest == self.buf \o self.unread
  <2>1. Incoming(new) = RemoveAt(self.inbox, p) \o rest /\ in = self.inbox \o rest /\ rest \in Seq(Items)
    BY <1>2 DEF Incoming
  <2> HIDE DEF in, rest
  <2> QED BY <1>2, <2>1, RemovedConcat
<1>4. IsReply(in[p], c, s.conns)
  BY <1>1 DEF IsReply, LooksLike, AskKey, StageInv
<1>5. Pending(c, reqs) = {} /\ (self.req = GreetMessage => in[p].n = k /\ k # 0)
  BY <1>1, <1>4 DEF ReplyInv
<1>6. in[p] \notin Events(k)
  BY Ids DEF Events, IsEvent
<1>7. /\ Thin(RemoveAt(in, p), in, Events(k))
      /\ \A i \in DOMAIN RemoveAt(in, p) : \E j \in DOMAIN in : j # p /\ RemoveAt(in, p)[i] = in[j]
  BY <1>2, <1>6, ThinRemoved
<1>8. \A i \in DOMAIN Incoming(new) : Known(Incoming(new)[i], s.conns) /\ ~IsReply(Incoming(new)[i], c, s.conns)
  <2> TAKE i \in DOMAIN Incoming(new)
  <2>1. PICK j \in DOMAIN in : j # p /\ Incoming(new)[i] = in[j]
    BY <1>3, <1>7
  <2> QED BY <2>1, <1>1, <1>4 DEF ReplyInv
<1>9. AskInv(c, new, s, reqs)
  BY <1>5 DEF AskInv
<1>10. ReplyInv(c, new, s, reqs)
  BY <1>1, <1>8 DEF ReplyInv
<1>11. new.key # 0 /\ new.key = k
  BY <1>1, <1>5 DEF StageInv
<1>12. StageInv(c, new, s)
  BY <1>1, <1>11 DEF StageInv
<1>13. LoopInv(c, new, s)
  BY <1>1, <1>11 DEF LoopInv, StageInv
<1>14. RemoveAt(in, p) \in Seq(Items)
  BY <1>2, Removed
<1>15. /\ Thin(new.batch, self.batch, Events(k)) /\ Thin(new.queue, self.queue, Events(k))
       /\ Thin(s.queue, s.queue, Events(k)) /\ Thin(Incoming(new), Incoming(self), Events(k))
  BY <1>2, <1>3, <1>7, ThinItems
<1>16. Holds(Coming(new, s), k, self.done, s.sent[c])
  BY <1>1, <1>2, <1>15, ComingHolds
<1> QED BY <1>9, <1>10, <1>12, <1>13, <1>16 DEF ClientInv

\* A client that has read but decoded nothing yet, or changed nothing of importance.
LEMMA SameClient ==
  ASSUME NEW c, NEW self, NEW new \in ClientType, NEW s, NEW reqs, ClientInv(c, self, s, reqs),
         new.st = self.st, new.ret = self.ret, new.req = self.req, new.key = self.key,
         new.done = self.done, new.wrong = self.wrong, new.batch = self.batch, new.queue = self.queue,
         Incoming(new) = Incoming(self)
  PROVE  ClientInv(c, new, s, reqs)
<1>1. AskInv(c, new, s, reqs)
  BY DEF ClientInv, AskInv, AskKey
<1>2. self.st # "done" => StageInv(c, new, s)
  BY DEF ClientInv, StageInv
<1>3. self.st # "done" => ReplyInv(c, new, s, reqs)
  BY DEF ClientInv, ReplyInv, AskKey
<1>4. self.st # "done" => LoopInv(c, new, s)
  BY DEF ClientInv, LoopInv
<1> QED BY <1>1, <1>2, <1>3, <1>4 DEF ClientInv, Coming

\* pump_messages fills its buffer and reads on.
LEMMA ReadPart ==
  ASSUME NEW c, NEW self, NEW new \in ClientType, NEW s, NEW reqs, ClientInv(c, self, s, reqs),
         new.st = self.st, new.ret = self.ret, new.req = self.req, new.key = self.key,
         new.done = self.done, new.wrong = self.wrong, new.batch = self.batch, new.queue = self.queue,
         new.inbox = self.inbox, new.buf = self.buf \o Take(self.unread), new.unread = Drop(self.unread)
  PROVE  ClientInv(c, new, s, reqs)
<1>1. self.buf \in Seq(Items) /\ self.unread \in Seq(Items)
  BY ClientTypes DEF ClientInv
<1>2. new.buf \o new.unread = self.buf \o self.unread
  <2> DEFINE t == Take(self.unread)
             d == Drop(self.unread)
  <2>1. t \in Seq(Items) /\ d \in Seq(Items) /\ t \o d = self.unread
    BY <1>1, TakeDrop
  <2> HIDE DEF t, d
  <2>2. (self.buf \o t) \o d = self.buf \o (t \o d)
    BY <1>1, <2>1, Assoc
  <2> QED BY <2>1, <2>2 DEF t, d
<1>3. Incoming(new) = Incoming(self)
  BY <1>2 DEF Incoming
<1> QED BY <1>3, SameClient

\* What is on its way may be thinned as long as all that is the client's own stays.
LEMMA ThinReply ==
  ASSUME NEW c \in Clients, NEW self, NEW new, NEW s, NEW reqs, NEW own,
         NEW in \in Seq(Items), NEW w \in Seq(Items), in = Incoming(self), w = Incoming(new), Thin(w, in, own),
         \A m \in Items : m.key \in {c, self.key} => m \in own,
         StageInv(c, self, s), ReplyInv(c, self, s, reqs),
         new.st = self.st, new.req = self.req, new.key = self.key
  PROVE  ReplyInv(c, new, s, reqs)
<1> DEFINE Rep(m) == IsReply(m, c, s.conns)
           Ev(m) == IsEvent(m, s.conns[c])
           Fits(m) == /\ self.st = "wait" /\ Pending(c, reqs) = {}
                      /\ m.id = self.req.reply_id /\ m.key = AskKey(c, self)
                      /\ self.req = GreetMessage => m.n = s.conns[c] /\ s.conns[c] # 0
<1>1. PICK f \in [DOMAIN w -> DOMAIN in] :
        /\ \A i, j \in DOMAIN w : i < j => f[i] < f[j]
        /\ \A i \in DOMAIN w : w[i] = in[f[i]]
        /\ \A j \in DOMAIN in : in[j] \in own => \E i \in DOMAIN w : f[i] = j
  BY DEF Thin
<1>2. /\ \A i \in DOMAIN in : Known(in[i], s.conns) /\ (Rep(in[i]) => Fits(in[i]))
      /\ \A i, j \in DOMAIN in : Rep(in[i]) /\ Rep(in[j]) => i = j
      /\ self.st = "wait" /\ self.req = CreateWindowMessage /\ Pending(c, reqs) = {} =>
           \E i \in DOMAIN in : Rep(in[i]) /\ \A j \in DOMAIN in : Ev(in[j]) => i < j
  BY DEF ReplyInv
<1>3. self.st = "wait" /\ self.req = CreateWindowMessage => self.key = s.conns[c]
  BY Ids DEF StageInv
<1>4. \A m \in Items : Rep(m) /\ self.key = s.conns[c] => m \in own
  BY DEF IsReply
<1>5. AskKey(c, new) = AskKey(c, self)
  BY DEF AskKey
<1>6. ReplyInv(c, new, s, reqs) <=>
        /\ \A i \in DOMAIN w : Known(w[i], s.conns) /\ (Rep(w[i]) => Fits(w[i]))
        /\ \A i, j \in DOMAIN w : Rep(w[i]) /\ Rep(w[j]) => i = j
        /\ self.st = "wait" /\ self.req = CreateWindowMessage /\ Pending(c, reqs) = {} =>
             \E i \in DOMAIN w : Rep(w[i]) /\ \A j \in DOMAIN w : Ev(w[j]) => i < j
  BY <1>5 DEF ReplyInv
<1>7. /\ DOMAIN w \subseteq Int /\ DOMAIN in \subseteq Int /\ \A j \in DOMAIN in : in[j] \in Items
      /\ \A i \in DOMAIN w : f[i] \in DOMAIN in /\ w[i] = in[f[i]]
  BY <1>1
<1> HIDE DEF Rep, Ev, Fits
<1>8. \A i, j \in DOMAIN w : (f[i] = f[j] => i = j) /\ (f[i] < f[j] => i < j)
  <2> SUFFICES ASSUME NEW i \in DOMAIN w, NEW j \in DOMAIN w PROVE (f[i] = f[j] => i = j) /\ (f[i] < f[j] => i < j)
    OBVIOUS
  <2>1. i \in Int /\ j \in Int /\ f[i] \in Int /\ f[j] \in Int
    BY ONLY <1>7, i \in DOMAIN w, j \in DOMAIN w
  <2>2. (i < j => f[i] < f[j]) /\ (j < i => f[j] < f[i])
    BY ONLY <1>1, i \in DOMAIN w, j \in DOMAIN w
  <2> QED BY ONLY <2>1, <2>2
<1>9. \A i \in DOMAIN w : Known(w[i], s.conns) /\ (Rep(w[i]) => Fits(w[i]))
  BY ONLY <1>2, <1>7
<1>10. \A i, j \in DOMAIN w : Rep(w[i]) /\ Rep(w[j]) => i = j
  BY ONLY <1>2, <1>7, <1>8
<1>11. ASSUME self.st = "wait", self.req = CreateWindowMessage, Pending(c, reqs) = {}
       PROVE  \E i \in DOMAIN w : Rep(w[i]) /\ \A j \in DOMAIN w : Ev(w[j]) => i < j
  <2>1. PICK x \in DOMAIN in : Rep(in[x]) /\ \A j \in DOMAIN in : Ev(in[j]) => x < j
    BY ONLY <1>2, <1>11
  <2>2. in[x] \in own
    BY ONLY <1>3, <1>4, <1>7, <1>11, <2>1
  <2>3. PICK i \in DOMAIN w : f[i] = x
    BY ONLY <1>1, <2>1, <2>2
  <2>4. Rep(w[i])
    BY ONLY <1>7, <2>1, <2>3
  <2>5. \A j \in DOMAIN w : Ev(w[j]) => i < j
    BY ONLY <1>7, <1>8, <2>1, <2>3
  <2> QED BY ONLY <2>3, <2>4, <2>5
<1> QED BY ONLY <1>6, <1>9, <1>10, <1>11

\* Another selection keeps the events if every event is one of the client's own.
LEMMA ThinLess ==
  ASSUME NEW o, NEW b, NEW own, NEW X, Thin(o, b, own), \A j \in DOMAIN b : b[j] \in X => b[j] \in own
  PROVE  Thin(o, b, X)
BY DEF Thin

\* A message at the end of the loop's queue that is no event.
LEMMA QueueCall ==
  ASSUME NEW q \in Seq(Items), NEW p, p = Append(q, CallEvent), NEW k
  PROVE  /\ p \in Seq(Items) /\ Thin(q, p, Events(k)) /\ CallEvent.magic = 0
         /\ \A i \in DOMAIN p : (i \in DOMAIN q /\ p[i] = q[i]) \/ p[i] = CallEvent
<1>1. CallEvent \in Items /\ CallEvent.magic = 0
  BY DEF CallEvent, Item, Items
<1>2. CallEvent \notin Events(k)
  BY <1>1, Ids DEF Events, IsEvent
<1> DEFINE e == CallEvent
<1>3. e \in Items /\ e \notin Events(k) /\ p = Append(q, e)
  BY <1>1, <1>2
<1> HIDE DEF e
<1>4. /\ p \in Seq(Items) /\ DOMAIN q \subseteq Int
      /\ \A i \in DOMAIN q : i \in DOMAIN p /\ p[i] = q[i]
      /\ \A i \in DOMAIN p : (i \in DOMAIN q /\ p[i] = q[i]) \/ p[i] = e
  BY ONLY <1>3, q \in Seq(Items)
<1> DEFINE f == [i \in DOMAIN q |-> i]
<1>5. f \in [DOMAIN q -> DOMAIN p] /\ \A i \in DOMAIN q : f[i] = i
  BY ONLY <1>4
<1> HIDE DEF f
<1>6. /\ \A i, j \in DOMAIN q : i < j => f[i] < f[j]
      /\ \A i \in DOMAIN q : q[i] = p[f[i]]
      /\ \A j \in DOMAIN p : p[j] \in Events(k) => \E i \in DOMAIN q : f[i] = j
  BY ONLY <1>3, <1>4, <1>5
<1>7. Thin(q, p, Events(k))
  BY ONLY <1>5, <1>6 DEF Thin
<1> QED BY ONLY <1>1, <1>4, <1>7 DEF e

\* What is read is decoded: the client's own messages come into its inbox.
LEMMA ReadAll ==
  ASSUME NEW c \in Clients, NEW self, NEW new \in ClientType, NEW s \in ServerType, NEW reqs,
         NEW b \in Seq(Items), NEW o \in Seq(Items), NEW own, b = self.buf \o self.unread, Thin(o, b, own),
         \A m \in Items : m.key \in {c, self.key} => m \in own,
         ClientInv(c, self, s, reqs), self.st # "off",
         new.st = self.st, new.ret = self.ret, new.req = self.req, new.key = self.key,
         new.done = self.done, new.wrong = self.wrong, new.batch = self.batch,
         new.queue = Append(self.queue, CallEvent),
         new.inbox = self.inbox \o o, new.buf = <<>>, new.unread = <<>>
  PROVE  ClientInv(c, new, s, reqs)
<1> DEFINE in == Incoming(self)
           w == Incoming(new)
           k == s.conns[c]
<1>1. self \in ClientType /\ ~new.wrong /\ AskInv(c, self, s, reqs)
  BY DEF ClientInv
<1>2. AskInv(c, new, s, reqs)
  BY <1>1 DEF AskInv, AskKey
<1>3. CASE self.st = "done"
  BY <1>1, <1>2, <1>3 DEF ClientInv
<1>4. CASE self.st # "done"
  <2>1. /\ StageInv(c, self, s) /\ ReplyInv(c, self, s, reqs) /\ LoopInv(c, self, s)
        /\ Holds(Coming(self, s), k, self.done, s.sent[c])
    BY <1>4 DEF ClientInv
  <2>2. /\ self.inbox \in Seq(Items) /\ in \in Seq(Items) /\ in = self.inbox \o b /\ w \in Seq(Items)
        /\ self.batch \in Seq(Items) /\ self.queue \in Seq(Items) /\ s.queue \in Seq(Items)
        /\ self.done \in Int /\ s.sent[c] \in Int
    <3>1. in = self.inbox \o b
      BY DEF Incoming
    <3>2. w \in Seq(Items)
      BY ClientTypes
    <3>3. self.inbox \in Seq(Items) /\ in \in Seq(Items) /\ self.batch \in Seq(Items) /\ self.queue \in Seq(Items)
      BY <1>1, ClientTypes
    <3>4. self.done \in Int /\ s.queue \in Seq(Items) /\ s.sent[c] \in Int
      BY ONLY <1>1, c \in Clients, s \in ServerType DEF ClientType, ServerType
    <3> QED BY <3>1, <3>2, <3>3, <3>4
  <2>3. w = self.inbox \o o
    <3>1. new.inbox \in Seq(Items)
      BY ClientTypes
    <3>2. <<>> \o <<>> = <<>> /\ new.inbox \o <<>> = new.inbox
      BY <3>1, ConcatEmptySeq
    <3> QED BY <3>2 DEF Incoming
  <2> DEFINE x == self.inbox
  <2>4. x \in Seq(Items) /\ w = x \o o /\ in = x \o b
    BY <2>2, <2>3
  <2> HIDE DEF in, w, k, x
  <2>5. \A X : Thin(o, b, X) => Thin(w, in, X)
    BY ONLY <2>4, b \in Seq(Items), o \in Seq(Items), ThinItems, ThinConcat
  <2>6. ReplyInv(c, new, s, reqs)
    <3>1. Thin(w, in, own) /\ in = Incoming(self) /\ w = Incoming(new)
      BY <2>5 DEF in, w
    <3> QED BY <2>1, <2>2, <3>1, ThinReply
  <2>7. /\ new.queue \in Seq(Items) /\ Thin(self.queue, new.queue, Events(k)) /\ CallEvent.magic = 0
        /\ \A i \in DOMAIN new.queue :
             (i \in DOMAIN self.queue /\ new.queue[i] = self.queue[i]) \/ new.queue[i] = CallEvent
    <3>1. self.queue \in Seq(Items) /\ new.queue = Append(self.queue, CallEvent)
      BY <2>2
    <3> QED BY ONLY <3>1, QueueCall
  <2>8. LoopInv(c, new, s)
    BY <2>1, <2>7 DEF LoopInv
  <2>9. StageInv(c, new, s)
    BY <2>1 DEF StageInv
  <2>10. \A j \in DOMAIN b : b[j] \in Events(k) => b[j] \in own
    <3>1. CASE self.key # 0
      BY <3>1, <2>1 DEF StageInv, Events, IsEvent, k
    <3>2. CASE self.key = 0
      <4>1. s.sent[c] = 0
        BY <2>1, <3>2 DEF StageInv
      <4>2. \A i \in DOMAIN in : ~IsEvent(in[i], k)
        BY <1>1, <2>1, <4>1, NoneSent DEF in, k
      <4>3. \A j \in DOMAIN b : Len(x) + j \in DOMAIN in /\ in[Len(x) + j] = b[j]
        BY ONLY <2>4, b \in Seq(Items), ConcatFront
      <4> QED BY <4>2, <4>3 DEF Events
    <3> QED BY <3>1, <3>2
  <2>11. Thin(w, in, Events(k))
    <3>1. Thin(o, b, Events(k))
      BY <2>10, ThinLess
    <3> QED BY <3>1, <2>5
  <2> DEFINE mid == [new EXCEPT !.inbox = self.inbox, !.buf = self.buf, !.unread = self.unread]
  <2>12. /\ mid \in ClientType /\ mid.batch = self.batch /\ mid.queue = new.queue
         /\ mid.inbox = self.inbox /\ mid.buf = self.buf /\ mid.unread = self.unread
    BY <1>1 DEF ClientType
  <2> HIDE DEF mid
  <2>13. Incoming(mid) = in
    BY <2>12 DEF Incoming, in
  <2>14. /\ Thin(self.batch, mid.batch, Events(k)) /\ Thin(self.queue, mid.queue, Events(k))
         /\ Thin(Incoming(self), Incoming(mid), Events(k)) /\ Thin(s.queue, s.queue, Events(k))
    BY <2>2, <2>7, <2>12, <2>13, ThinItems DEF in
  <2>15. /\ Thin(new.batch, mid.batch, Events(k)) /\ Thin(new.queue, mid.queue, Events(k))
         /\ Thin(Incoming(new), Incoming(mid), Events(k))
    BY <2>2, <2>7, <2>11, <2>12, <2>13, ThinItems DEF w
  <2>16. /\ mid \in ClientType /\ self \in ClientType /\ new \in ClientType /\ self.done \in Int /\ s.sent[c] \in Int
         /\ s \in ServerType
    BY <1>1, <2>2, <2>12
  <2>17. Holds(Coming(self, s), k, self.done, s.sent[c]) <=> Holds(Coming(mid, s), k, self.done, s.sent[c])
    BY ONLY <2>14, <2>16, ComingHolds
  <2>18. Holds(Coming(new, s), k, self.done, s.sent[c]) <=> Holds(Coming(mid, s), k, self.done, s.sent[c])
    BY ONLY <2>14, <2>15, <2>16, ComingHolds
  <2> QED BY <1>1, <1>2, <2>1, <2>6, <2>8, <2>9, <2>17, <2>18 DEF ClientInv, k
<1> QED BY <1>3, <1>4

\* The head of a queue is left out.
LEMMA ThinTail ==
  ASSUME NEW b \in Seq(Items), b # <<>>, NEW X, Head(b) \notin X
  PROVE  Thin(Tail(b), b, X) /\ Tail(b) \in Seq(Items)
<1>1. b = <<Head(b)>> \o Tail(b) /\ Head(b) \in Items /\ Tail(b) \in Seq(Items)
  BY HeadTail
<1> DEFINE h == <<Head(b)>>
           t == Tail(b)
<1>2. h \in Seq(Items) /\ <<>> \in Seq(Items)
  BY <1>1
<1>3. Thin(<<>>, h, X) /\ Thin(t, t, X)
  BY <1>1, ThinNone, ThinItems
<1>4. b = h \o t /\ t \in Seq(Items)
  BY <1>1
<1> HIDE DEF h, t
<1>5. \A u, v, w, x \in Seq(Items) : Thin(u, v, X) /\ Thin(w, x, X) => Thin(u \o w, v \o x, X)
  BY ThinConcat
<1>6. Thin(<<>> \o t, h \o t, X)
  BY <1>2, <1>3, <1>4, <1>5
<1>7. <<>> \o t = t
  BY <1>4, ConcatEmptySeq
<1> QED BY <1>1, <1>4, <1>6, <1>7 DEF t

\* The steps of a client in its event loop touch what is in the loop only.
LEMMA LoopStep ==
  ASSUME NEW c \in Clients, NEW self, NEW new \in ClientType, NEW s \in ServerType, NEW reqs,
         ClientInv(c, self, s, reqs), self.st = "run", new.st = "run",
         new.ret = self.ret, new.req = self.req, new.key = self.key, new.wrong = self.wrong,
         LoopInv(c, new, s), Holds(Coming(new, s), s.conns[c], new.done, s.sent[c]),
         \A i \in DOMAIN Incoming(new) : \E j \in DOMAIN Incoming(self) : Incoming(new)[i] = Incoming(self)[j]
  PROVE  ClientInv(c, new, s, reqs)
<1>1. /\ StageInv(c, self, s) /\ ReplyInv(c, self, s, reqs) /\ AskInv(c, self, s, reqs)
      /\ self \in ClientType /\ ~self.wrong
  BY DEF ClientInv
<1>2. AskInv(c, new, s, reqs)
  BY <1>1 DEF AskInv
<1>3. StageInv(c, new, s)
  BY <1>1 DEF StageInv
<1>4. \A i \in DOMAIN Incoming(new) : Known(Incoming(new)[i], s.conns) /\ ~IsReply(Incoming(new)[i], c, s.conns)
  <2> TAKE i \in DOMAIN Incoming(new)
  <2>1. PICK j \in DOMAIN Incoming(self) : Incoming(new)[i] = Incoming(self)[j]
    OBVIOUS
  <2> QED BY <2>1, <1>1 DEF ReplyInv
<1>5. ReplyInv(c, new, s, reqs)
  BY <1>4 DEF ReplyInv
<1> QED BY <1>1, <1>2, <1>3, <1>5 DEF ClientInv

\* EventLoop::pump: the queue becomes the batch.
LEMMA PumpStep ==
  ASSUME NEW c \in Clients, NEW self, NEW new \in ClientType, NEW s \in ServerType, NEW reqs, NEW fds \in Seq(Items),
         ClientInv(c, self, s, reqs), self.st = "run", new.st = "run", self.batch = <<>>,
         \A i \in DOMAIN fds : fds[i].magic = 0,
         new.ret = self.ret, new.req = self.req, new.key = self.key, new.wrong = self.wrong, new.done = self.done,
         new.batch = self.queue \o fds, new.queue = <<>>,
         new.inbox = self.inbox, new.buf = self.buf, new.unread = self.unread
  PROVE  ClientInv(c, new, s, reqs)
<1> DEFINE k == s.conns[c]
           mid == [new EXCEPT !.batch = self.queue]
           in == Incoming(self)
<1>1. /\ LoopInv(c, self, s) /\ Holds(Coming(self, s), k, self.done, s.sent[c]) /\ self \in ClientType
  BY DEF ClientInv
<1>2. /\ self.batch \in Seq(Items) /\ self.queue \in Seq(Items) /\ in \in Seq(Items) /\ s.queue \in Seq(Items)
      /\ self.done \in Int /\ s.sent[c] \in Int
  BY <1>1, ClientTypes, ComingType, SMTT(30)
<1>3. /\ mid \in ClientType /\ mid.batch = self.queue /\ mid.queue = <<>>
      /\ mid.inbox = self.inbox /\ mid.buf = self.buf /\ mid.unread = self.unread
  BY <1>2 DEF ClientType
<1> HIDE DEF mid
<1>4. Incoming(mid) = in /\ Incoming(new) = in
  BY <1>3 DEF Incoming
<1>5. Coming(mid, s) = Coming(self, s)
  <2> DEFINE r == in \o s.queue
             t == self.queue \o r
  <2>1. r \in Seq(Items)
    BY <1>2, ConcatProperties
  <2>2. t \in Seq(Items)
    BY <1>2, <2>1, ConcatProperties
  <2>3. \A u \in Seq(Items) : <<>> \o u = u
    BY ConcatEmptySeq
  <2>4. Coming(self, s) = <<>> \o t
    BY DEF Coming
  <2>5. Coming(mid, s) = self.queue \o (<<>> \o r)
    BY <1>3, <1>4 DEF Coming
  <2> HIDE DEF r
  <2>6. <<>> \o r = r /\ <<>> \o t = t
    BY <2>1, <2>2, <2>3
  <2> QED BY <2>4, <2>5, <2>6
<1>6. Thin(self.queue, new.batch, Events(k))
  <2>1. \A i \in DOMAIN fds : fds[i] \notin Events(k)
    BY Ids DEF Events, IsEvent
  <2>2. Thin(<<>>, fds, Events(k)) /\ Thin(self.queue, self.queue, Events(k)) /\ <<>> \in Seq(Items)
    BY <1>2, <2>1, ThinAll, ThinItems
  <2>3. \A u, v, w, x \in Seq(Items) : Thin(u, v, Events(k)) /\ Thin(w, x, Events(k)) => Thin(u \o w, v \o x, Events(k))
    BY ThinConcat
  <2>4. Thin(self.queue \o <<>>, self.queue \o fds, Events(k))
    BY <1>2, <2>2, <2>3
  <2>5. self.queue \o <<>> = self.queue
    BY <1>2, ConcatEmptySeq
  <2> QED BY <2>4, <2>5
<1>7. /\ Thin(mid.batch, new.batch, Events(k)) /\ Thin(mid.queue, new.queue, Events(k))
      /\ Thin(Incoming(mid), Incoming(new), Events(k)) /\ Thin(s.queue, s.queue, Events(k))
  BY <1>2, <1>3, <1>4, <1>6, ThinItems, EmptySeq
<1>8. Holds(Coming(new, s), k, self.done, s.sent[c])
  <2> HIDE DEF k, in
  <2>1. Holds(Coming(mid, s), k, self.done, s.sent[c]) <=> Holds(Coming(new, s), k, self.done, s.sent[c])
    BY ONLY <1>2, <1>3, <1>7, ComingHolds, s \in ServerType, new \in ClientType
  <2> QED BY <1>1, <1>5, <2>1 DEF k
<1>9. LoopInv(c, new, s)
  <2>1. \A i \in DOMAIN new.batch : \/ i \in DOMAIN self.queue /\ new.batch[i] = self.queue[i]
                                    \/ \E j \in DOMAIN fds : new.batch[i] = fds[j]
    <3> DEFINE b == new.batch
    <3>1. b = self.queue \o fds /\ self.queue \in Seq(Items) /\ fds \in Seq(Items)
      BY <1>2
    <3> HIDE DEF b
    <3>2. \A i \in DOMAIN b : \/ i \in DOMAIN self.queue /\ b[i] = self.queue[i]
                              \/ \E j \in DOMAIN fds : b[i] = fds[j]
      BY ONLY <3>1, ConcatFront
    <3> QED BY <3>2 DEF b
  <2>2. \A i \in DOMAIN self.queue : self.queue[i].magic = 0 \/ (self.key # 0 /\ IsEvent(self.queue[i], self.key))
    BY <1>1 DEF LoopInv
  <2>3. \A i \in DOMAIN new.batch : new.batch[i].magic = 0 \/ (new.key # 0 /\ IsEvent(new.batch[i], new.key))
    BY <2>1, <2>2
  <2>4. DOMAIN new.queue = {}
    OBVIOUS
  <2> QED BY <2>3, <2>4 DEF LoopInv
<1> QED BY <1>4, <1>8, <1>9, LoopStep

\* The rest of the batch is the client's own, too.
LEMMA TailLoop ==
  ASSUME NEW c, NEW self \in ClientType, NEW s, LoopInv(c, self, s), self.batch # <<>>
  PROVE  \A i \in DOMAIN Tail(self.batch) :
           Tail(self.batch)[i].magic = 0 \/ (self.key # 0 /\ IsEvent(Tail(self.batch)[i], self.key))
<1>1. self.batch \in Seq(Items)
  BY ClientTypes
<1>2. \A i \in DOMAIN Tail(self.batch) : i + 1 \in DOMAIN self.batch /\ Tail(self.batch)[i] = self.batch[i + 1]
  BY <1>1, HeadTail
<1> QED BY <1>2 DEF LoopInv

\* A FDWaiterReadEvent: the connection begins to read.
LEMMA FdStep ==
  ASSUME NEW c \in Clients, NEW self, NEW new \in ClientType, NEW s \in ServerType, NEW reqs,
         ClientInv(c, self, s, reqs), self.st = "run", new.st = "run", self.batch # <<>>, Head(self.batch).magic = 0,
         new.ret = self.ret, new.req = self.req, new.key = self.key, new.wrong = self.wrong, new.done = self.done,
         new.batch = Tail(self.batch), new.queue = self.queue,
         new.inbox = self.inbox, new.buf = self.buf, new.unread = self.unread
  PROVE  ClientInv(c, new, s, reqs)
<1> DEFINE k == s.conns[c]
<1>1. /\ LoopInv(c, self, s) /\ Holds(Coming(self, s), k, self.done, s.sent[c]) /\ self \in ClientType
  BY DEF ClientInv
<1>2. /\ self.batch \in Seq(Items) /\ self.queue \in Seq(Items) /\ Incoming(self) \in Seq(Items) /\ s.queue \in Seq(Items)
      /\ self.done \in Int /\ s.sent[c] \in Int
  BY <1>1, ClientTypes, ComingType, SMTT(30)
<1>3. Head(self.batch) \notin Events(k)
  BY Ids DEF Events, IsEvent
<1>4. Thin(new.batch, self.batch, Events(k))
  BY <1>2, <1>3, ThinTail
<1>5. Incoming(new) = Incoming(self)
  BY DEF Incoming
<1>6. /\ Thin(new.queue, self.queue, Events(k)) /\ Thin(Incoming(new), Incoming(self), Events(k))
      /\ Thin(s.queue, s.queue, Events(k))
  BY <1>2, <1>5, ThinItems
<1>7. Holds(Coming(new, s), k, self.done, s.sent[c])
  <2> HIDE DEF k
  <2>1. Holds(Coming(new, s), k, self.done, s.sent[c]) <=> Holds(Coming(self, s), k, self.done, s.sent[c])
    BY ONLY <1>1, <1>2, <1>4, <1>6, ComingHolds, s \in ServerType, new \in ClientType
  <2> QED BY <1>1, <2>1 DEF k
<1>8. LoopInv(c, new, s)
  BY <1>1, TailLoop DEF LoopInv
<1> QED BY <1>5, <1>7, <1>8, LoopStep

\* receive_event of the connection: the events of the inbox go to the loop.
LEMMA CallStep ==
  ASSUME NEW c \in Clients, NEW self, NEW new \in ClientType, NEW s \in ServerType, NEW reqs, NEW I,
         ClientInv(c, self, s, reqs), self.st = "run", new.st = "run",
         I = {i \in DOMAIN self.inbox : IsEvent(self.inbox[i], self.key)},
         new.ret = self.ret, new.req = self.req, new.key = self.key, new.wrong = self.wrong, new.done = self.done,
         new.batch = self.batch, new.queue = self.queue \o Only(self.inbox, I),
         new.inbox = <<>>, new.buf = self.buf, new.unread = self.unread
  PROVE  ClientInv(c, new, s, reqs)
<1> DEFINE k == s.conns[c]
           r == self.buf \o self.unread
           x == self.inbox
           o == Only(x, I)
           mid == [new EXCEPT !.queue = self.queue \o self.inbox]
<1>1. /\ LoopInv(c, self, s) /\ StageInv(c, self, s) /\ Holds(Coming(self, s), k, self.done, s.sent[c])
      /\ self \in ClientType
  BY DEF ClientInv
<1>2. /\ self.batch \in Seq(Items) /\ self.queue \in Seq(Items) /\ x \in Seq(Items) /\ s.queue \in Seq(Items)
      /\ self.done \in Int /\ s.sent[c] \in Int /\ r \in Seq(Items)
  BY <1>1, ClientTypes, ComingType
<1>3. self.key # 0 /\ self.key = k
  BY <1>1 DEF StageInv
<1>4. I \in SUBSET DOMAIN x /\ \A j \in DOMAIN x : x[j] \in Events(k) => j \in I
  BY <1>3 DEF Events
<1>5. o \in Seq(Items) /\ Thin(o, x, Events(k)) /\ \A i \in DOMAIN o : \E j \in I : o[i] = x[j]
  <2>1. x \in Seq(Items)
    BY <1>2
  <2> HIDE DEF x, k
  <2> QED BY ONLY <2>1, <1>4, ThinOnly
<1>6. self.queue \o x \in Seq(Items)
  BY <1>2, ConcatProperties
<1>7. /\ mid \in ClientType /\ mid.batch = self.batch /\ mid.queue = self.queue \o x
      /\ mid.inbox = <<>> /\ mid.buf = self.buf /\ mid.unread = self.unread
  BY <1>6 DEF ClientType
<1> HIDE DEF mid
<1>8. Incoming(mid) = r /\ Incoming(new) = r /\ Incoming(self) = x \o r
  <2>1. <<>> \o r = r
    BY <1>2, ConcatEmptySeq
  <2> QED BY <1>7, <2>1 DEF Incoming
<1>9. Coming(mid, s) = Coming(self, s)
  <2>1. r \o s.queue \in Seq(Items)
    BY <1>2, ConcatProperties
  <2> DEFINE q == s.queue
             u == self.queue
             rq == r \o q
  <2>2. Coming(self, s) = self.batch \o (u \o ((x \o r) \o q)) /\ Coming(mid, s) = self.batch \o ((u \o x) \o rq)
    BY <1>7, <1>8 DEF Coming
  <2>3. u \in Seq(Items) /\ x \in Seq(Items) /\ r \in Seq(Items) /\ q \in Seq(Items) /\ rq \in Seq(Items)
    BY <1>2, <2>1
  <2> HIDE DEF x, r, q, u
  <2>4. (x \o r) \o q = x \o rq
    <3>1. x \in Seq(Items) /\ r \in Seq(Items) /\ q \in Seq(Items)
      BY <2>3
    <3> QED BY ONLY <3>1, Assoc, Zenon
  <2> HIDE DEF rq
  <2>5. (u \o x) \o rq = u \o (x \o rq)
    <3>1. u \in Seq(Items) /\ x \in Seq(Items) /\ rq \in Seq(Items)
      BY <2>3
    <3> QED BY ONLY <3>1, Assoc, Zenon
  <2> QED BY <2>2, <2>4, <2>5
<1>10. Thin(new.queue, mid.queue, Events(k))
  <2> HIDE DEF o, x, k
  <2>1. \A a, b, d, e \in Seq(Items) : Thin(a, b, Events(k)) /\ Thin(d, e, Events(k)) => Thin(a \o d, b \o e, Events(k))
    BY ThinConcat
  <2>2. Thin(self.queue, self.queue, Events(k))
    BY <1>2, ThinItems
  <2>3. Thin(self.queue \o o, self.queue \o x, Events(k))
    BY <1>2, <1>5, <2>1, <2>2
  <2> QED BY <2>3, <1>7 DEF o, x
<1>11. /\ Thin(new.batch, mid.batch, Events(k)) /\ Thin(Incoming(new), Incoming(mid), Events(k))
       /\ Thin(s.queue, s.queue, Events(k))
  BY <1>2, <1>7, <1>8, ThinItems
<1>12. Holds(Coming(new, s), k, self.done, s.sent[c])
  <2> HIDE DEF k, r, x
  <2>0. mid \in ClientType /\ self.done \in Int /\ s.sent[c] \in Int
    BY <1>2, <1>7
  <2>1. Holds(Coming(new, s), k, self.done, s.sent[c]) <=> Holds(Coming(mid, s), k, self.done, s.sent[c])
    BY ONLY <2>0, <1>10, <1>11, ComingHolds, s \in ServerType, new \in ClientType
  <2> QED BY <1>1, <1>9, <2>1 DEF k
<1>13. LoopInv(c, new, s)
  <2>1. \A i \in DOMAIN new.queue : \/ i \in DOMAIN self.queue /\ new.queue[i] = self.queue[i]
                                    \/ \E j \in DOMAIN o : new.queue[i] = o[j]
    <3> DEFINE b == new.queue
    <3>1. b = self.queue \o o /\ self.queue \in Seq(Items) /\ o \in Seq(Items)
      BY <1>2, <1>5
    <3> HIDE DEF b, o
    <3>2. \A i \in DOMAIN b : \/ i \in DOMAIN self.queue /\ b[i] = self.queue[i]
                              \/ \E j \in DOMAIN o : b[i] = o[j]
      BY ONLY <3>1, ConcatFront
    <3> QED BY <3>2 DEF b
  <2>2. \A i \in DOMAIN self.queue : self.queue[i].magic = 0 \/ (self.key # 0 /\ IsEvent(self.queue[i], self.key))
    BY <1>1 DEF LoopInv
  <2>3. \A j \in DOMAIN o : IsEvent(o[j], self.key)
    BY <1>5
  <2>4. \A i \in DOMAIN new.queue : new.queue[i].magic = 0 \/ (new.key # 0 /\ IsEvent(new.queue[i], new.key))
    <3> HIDE DEF o
    <3> QED BY <1>3, <2>1, <2>2, <2>3
  <2> QED BY <1>1, <2>4 DEF LoopInv
<1>14. \A i \in DOMAIN Incoming(new) : \E j \in DOMAIN Incoming(self) : Incoming(new)[i] = Incoming(self)[j]
  <2> DEFINE w == x \o r
  <2> HIDE DEF x, r
  <2>1. w = x \o r
    OBVIOUS
  <2> HIDE DEF w
  <2>2. \A i \in DOMAIN r : Len(x) + i \in DOMAIN w /\ w[Len(x) + i] = r[i]
    BY ONLY <1>2, <2>1, ConcatFront
  <2> QED BY <1>8, <2>1, <2>2
<1> QED BY <1>12, <1>13, <1>14, LoopStep

\* An event is handled by the window.
LEMMA EventStep ==
  ASSUME NEW c \in Clients, NEW self, NEW new \in ClientType, NEW s \in ServerType, NEW reqs,
         ClientInv(c, self, s, reqs), self.st = "run", new.st = "run", self.batch # <<>>, Head(self.batch).magic # 0,
         new.ret = self.ret, new.req = self.req, new.key = self.key, new.wrong = self.wrong, new.done = self.done + 1,
         new.batch = Tail(self.batch), new.queue = self.queue,
         new.inbox = self.inbox, new.buf = self.buf, new.unread = self.unread
  PROVE  ClientInv(c, new, s, reqs)
<1> DEFINE k == s.conns[c]
           b == self.batch
           t == self.queue \o (Incoming(self) \o s.queue)
<1>1. /\ LoopInv(c, self, s) /\ Holds(Coming(self, s), k, self.done, s.sent[c]) /\ self \in ClientType
      /\ StageInv(c, self, s)
  BY DEF ClientInv
<1>2. /\ b \in Seq(Items) /\ t \in Seq(Items) /\ self.done \in Int /\ s.sent[c] \in Int
      /\ Coming(self, s) \in Seq(Items)
  BY <1>1, ClientTypes, ComingType
<1>3. Incoming(new) = Incoming(self)
  BY DEF Incoming
<1>4. Coming(self, s) = b \o t /\ Coming(new, s) = Tail(b) \o t
  BY <1>3 DEF Coming
<1>5. 1 \in DOMAIN b /\ b # <<>> /\ Head(b) = b[1]
  BY <1>2
<1>6. IsEvent(b[1], k)
  BY <1>1, <1>5 DEF LoopInv, StageInv
<1> HIDE DEF b, t
<1>7. Tail(b \o t) = Tail(b) \o t /\ b \o t # <<>> /\ (b \o t)[1] = b[1]
  BY <1>2, <1>5, HeadTail
<1>8. Holds(Tail(Coming(self, s)), k, self.done + 1, s.sent[c])
  <2> DEFINE w == Coming(self, s)
  <2>1. w \in Seq(Items) /\ w # <<>> /\ IsEvent(w[1], k) /\ Holds(w, k, self.done, s.sent[c])
    BY <1>1, <1>2, <1>4, <1>6, <1>7
  <2> HIDE DEF w
  <2>2. Holds(Tail(w), k, self.done + 1, s.sent[c])
    BY <1>2, <2>1, HoldsTail
  <2> QED BY <2>2 DEF w
<1>9. Holds(Coming(new, s), k, new.done, s.sent[c])
  BY <1>4, <1>7, <1>8
<1>10. LoopInv(c, new, s)
  BY <1>1, TailLoop DEF LoopInv, b
<1> QED BY <1>3, <1>9, <1>10, LoopStep

-----------------------------------------------------------------------------
\* What the steps of the server do to a client.

\* A client that gets one more message, as the server's write leaves it.
Grown(self, m) == [self EXCEPT !.unread = @ \o <<m>>]

\* Nothing else of the client changes.
LEMMA GrownFields ==
  ASSUME NEW self \in ClientType, NEW m \in Items
  PROVE  /\ Grown(self, m) \in ClientType
         /\ Grown(self, m).st = self.st /\ Grown(self, m).ret = self.ret /\ Grown(self, m).key = self.key
         /\ Grown(self, m).req = self.req /\ Grown(self, m).done = self.done /\ Grown(self, m).wrong = self.wrong
         /\ Grown(self, m).batch = self.batch /\ Grown(self, m).queue = self.queue
         /\ Grown(self, m).inbox = self.inbox /\ Grown(self, m).buf = self.buf
         /\ Grown(self, m).unread = self.unread \o <<m>>
<1>1. self.unread \in Seq(Items) /\ <<m>> \in Seq(Items)
  BY ClientTypes
<1>2. self.unread \o <<m>> \in Seq(Items)
  BY <1>1, ConcatProperties
<1> QED BY <1>2 DEF Grown, ClientType

\* The message comes after all that is on its way.
LEMMA GrownIncoming ==
  ASSUME NEW self \in ClientType, NEW m \in Items, NEW in, NEW w, in = Incoming(self), w = Incoming(Grown(self, m))
  PROVE  /\ w = in \o <<m>> /\ in \in Seq(Items) /\ w \in Seq(Items) /\ Len(in) \in Nat /\ DOMAIN in = 1 .. Len(in)
         /\ \A i \in DOMAIN in : i \in DOMAIN w /\ w[i] = in[i]
         /\ Len(in) + 1 \in DOMAIN w /\ w[Len(in) + 1] = m
         /\ \A i \in DOMAIN w : i \in DOMAIN in \/ i = Len(in) + 1
<1> DEFINE u == self.unread
           b == self.buf
           x == self.inbox
           l == <<m>>
<1>1. u \in Seq(Items) /\ b \in Seq(Items) /\ x \in Seq(Items) /\ l \in Seq(Items)
  BY ClientTypes
<1>2. w = x \o (b \o (u \o l)) /\ in = x \o (b \o u)
  BY GrownFields DEF Incoming
<1> HIDE DEF u, b, x
<1>3. w = in \o l
  <2> HIDE DEF l
  <2>1. b \o u \in Seq(Items)
    BY <1>1, ConcatProperties
  <2>2. (b \o u) \o l = b \o (u \o l)
    <3>1. b \in Seq(Items) /\ u \in Seq(Items) /\ l \in Seq(Items)
      BY <1>1
    <3> QED BY ONLY <3>1, Assoc, Zenon
  <2> DEFINE v == b \o u
  <2> HIDE DEF v
  <2>3. (x \o v) \o l = x \o (v \o l)
    <3>1. x \in Seq(Items) /\ v \in Seq(Items) /\ l \in Seq(Items)
      BY <1>1, <2>1 DEF v
    <3> QED BY ONLY <3>1, Assoc, Zenon
  <2> QED BY <1>2, <2>2, <2>3 DEF v
<1>4. in \in Seq(Items) /\ w \in Seq(Items)
  BY ClientTypes, GrownFields
<1>5. Len(l) = 1 /\ DOMAIN l = 1 .. 1 /\ l[1] = m
  OBVIOUS
<1>6. /\ DOMAIN w = 1 .. Len(w) /\ Len(w) = Len(in) + Len(l) /\ Len(in) \in Nat
      /\ \A i \in DOMAIN in : i \in DOMAIN w /\ w[i] = in[i]
      /\ \A i \in DOMAIN l : Len(in) + i \in DOMAIN w /\ w[Len(in) + i] = l[i]
      /\ \A i \in DOMAIN w : i \notin DOMAIN in => i - Len(in) \in DOMAIN l
  <2> HIDE DEF l
  <2> QED BY <1>1, <1>3, <1>4, ConcatFront
<1>7. DOMAIN in = 1 .. Len(in)
  BY <1>4
<1> QED BY <1>3, <1>4, <1>5, <1>6, <1>7

\* What every step of a client that only reads more keeps.
LEMMA GrownStep ==
  ASSUME NEW c \in Clients, NEW self, NEW s \in ServerType, NEW reqs, NEW m \in Items, NEW reqs2,
         ClientInv(c, self, s, reqs), self.st \in Running
  PROVE  /\ Grown(self, m) \in ClientType /\ ~Grown(self, m).wrong
         /\ Grown(self, m).st = self.st /\ Grown(self, m).req = self.req /\ Grown(self, m).done = self.done
         /\ AskKey(c, Grown(self, m)) = AskKey(c, self)
         /\ StageInv(c, Grown(self, m), s) /\ LoopInv(c, Grown(self, m), s)
         /\ AskInv(c, self, s, reqs2) => AskInv(c, Grown(self, m), s, reqs2)
<1> DEFINE g == Grown(self, m)
<1>1. self \in ClientType /\ ~self.wrong /\ self.st # "done" /\ self.st # "off"
  BY DEF ClientInv, Running
<1>2. StageInv(c, self, s) /\ LoopInv(c, self, s)
  BY <1>1 DEF ClientInv
<1>3. /\ g \in ClientType /\ g.st = self.st /\ g.ret = self.ret /\ g.key = self.key
      /\ g.req = self.req /\ g.done = self.done /\ g.wrong = self.wrong /\ g.batch = self.batch /\ g.queue = self.queue
  BY <1>1, GrownFields
<1> HIDE DEF g
<1>4. AskKey(c, g) = AskKey(c, self)
  BY <1>3 DEF AskKey
<1>5. AskInv(c, self, s, reqs2) => AskInv(c, g, s, reqs2)
  BY <1>3, <1>4 DEF AskInv
<1>6. StageInv(c, g, s)
  BY <1>1, <1>2, <1>3 DEF StageInv
<1>7. LoopInv(c, g, s)
  BY <1>2, <1>3 DEF LoopInv
<1> QED BY <1>1, <1>3, <1>4, <1>5, <1>6, <1>7 DEF g

\* A reply holds no event.
LEMMA GrownHolds ==
  ASSUME NEW c \in Clients, NEW self \in ClientType, NEW s \in ServerType, NEW m \in Items, m.magic = Server,
         Holds(Coming(self, s), s.conns[c], self.done, s.sent[c])
  PROVE  Holds(Coming(Grown(self, m), s), s.conns[c], self.done, s.sent[c])
<1> DEFINE g == Grown(self, m)
           k == s.conns[c]
           l == <<m>>
<1>1. /\ g \in ClientType /\ g.batch = self.batch /\ g.queue = self.queue
      /\ Incoming(g) = Incoming(self) \o l
  BY GrownFields, GrownIncoming
<1> HIDE DEF g
<1>2. /\ self.batch \in Seq(Items) /\ self.queue \in Seq(Items) /\ Incoming(self) \in Seq(Items) /\ s.queue \in Seq(Items)
      /\ self.done \in Int /\ s.sent[c] \in Int /\ l \in Seq(Items) /\ <<>> \in Seq(Items)
  BY ClientTypes, ComingType
<1>3. Thin(<<>>, l, Events(k))
  BY Ids, ThinNone DEF Events, IsEvent
<1>4. Thin(Incoming(self), Incoming(g), Events(k))
  <2> DEFINE in == Incoming(self)
  <2> HIDE DEF in, l, k
  <2>1. \A a, b, d, e \in Seq(Items) : Thin(a, b, Events(k)) /\ Thin(d, e, Events(k)) => Thin(a \o d, b \o e, Events(k))
    BY ThinConcat
  <2>2. in \in Seq(Items)
    BY <1>2 DEF in
  <2>3. Thin(in \o <<>>, in \o l, Events(k))
    BY <1>2, <1>3, <2>1, <2>2, ThinItems
  <2>4. in \o <<>> = in
    BY <2>2, ConcatEmptySeq
  <2> QED BY <1>1, <2>3, <2>4 DEF in
<1>5. /\ Thin(self.batch, g.batch, Events(k)) /\ Thin(self.queue, g.queue, Events(k)) /\ Thin(s.queue, s.queue, Events(k))
  BY <1>1, <1>2, ThinItems
<1> HIDE DEF k, l
<1>6. Holds(Coming(self, s), k, self.done, s.sent[c]) <=> Holds(Coming(g, s), k, self.done, s.sent[c])
  <2>1. g \in ClientType /\ self.done \in Int /\ s.sent[c] \in Int
    BY <1>1, <1>2
  <2> QED BY ONLY <2>1, <1>4, <1>5, ComingHolds, s \in ServerType, self \in ClientType
<1> QED BY <1>6 DEF k, g

\* A reply to another client is read, too, and changes nothing.
LEMMA OtherReply ==
  ASSUME NEW c \in Clients, NEW self, NEW s \in ServerType, NEW reqs, NEW m \in Items,
         ClientInv(c, self, s, reqs), self.st \in Running,
         m.magic = Server, Known(m, s.conns), ~IsReply(m, c, s.conns)
  PROVE  ClientInv(c, Grown(self, m), s, reqs)
<1> DEFINE in == Incoming(self)
           w == Incoming(Grown(self, m))
           g == Grown(self, m)
<1>1. self \in ClientType /\ self.st # "done"
  BY DEF ClientInv, Running
<1>2. /\ AskInv(c, self, s, reqs) /\ ReplyInv(c, self, s, reqs)
      /\ Holds(Coming(self, s), s.conns[c], self.done, s.sent[c])
  BY <1>1 DEF ClientInv
<1>3. /\ w = in \o <<m>> /\ in \in Seq(Items) /\ w \in Seq(Items) /\ Len(in) \in Nat /\ DOMAIN in = 1 .. Len(in)
      /\ \A i \in DOMAIN in : i \in DOMAIN w /\ w[i] = in[i]
      /\ Len(in) + 1 \in DOMAIN w /\ w[Len(in) + 1] = m
      /\ \A i \in DOMAIN w : i \in DOMAIN in \/ i = Len(in) + 1
  BY <1>1, GrownIncoming
<1>4. /\ g \in ClientType /\ ~g.wrong /\ g.st = self.st /\ g.req = self.req /\ g.done = self.done
      /\ AskKey(c, g) = AskKey(c, self) /\ StageInv(c, g, s) /\ LoopInv(c, g, s) /\ AskInv(c, g, s, reqs)
  BY <1>2, GrownStep
<1>5. Holds(Coming(g, s), s.conns[c], g.done, s.sent[c])
  BY <1>1, <1>2, <1>4, GrownHolds
<1> HIDE DEF g
<1>6. ~IsEvent(m, s.conns[c])
  BY Ids DEF IsEvent
<1>7. \A i \in DOMAIN w : \/ i \in DOMAIN in /\ w[i] = in[i]
                          \/ w[i] = m
  BY <1>3
<1>8. ReplyInv(c, g, s, reqs)
  <2> HIDE DEF in, w
  <2>1. /\ \A i \in DOMAIN in : Known(in[i], s.conns)
        /\ \A i \in DOMAIN in : IsReply(in[i], c, s.conns) =>
             /\ self.st = "wait" /\ Pending(c, reqs) = {}
             /\ in[i].id = self.req.reply_id /\ in[i].key = AskKey(c, self)
             /\ self.req = GreetMessage => in[i].n = s.conns[c] /\ s.conns[c] # 0
        /\ \A i, j \in DOMAIN in : IsReply(in[i], c, s.conns) /\ IsReply(in[j], c, s.conns) => i = j
        /\ self.st = "wait" /\ self.req = CreateWindowMessage /\ Pending(c, reqs) = {} =>
             \E i \in DOMAIN in : /\ IsReply(in[i], c, s.conns)
                                  /\ \A j \in DOMAIN in : IsEvent(in[j], s.conns[c]) => i < j
    BY <1>2 DEF ReplyInv, in
  <2>2. \A i \in DOMAIN w : Known(w[i], s.conns)
    BY <1>7, <2>1
  <2>3. \A i \in DOMAIN w : IsReply(w[i], c, s.conns) => i \in DOMAIN in /\ w[i] = in[i]
    BY <1>7
  <2>4. \A i \in DOMAIN w : IsEvent(w[i], s.conns[c]) => i \in DOMAIN in /\ w[i] = in[i]
    BY <1>6, <1>7
  <2>5. self.st = "wait" /\ self.req = CreateWindowMessage /\ Pending(c, reqs) = {} =>
             \E i \in DOMAIN w : /\ IsReply(w[i], c, s.conns)
                                 /\ \A j \in DOMAIN w : IsEvent(w[j], s.conns[c]) => i < j
    BY <1>3, <2>1, <2>4
  <2> QED BY <1>4, <2>1, <2>2, <2>3, <2>5 DEF ReplyInv, w, g
<1> QED BY <1>4, <1>5, <1>8 DEF ClientInv, g

\* The reply to the request of a client.
LEMMA OwnReply ==
  ASSUME NEW c \in Clients, NEW self, NEW s \in ServerType, NEW reqs, NEW reqs2, NEW m \in Items,
         ClientInv(c, self, s, reqs), self.st = "wait", Pending(c, reqs2) = {},
         \A i \in DOMAIN Incoming(self) : ~IsReply(Incoming(self)[i], c, s.conns),
         m.magic = Server, m.key = AskKey(c, self), m.id = self.req.reply_id,
         self.req = GreetMessage => m.n = s.conns[c] /\ s.conns[c] # 0,
         self.req = CreateWindowMessage => s.sent[c] = 0
  PROVE  ClientInv(c, Grown(self, m), s, reqs2)
<1> DEFINE in == Incoming(self)
           w == Incoming(Grown(self, m))
           g == Grown(self, m)
<1>1. self \in ClientType /\ self.st # "done" /\ self.st \in Running
  BY DEF ClientInv, Running
<1>2. /\ ReplyInv(c, self, s, reqs) /\ Holds(Coming(self, s), s.conns[c], self.done, s.sent[c]) /\ StageInv(c, self, s)
  BY <1>1 DEF ClientInv
<1>3. /\ w = in \o <<m>> /\ in \in Seq(Items) /\ w \in Seq(Items) /\ Len(in) \in Nat /\ DOMAIN in = 1 .. Len(in)
      /\ \A i \in DOMAIN in : i \in DOMAIN w /\ w[i] = in[i]
      /\ Len(in) + 1 \in DOMAIN w /\ w[Len(in) + 1] = m
      /\ \A i \in DOMAIN w : i \in DOMAIN in \/ i = Len(in) + 1
  BY <1>1, GrownIncoming
<1>4. AskInv(c, self, s, reqs2)
  BY DEF AskInv
<1>5. /\ g \in ClientType /\ ~g.wrong /\ g.st = self.st /\ g.req = self.req /\ g.done = self.done
      /\ AskKey(c, g) = AskKey(c, self) /\ StageInv(c, g, s) /\ LoopInv(c, g, s) /\ AskInv(c, g, s, reqs2)
  BY <1>1, <1>4, GrownStep
<1>6. Holds(Coming(g, s), s.conns[c], g.done, s.sent[c])
  BY <1>1, <1>2, <1>5, GrownHolds
<1> HIDE DEF g
<1>7. /\ m.key \in {c, s.conns[c]} /\ IsReply(m, c, s.conns) /\ ~IsEvent(m, s.conns[c]) /\ Known(m, s.conns)
  <2>1. m.key \in {c, s.conns[c]}
    BY <1>2 DEF AskKey, StageInv
  <2>2. m.key = c \/ (m.key = s.conns[c] /\ s.conns[c] # 0)
    BY <1>2 DEF AskKey, StageInv
  <2> QED BY <2>1, <2>2, Ids DEF IsReply, IsEvent, Known, Connected
<1>8. \A i \in DOMAIN w : \/ i \in DOMAIN in /\ w[i] = in[i]
                          \/ i = Len(in) + 1 /\ w[i] = m
  BY <1>3
<1>9. ReplyInv(c, g, s, reqs2)
  <2>0. self.req = CreateWindowMessage => \A j \in DOMAIN in : ~IsEvent(in[j], s.conns[c])
    BY <1>1, <1>2, NoneSent
  <2>1. \A i \in DOMAIN in : Known(in[i], s.conns) /\ ~IsReply(in[i], c, s.conns)
    BY <1>2 DEF ReplyInv
  <2> HIDE DEF in, w
  <2>2. \A i \in DOMAIN w : Known(w[i], s.conns)
    BY <1>7, <1>8, <2>1
  <2>3. \A i \in DOMAIN w : IsReply(w[i], c, s.conns) => i = Len(in) + 1 /\ w[i] = m
    BY <1>8, <2>1
  <2>4. \A j \in DOMAIN w : self.req = CreateWindowMessage => ~IsEvent(w[j], s.conns[c])
    BY <1>7, <1>8, <2>0
  <2> QED BY <1>3, <1>5, <1>7, <2>2, <2>3, <2>4 DEF ReplyInv, w, g
<1> QED BY <1>5, <1>6, <1>9 DEF ClientInv, g

\* The first of the queued events is written to a client that runs.
LEMMA SendStep ==
  ASSUME NEW c \in Clients, NEW self, NEW s \in ServerType, NEW t \in ServerType, NEW reqs, NEW m,
         ClientInv(c, self, s, reqs), self.st \in Running, QueuedInv(s),
         s.queue # <<>>, m = Head(s.queue), t.queue = Tail(s.queue),
         t.conns = s.conns, t.wins = s.wins, t.sent = s.sent
  PROVE  ClientInv(c, Grown(self, m), t, reqs)
<1> DEFINE in == Incoming(self)
           w == Incoming(Grown(self, m))
           g == Grown(self, m)
           k == s.conns[c]
<1>0. s.queue \in Seq(Items)
  BY DEF ServerType
<1>1. /\ s.queue = <<m>> \o Tail(s.queue) /\ m \in Items /\ Tail(s.queue) \in Seq(Items) /\ m = s.queue[1]
      /\ 1 \in DOMAIN s.queue
  BY <1>0, HeadTail
<1>2. m.magic = Client /\ EventTo(m, s.conns) /\ Known(m, s.conns) /\ ~IsReply(m, c, s.conns)
  BY <1>1, Ids DEF QueuedInv, Known, IsReply
<1>3. self \in ClientType /\ self.st # "done"
  BY DEF ClientInv, Running
<1>4. /\ AskInv(c, self, s, reqs) /\ ReplyInv(c, self, s, reqs) /\ Holds(Coming(self, s), k, self.done, s.sent[c])
  BY <1>3 DEF ClientInv
<1>5. /\ w = in \o <<m>> /\ in \in Seq(Items) /\ w \in Seq(Items) /\ Len(in) \in Nat /\ DOMAIN in = 1 .. Len(in)
      /\ \A i \in DOMAIN in : i \in DOMAIN w /\ w[i] = in[i]
      /\ Len(in) + 1 \in DOMAIN w /\ w[Len(in) + 1] = m
      /\ \A i \in DOMAIN w : i \in DOMAIN in \/ i = Len(in) + 1
  BY <1>1, <1>3, GrownIncoming
<1>6. /\ g \in ClientType /\ ~g.wrong /\ g.st = self.st /\ g.req = self.req /\ g.done = self.done
      /\ AskKey(c, g) = AskKey(c, self) /\ StageInv(c, g, s) /\ LoopInv(c, g, s) /\ AskInv(c, g, s, reqs)
  BY <1>1, <1>4, GrownStep
<1>7. g.batch = self.batch /\ g.queue = self.queue
  BY <1>1, <1>3, GrownFields
<1> HIDE DEF g
<1>8. Coming(g, t) = Coming(self, s)
  <2> DEFINE l == <<m>>
             q == Tail(s.queue)
  <2>1. in \in Seq(Items) /\ l \in Seq(Items) /\ q \in Seq(Items) /\ w = in \o l /\ s.queue = l \o q
    BY <1>1, <1>5
  <2>2. Coming(g, t) = self.batch \o (self.queue \o (w \o q)) /\ Coming(self, s) = self.batch \o (self.queue \o (in \o s.queue))
    BY <1>7 DEF Coming, g
  <2> HIDE DEF in, l, q, w
  <2>3. (in \o l) \o q = in \o (l \o q)
    BY <2>1, Assoc
  <2> QED BY <2>1, <2>2, <2>3
<1>9. \A i \in DOMAIN w : \/ i \in DOMAIN in /\ w[i] = in[i]
                          \/ i = Len(in) + 1 /\ w[i] = m
  BY <1>5
<1>10. ReplyInv(c, g, s, reqs)
  <2> HIDE DEF in, w
  <2>1. /\ \A i \in DOMAIN in : Known(in[i], s.conns)
        /\ \A i \in DOMAIN in : IsReply(in[i], c, s.conns) =>
             /\ self.st = "wait" /\ Pending(c, reqs) = {}
             /\ in[i].id = self.req.reply_id /\ in[i].key = AskKey(c, self)
             /\ self.req = GreetMessage => in[i].n = s.conns[c] /\ s.conns[c] # 0
        /\ \A i, j \in DOMAIN in : IsReply(in[i], c, s.conns) /\ IsReply(in[j], c, s.conns) => i = j
        /\ self.st = "wait" /\ self.req = CreateWindowMessage /\ Pending(c, reqs) = {} =>
             \E i \in DOMAIN in : /\ IsReply(in[i], c, s.conns)
                                  /\ \A j \in DOMAIN in : IsEvent(in[j], s.conns[c]) => i < j
    BY <1>4 DEF ReplyInv, in
  <2>2. \A i \in DOMAIN w : Known(w[i], s.conns)
    BY <1>2, <1>9, <2>1
  <2>3. \A i \in DOMAIN w : IsReply(w[i], c, s.conns) => i \in DOMAIN in /\ w[i] = in[i]
    BY <1>2, <1>9
  <2>4. \A i \in DOMAIN in : i < Len(in) + 1 /\ i \in DOMAIN w /\ w[i] = in[i]
    BY <1>5
  <2>5. self.st = "wait" /\ self.req = CreateWindowMessage /\ Pending(c, reqs) = {} =>
             \E i \in DOMAIN w : /\ IsReply(w[i], c, s.conns)
                                 /\ \A j \in DOMAIN w : IsEvent(w[j], s.conns[c]) => i < j
    BY <1>9, <2>1, <2>4
  <2> QED BY <1>6, <2>1, <2>2, <2>3, <2>5 DEF ReplyInv, w, g
<1>11. AskInv(c, g, t, reqs) /\ StageInv(c, g, t) /\ ReplyInv(c, g, t, reqs) /\ LoopInv(c, g, t)
  BY <1>6, <1>10 DEF AskInv, StageInv, ReplyInv, LoopInv
<1>12. Holds(Coming(g, t), t.conns[c], g.done, t.sent[c])
  BY <1>4, <1>6, <1>8
<1> QED BY <1>6, <1>11, <1>12 DEF ClientInv, g

\* The event that is written is none of a client that is not there.
LEMMA SendOff ==
  ASSUME NEW c \in Clients, NEW self, NEW s \in ServerType, NEW t \in ServerType, NEW reqs,
         ClientInv(c, self, s, reqs), self.st \notin Running, QueuedInv(s), s.queue # <<>>, t.queue = Tail(s.queue),
         t.conns = s.conns, t.wins = s.wins, t.sent = s.sent
  PROVE  ClientInv(c, self, t, reqs)
<1> DEFINE k == s.conns[c]
<1>0. s.queue \in Seq(Items)
  BY DEF ServerType
<1>1. Head(s.queue) = s.queue[1] /\ 1 \in DOMAIN s.queue
  BY <1>0, HeadTail
<1>2. self \in ClientType /\ ~self.wrong /\ AskInv(c, self, t, reqs)
  BY DEF ClientInv, AskInv
<1>3. CASE self.st = "done"
  BY <1>2, <1>3 DEF ClientInv
<1>4. CASE self.st = "off"
  <2>1. /\ StageInv(c, self, s) /\ ReplyInv(c, self, s, reqs) /\ LoopInv(c, self, s)
        /\ Holds(Coming(self, s), k, self.done, s.sent[c])
    BY <1>4 DEF ClientInv
  <2>2. k = 0
    BY <1>4, <2>1 DEF StageInv
  <2>3. Head(s.queue) \notin Events(k)
    BY <1>1, <2>2 DEF QueuedInv, EventTo, Connected, Events, IsEvent
  <2>4. Thin(t.queue, s.queue, Events(k))
    BY <1>0, <2>3, ThinTail
  <2>5. /\ self.batch \in Seq(Items) /\ self.queue \in Seq(Items) /\ Incoming(self) \in Seq(Items)
        /\ self.done \in Int /\ s.sent[c] \in Int
    BY <1>2, ClientTypes, ComingType
  <2>6. /\ Thin(self.batch, self.batch, Events(k)) /\ Thin(self.queue, self.queue, Events(k))
        /\ Thin(Incoming(self), Incoming(self), Events(k))
    BY <2>5, ThinItems
  <2>7. Holds(Coming(self, t), k, self.done, s.sent[c])
    <3> HIDE DEF k
    <3>1. self \in ClientType /\ self.done \in Int /\ s.sent[c] \in Int
      BY <1>2, <2>5
    <3>2. Holds(Coming(self, t), k, self.done, s.sent[c]) <=> Holds(Coming(self, s), k, self.done, s.sent[c])
      BY ONLY <3>1, <2>4, <2>6, ComingHolds, s \in ServerType, t \in ServerType
    <3> QED BY <2>1, <3>2 DEF k
  <2>8. StageInv(c, self, t) /\ ReplyInv(c, self, t, reqs) /\ LoopInv(c, self, t)
    BY <2>1 DEF StageInv, ReplyInv, LoopInv
  <2> QED BY <1>2, <2>7, <2>8 DEF ClientInv
<1> QED BY <1>2, <1>3, <1>4 DEF ClientType, Running

\* The request that is handled is removed.
LEMMA DropRequest ==
  ASSUME NEW c, NEW self, NEW s, NEW reqs \in Seq(Items), reqs # <<>>, ClientInv(c, self, s, reqs),
         reqs[1].n = c => self.req # CreateWindowMessage
  PROVE  ClientInv(c, self, s, Tail(reqs))
<1>1. \A i \in DOMAIN Tail(reqs) : i + 1 \in DOMAIN reqs /\ Tail(reqs)[i] = reqs[i + 1]
  BY HeadTail
<1>2. \A i \in Pending(c, Tail(reqs)) : i + 1 \in Pending(c, reqs) /\ Tail(reqs)[i] = reqs[i + 1] /\ i \in Nat
  BY <1>1 DEF Pending
<1>3. AskInv(c, self, s, reqs)
  BY DEF ClientInv
<1>4. AskInv(c, self, s, Tail(reqs))
  <2>1. \A i, j \in Pending(c, Tail(reqs)) : i = j
    <3> TAKE i, j \in Pending(c, Tail(reqs))
    <3>1. i + 1 = j + 1 /\ i \in Nat /\ j \in Nat
      BY <1>2, <1>3 DEF AskInv
    <3> QED BY <3>1
  <2>2. ASSUME NEW i \in Pending(c, Tail(reqs))
        PROVE  /\ self.st = "wait" /\ Tail(reqs)[i].id = self.req.id /\ Tail(reqs)[i].key = AskKey(c, self)
               /\ self.req = GreetMessage => s.conns[c] = 0
               /\ self.req = CreateWindowMessage => s.sent[c] = 0 /\ c \notin s.wins
    <3>1. i + 1 \in Pending(c, reqs) /\ Tail(reqs)[i] = reqs[i + 1]
      BY <1>2
    <3> QED BY <3>1, <1>3 DEF AskInv
  <2> QED BY <2>1, <2>2 DEF AskInv
<1>5. CASE self.st = "done"
  BY <1>4, <1>5 DEF ClientInv
<1>6. CASE self.st # "done"
  <2>1. ReplyInv(c, self, s, reqs)
    BY <1>6 DEF ClientInv
  <2>2. Pending(c, reqs) = {} => Pending(c, Tail(reqs)) = {}
    BY <1>2
  <2>3. reqs[1].n # c /\ Pending(c, Tail(reqs)) = {} => Pending(c, reqs) = {}
    <3> SUFFICES ASSUME reqs[1].n # c, NEW i \in Pending(c, reqs) PROVE Pending(c, Tail(reqs)) # {}
      OBVIOUS
    <3>1. i \in 2 .. Len(reqs) /\ Len(reqs) \in Nat /\ reqs[i].n = c
      BY DEF Pending
    <3>2. i - 1 \in DOMAIN Tail(reqs)
      BY <3>1
    <3>3. Tail(reqs)[i - 1] = reqs[i]
      BY <3>1, <3>2, <1>1
    <3> QED BY <3>1, <3>2, <3>3 DEF Pending
  <2>4. ReplyInv(c, self, s, Tail(reqs))
    BY <2>1, <2>2, <2>3 DEF ReplyInv
  <2> QED BY <1>4, <2>4 DEF ClientInv
<1> QED BY <1>5, <1>6

\* It was the only request of its client.
LEMMA Handled ==
  ASSUME NEW c, NEW self, NEW s, NEW reqs \in Seq(Items), reqs # <<>>, AskInv(c, self, s, reqs), reqs[1].n = c
  PROVE  /\ Pending(c, Tail(reqs)) = {} /\ 1 \in Pending(c, reqs)
<1>1. \A i \in DOMAIN Tail(reqs) : i + 1 \in DOMAIN reqs /\ Tail(reqs)[i] = reqs[i + 1] /\ i \in Nat /\ i # 0
  BY HeadTail
<1>2. 1 \in Pending(c, reqs)
  BY DEF Pending
<1>3. ASSUME NEW i \in Pending(c, Tail(reqs)) PROVE FALSE
  <2>1. i + 1 \in Pending(c, reqs) /\ i \in Nat /\ i # 0
    BY <1>1 DEF Pending
  <2>2. i + 1 = 1
    BY <1>2, <2>1 DEF AskInv
  <2> QED BY <2>1, <2>2
<1> QED BY <1>2, <1>3

\* Another window opens or closes, or that of a client without a pending new_window.
LEMMA WinsStep ==
  ASSUME NEW c \in Clients, NEW self, NEW s, NEW t, NEW reqs, ClientInv(c, self, s, reqs),
         t.conns = s.conns, t.sent = s.sent, t.queue = s.queue,
         c \in t.wins => c \in s.wins \/ (Pending(c, reqs) = {} /\ self.req # GreetMessage)
  PROVE  ClientInv(c, self, t, reqs)
BY DEF ClientInv, AskInv, StageInv, ReplyInv, LoopInv, Coming

\* What send_event queues.
Sent(s, c, ids) == [i \in DOMAIN ids |-> Item(Client, ids[i], s.conns[c], s.sent[c] + i)]

\* The events that send_event queues.
LEMMA SentFields ==
  ASSUME NEW s \in ServerType, NEW d \in Clients, NEW ids \in Seq(Nat), NEW u, u = Sent(s, d, ids)
  PROVE  /\ u \in Seq(Items) /\ DOMAIN u = 1 .. Len(ids) /\ Len(u) = Len(ids)
         /\ \A i \in DOMAIN u : /\ i \in DOMAIN ids /\ u[i].magic = Client /\ u[i].id = ids[i]
                               /\ u[i].key = s.conns[d] /\ u[i].n = s.sent[d] + i
<1>1. s.sent \in [Clients -> Nat] /\ s.conns \in [Clients -> Nat]
  BY DEF ServerType
<1>2. DOMAIN ids = 1 .. Len(ids) /\ Len(ids) \in Nat /\ \A i \in DOMAIN ids : ids[i] \in Nat
  OBVIOUS
<1>3. \A i \in DOMAIN ids : u[i] = Item(Client, ids[i], s.conns[d], s.sent[d] + i) /\ u[i] \in Items
  <2>1. s.conns[d] \in Nat /\ s.sent[d] \in Nat /\ Client \in Nat
    BY <1>1, Ids
  <2> TAKE i \in DOMAIN ids
  <2>2. ids[i] \in Nat /\ s.sent[d] + i \in Nat
    BY <1>2, <2>1
  <2>3. u[i] = Item(Client, ids[i], s.conns[d], s.sent[d] + i)
    BY DEF Sent
  <2> QED BY <2>1, <2>2, <2>3 DEF Item, Items
<1>4. DOMAIN u = 1 .. Len(ids) /\ u \in Seq(Items) /\ Len(u) = Len(ids)
  <2>1. u = [i \in 1 .. Len(ids) |-> u[i]]
    BY <1>2 DEF Sent
  <2>2. u \in [1 .. Len(ids) -> Items]
    BY <1>2, <1>3, <2>1
  <2> QED BY ONLY <1>2, <2>2
<1>5. \A i \in DOMAIN u : i \in DOMAIN ids /\ u[i].magic = Client /\ u[i].id = ids[i] /\ u[i].key = s.conns[d]
                          /\ u[i].n = s.sent[d] + i
  BY ONLY <1>2, <1>3, <1>4 DEF Item
<1> QED BY ONLY <1>4, <1>5

\* The state of the server after send_event.
LEMMA QueueFields ==
  ASSUME NEW s \in ServerType, NEW d \in Clients, NEW ids \in Seq(Nat), NEW t, t = Queue(s, d, ids)
  PROVE  /\ t \in ServerType /\ t.conns = s.conns /\ t.wins = s.wins /\ t.buf = s.buf /\ t.reading = s.reading
         /\ t.queue = s.queue \o Sent(s, d, ids)
         /\ \A c \in Clients : t.sent[c] = IF c = d THEN s.sent[d] + Len(ids) ELSE s.sent[c]
<1> DEFINE u == Sent(s, d, ids)
<1>1. s.queue \in Seq(Items) /\ s.sent \in [Clients -> Nat] /\ Len(ids) \in Nat
  BY DEF ServerType
<1>2. u \in Seq(Items)
  BY SentFields
<1>3. t = [s EXCEPT !.queue = @ \o u, !.sent[d] = @ + Len(ids)]
  BY DEF Queue, Sent
<1> HIDE DEF u
<1>4. s.queue \o u \in Seq(Items)
  BY <1>1, <1>2, ConcatProperties
<1>5. [s.sent EXCEPT ![d] = @ + Len(ids)] \in [Clients -> Nat]
  BY <1>1
<1>6. /\ t \in ServerType /\ t.conns = s.conns /\ t.wins = s.wins /\ t.buf = s.buf /\ t.reading = s.reading
      /\ t.queue = s.queue \o u /\ t.sent = [s.sent EXCEPT ![d] = @ + Len(ids)]
  BY <1>3, <1>4, <1>5 DEF ServerType
<1>7. \A c \in Clients : t.sent[c] = IF c = d THEN s.sent[d] + Len(ids) ELSE s.sent[c]
  BY <1>1, <1>6
<1> QED BY <1>6, <1>7 DEF u

\* The events that are queued come last for their client.
LEMMA QueueOwn ==
  ASSUME NEW s \in ServerType, NEW d \in Clients, NEW ids \in Seq(Nat), NEW t, t = Queue(s, d, ids), NEW self, NEW reqs,
         ClientInv(d, self, s, reqs), ConnsInv(s), d \in s.wins
  PROVE  ClientInv(d, self, t, reqs)
<1> DEFINE u == Sent(s, d, ids)
           k == s.conns[d]
           q == s.queue
<1>1. /\ t \in ServerType /\ t.conns = s.conns /\ t.wins = s.wins /\ t.queue = q \o u /\ u \in Seq(Items)
      /\ Len(u) = Len(ids) /\ t.sent[d] = s.sent[d] + Len(ids)
      /\ \A i \in DOMAIN u : IsEvent(u[i], k) /\ u[i].n = s.sent[d] + i
  BY QueueFields, SentFields DEF IsEvent
<1>2. k # 0
  BY DEF ConnsInv
<1>3. self \in ClientType /\ ~self.wrong /\ AskInv(d, self, s, reqs)
  BY DEF ClientInv
<1>4. AskInv(d, self, t, reqs)
  BY <1>1, <1>3 DEF AskInv
<1>5. CASE self.st = "done"
  BY <1>3, <1>4, <1>5 DEF ClientInv
<1>6. CASE self.st # "done"
  <2>1. /\ StageInv(d, self, s) /\ ReplyInv(d, self, s, reqs) /\ LoopInv(d, self, s)
        /\ Holds(Coming(self, s), k, self.done, s.sent[d])
    BY <1>6 DEF ClientInv
  <2>2. StageInv(d, self, t) /\ ReplyInv(d, self, t, reqs) /\ LoopInv(d, self, t)
    BY <1>1, <1>2, <2>1 DEF StageInv, ReplyInv, LoopInv
  <2> DEFINE w == Coming(self, s)
             x == Incoming(self)
             y == self.queue
             z == self.batch
  <2>3. /\ w \in Seq(Items) /\ self.done \in Int /\ s.sent[d] \in Int /\ x \in Seq(Items) /\ y \in Seq(Items)
        /\ z \in Seq(Items) /\ q \in Seq(Items) /\ x \o q \in Seq(Items) /\ y \o (x \o q) \in Seq(Items)
    BY <1>3, ClientTypes, ComingType
  <2>4. w = z \o (y \o (x \o q)) /\ Coming(self, t) = z \o (y \o (x \o (q \o u)))
    BY <1>1 DEF Coming
  <2> HIDE DEF w, x, y, z, q, u, k
  <2>5. Coming(self, t) = w \o u
    <3>0. u \in Seq(Items) /\ x \in Seq(Items) /\ y \in Seq(Items) /\ z \in Seq(Items) /\ q \in Seq(Items)
      BY <1>1, <2>3
    <3>1. x \o (q \o u) = (x \o q) \o u
      <4>1. x \in Seq(Items) /\ q \in Seq(Items) /\ u \in Seq(Items)
        BY <3>0
      <4> QED BY ONLY <4>1, Assoc, Zenon
    <3> DEFINE xq == x \o q
    <3>2. xq \in Seq(Items) /\ y \o xq \in Seq(Items)
      BY <2>3
    <3>2a. xq \in Seq(Items)
      BY <3>2
    <3> HIDE DEF xq
    <3>3. y \o (xq \o u) = (y \o xq) \o u
      <4>1. y \in Seq(Items) /\ xq \in Seq(Items) /\ u \in Seq(Items)
        BY <3>0, <3>2a
      <4> QED BY ONLY <4>1, Assoc, Zenon
    <3> DEFINE yq == y \o xq
    <3>4. yq \in Seq(Items)
      BY <3>2
    <3> HIDE DEF yq
    <3>5. z \o (yq \o u) = (z \o yq) \o u
      <4>1. z \in Seq(Items) /\ yq \in Seq(Items) /\ u \in Seq(Items)
        BY <3>0, <3>4
      <4> QED BY ONLY <4>1, Assoc, Zenon
    <3> QED BY <2>4, <3>1, <3>3, <3>5 DEF xq, yq
  <2>6. Holds(w, k, self.done, s.sent[d])
    BY <2>1 DEF w, k
  <2>7. \A i \in DOMAIN u : IsEvent(u[i], k) /\ u[i].n = s.sent[d] + i
    BY <1>1
  <2>8. Holds(w \o u, k, self.done, s.sent[d] + Len(u))
    <3> DEFINE a == self.done
               b == s.sent[d]
    <3>1. w \in Seq(Items) /\ u \in Seq(Items) /\ a \in Int /\ b \in Int /\ Holds(w, k, a, b)
          /\ \A i \in DOMAIN u : IsEvent(u[i], k) /\ u[i].n = b + i
      BY <1>1, <2>3, <2>6, <2>7
    <3> HIDE DEF a, b
    <3>2. Holds(w \o u, k, a, b + Len(u))
      BY ONLY <3>1, HoldsMore
    <3> QED BY <3>2 DEF a, b
  <2>9. Holds(Coming(self, t), t.conns[d], self.done, t.sent[d])
    BY <1>1, <2>5, <2>8 DEF k
  <2> QED BY <1>3, <1>4, <2>2, <2>9 DEF ClientInv
<1> QED BY <1>5, <1>6

\* They are none of the other clients.
LEMMA QueueOther ==
  ASSUME NEW s \in ServerType, NEW d \in Clients, NEW ids \in Seq(Nat), NEW t, t = Queue(s, d, ids), NEW self, NEW reqs,
         NEW c \in Clients, c # d, ClientInv(c, self, s, reqs), ConnsInv(s), d \in s.wins
  PROVE  ClientInv(c, self, t, reqs)
<1> DEFINE u == Sent(s, d, ids)
           k == s.conns[c]
           q == s.queue
<1>1. /\ t \in ServerType /\ t.conns = s.conns /\ t.wins = s.wins /\ t.queue = q \o u /\ u \in Seq(Items)
      /\ t.sent[c] = s.sent[c]
      /\ \A i \in DOMAIN u : u[i].key = s.conns[d]
  <2>0. s \in ServerType /\ d \in Clients /\ ids \in Seq(Nat) /\ t = Queue(s, d, ids)
    OBVIOUS
  <2>1. \A e \in Clients : t.sent[e] = IF e = d THEN s.sent[d] + Len(ids) ELSE s.sent[e]
    BY ONLY <2>0, QueueFields
  <2>2. t.sent[c] = s.sent[c]
    BY <2>1
  <2>3. u \in Seq(Items) /\ \A i \in DOMAIN u : u[i].key = s.conns[d]
    <3>1. u = Sent(s, d, ids)
      OBVIOUS
    <3> HIDE DEF u
    <3> QED BY ONLY <2>0, <3>1, SentFields
  <2>4. t \in ServerType /\ t.conns = s.conns /\ t.wins = s.wins
    BY ONLY <2>0, QueueFields
  <2>5. t.queue = q \o u
    BY ONLY <2>0, QueueFields
  <2> QED BY <2>2, <2>3, <2>4, <2>5
<1>2. s.conns[d] # 0 /\ s.conns[d] # k
  BY DEF ConnsInv
<1>3. self \in ClientType /\ ~self.wrong /\ AskInv(c, self, s, reqs)
  BY DEF ClientInv
<1>4. AskInv(c, self, t, reqs)
  BY <1>1, <1>3 DEF AskInv
<1>5. CASE self.st = "done"
  BY <1>3, <1>4, <1>5 DEF ClientInv
<1>6. CASE self.st # "done"
  <2>1. /\ StageInv(c, self, s) /\ ReplyInv(c, self, s, reqs) /\ LoopInv(c, self, s)
        /\ Holds(Coming(self, s), k, self.done, s.sent[c])
    BY <1>6 DEF ClientInv
  <2>2. StageInv(c, self, t) /\ ReplyInv(c, self, t, reqs) /\ LoopInv(c, self, t)
    BY <1>1, <2>1 DEF StageInv, ReplyInv, LoopInv
  <2>3. /\ self.batch \in Seq(Items) /\ self.queue \in Seq(Items) /\ Incoming(self) \in Seq(Items)
        /\ self.done \in Int /\ s.sent[c] \in Int /\ q \in Seq(Items)
    BY <1>3, ClientTypes, ComingType
  <2>4. \A i \in DOMAIN u : u[i] \notin Events(k)
    BY <1>1, <1>2 DEF Events, IsEvent
  <2>5. Thin(s.queue, t.queue, Events(k))
    <3> HIDE DEF u, k
    <3>1. Thin(<<>>, u, Events(k)) /\ Thin(q, q, Events(k)) /\ <<>> \in Seq(Items)
      BY <1>1, <2>3, <2>4, ThinAll, ThinItems
    <3>2. \A a, b, e, f \in Seq(Items) : Thin(a, b, Events(k)) /\ Thin(e, f, Events(k)) => Thin(a \o e, b \o f, Events(k))
      BY ThinConcat
    <3>3. Thin(q \o <<>>, q \o u, Events(k))
      BY <1>1, <2>3, <3>1, <3>2
    <3> QED BY <1>1, <2>3, <3>3, ConcatEmptySeq
  <2>6. /\ Thin(self.batch, self.batch, Events(k)) /\ Thin(self.queue, self.queue, Events(k))
        /\ Thin(Incoming(self), Incoming(self), Events(k))
    BY <2>3, ThinItems
  <2>7. Holds(Coming(self, t), k, self.done, s.sent[c])
    <3> HIDE DEF k, u, q
    <3>1. self \in ClientType /\ t \in ServerType /\ self.done \in Int /\ s.sent[c] \in Int
      BY <1>1, <1>3, <2>3
    <3>2. Holds(Coming(self, s), k, self.done, s.sent[c]) <=> Holds(Coming(self, t), k, self.done, s.sent[c])
      BY ONLY <3>1, <2>5, <2>6, ComingHolds, s \in ServerType
    <3> QED BY <2>1, <3>2 DEF k
  <2>8. Holds(Coming(self, t), t.conns[c], self.done, t.sent[c])
    BY <1>1, <2>7
  <2> QED BY <1>3, <1>4, <2>2, <2>8 DEF ClientInv
<1> QED BY <1>5, <1>6

\* send_event keeps the invariant of every client and of the server.
LEMMA QueueStep ==
  ASSUME NEW s \in ServerType, NEW d \in Clients, NEW ids \in Seq(Nat), NEW t, t = Queue(s, d, ids),
         NEW reqs, ServerInv(s, reqs), d \in s.wins, \A i \in DOMAIN ids : ids[i] \in EventIds(d)
  PROVE  /\ ServerInv(t, reqs) /\ t.buf = s.buf /\ t.wins = s.wins /\ t.conns = s.conns
         /\ \A c \in Clients : \A self : ClientInv(c, self, s, reqs) => ClientInv(c, self, t, reqs)
<1> DEFINE u == Sent(s, d, ids)
           q == s.queue
<1>1. /\ t \in ServerType /\ t.conns = s.conns /\ t.wins = s.wins /\ t.queue = q \o u /\ u \in Seq(Items)
      /\ \A i \in DOMAIN u : i \in DOMAIN ids /\ u[i].magic = Client /\ u[i].key = s.conns[d] /\ u[i].id = ids[i]
      /\ t.buf = s.buf
  <2>1. s \in ServerType /\ d \in Clients /\ ids \in Seq(Nat) /\ t = Queue(s, d, ids) /\ u = Sent(s, d, ids)
    OBVIOUS
  <2>2. t \in ServerType /\ t.conns = s.conns /\ t.wins = s.wins /\ t.queue = q \o Sent(s, d, ids) /\ t.buf = s.buf
    BY ONLY <2>1, QueueFields
  <2> HIDE DEF u
  <2>3. /\ u \in Seq(Items)
        /\ \A i \in DOMAIN u : i \in DOMAIN ids /\ u[i].magic = Client /\ u[i].key = s.conns[d] /\ u[i].id = ids[i]
    BY ONLY <2>1, SentFields
  <2> QED BY <2>1, <2>2, <2>3
<1>2. ConnsInv(s) /\ QueuedInv(s) /\ s.conns[d] # 0 /\ q \in Seq(Items)
  BY DEF ServerInv, ConnsInv, ServerType
<1>3. ConnsInv(t)
  BY <1>1, <1>2 DEF ConnsInv
<1>4. QueuedInv(t)
  <2>1. \A i \in DOMAIN u : u[i].magic = Client /\ EventTo(u[i], s.conns)
    BY <1>1, <1>2 DEF EventTo, Connected
  <2> DEFINE w == t.queue
  <2>2. w = q \o u
    BY <1>1
  <2> HIDE DEF u, w, q
  <2>3. \A i \in DOMAIN w : \/ i \in DOMAIN q /\ w[i] = q[i]
                            \/ \E j \in DOMAIN u : w[i] = u[j]
    BY ONLY <1>1, <1>2, <2>2, ConcatFront
  <2>4. \A i \in DOMAIN q : q[i].magic = Client /\ EventTo(q[i], s.conns)
    BY <1>2 DEF QueuedInv, q
  <2>5. \A i \in DOMAIN w : w[i].magic = Client /\ EventTo(w[i], s.conns)
    BY <2>1, <2>3, <2>4
  <2> QED BY <1>1, <2>5 DEF QueuedInv, w
<1>5. ServerInv(t, reqs)
  BY <1>1, <1>3, <1>4 DEF ServerInv
<1>6. \A c \in Clients : \A self : ClientInv(c, self, s, reqs) => ClientInv(c, self, t, reqs)
  BY <1>2, QueueOwn, QueueOther
<1> QED BY <1>1, <1>5, <1>6

\* A new connection has an id of its own.
LEMMA GreetConns ==
  ASSUME NEW s \in ServerType, NEW t \in ServerType, NEW e \in Clients, NEW n, ConnsInv(s), QueuedInv(s), s.conns[e] = 0,
         n = Cardinality(Connected(s.conns)) + 1, t.conns[e] = n,
         \A c \in Clients : c # e => t.conns[c] = s.conns[c],
         t.wins = s.wins, t.sent = s.sent, t.queue = s.queue, n \notin Clients
  PROVE  /\ n \in Nat /\ n # 0 /\ \A c \in Clients : s.conns[c] # n /\ c # n
         /\ \A m : EventTo(m, s.conns) => EventTo(m, t.conns)
         /\ \A m : Known(m, s.conns) => Known(m, t.conns)
         /\ ConnsInv(t) /\ QueuedInv(t)
<1> DEFINE C == Connected(s.conns)
           D == Connected(t.conns)
<1>1. s.conns \in [Clients -> Nat]
  BY DEF ServerType
<1>2. IsFiniteSet(Clients) /\ C \subseteq Clients /\ e \notin C
  BY IpcAssumption DEF Connected
<1>3. IsFiniteSet(C) /\ Cardinality(C) \in Nat
  BY <1>2, FS_Subset, FS_CardinalityType
<1>4. n \in Nat /\ n # 0
  BY <1>3
<1>5. t.conns[e] = n /\ \A c \in Clients : c # e => t.conns[c] = s.conns[c]
  OBVIOUS
<1>6. D = C \cup {e}
  BY <1>4, <1>5 DEF Connected
<1>7. Cardinality(D) = n
  <2> HIDE DEF C, D
  <2>1. Cardinality(C \cup {e}) = Cardinality(C) + 1
    BY <1>2, <1>3, FS_AddElement
  <2> QED BY <1>6, <2>1 DEF C
<1>8. \A c \in Clients : s.conns[c] \in Nat /\ s.conns[c] <= Cardinality(C)
  BY <1>1 DEF ConnsInv
<1>9. \A c \in Clients : s.conns[c] # n /\ s.conns[c] <= n
  <2> HIDE DEF C
  <2> QED BY <1>3, <1>8 DEF C
<1>10. \A c \in Clients : c # n
  OBVIOUS
<1>11. \A m : EventTo(m, s.conns) => EventTo(m, t.conns)
  <2>1. \A c \in C : c \in D /\ t.conns[c] = s.conns[c]
    BY <1>2, <1>5, <1>6
  <2> QED BY <2>1 DEF EventTo
<1>12. \A m : Known(m, s.conns) => Known(m, t.conns)
  <2>1. \A c \in C : c \in D /\ t.conns[c] = s.conns[c]
    BY <1>2, <1>5, <1>6
  <2> QED BY <1>11, <2>1 DEF Known
<1>13. ConnsInv(t)
  <2>1. \A c, d \in Clients : t.conns[c] = t.conns[d] /\ t.conns[c] # 0 => c = d
    BY <1>5, <1>9 DEF ConnsInv
  <2>2. \A c \in Clients : t.conns[c] <= Cardinality(D)
    BY <1>4, <1>5, <1>7, <1>9
  <2>3. \A c \in s.wins : c \in Clients /\ t.conns[c] # 0
    BY <1>4, <1>5 DEF ConnsInv, ServerType
  <2>4. t.conns[Dock] # 0
    BY <1>4, <1>5, IpcAssumption DEF ConnsInv
  <2>5. Apart(t.conns)
    BY <1>5, <1>10 DEF ConnsInv, Apart
  <2> QED BY <2>1, <2>2, <2>3, <2>4, <2>5 DEF ConnsInv
<1>14. QueuedInv(t)
  BY <1>11 DEF QueuedInv
<1> QED BY <1>4, <1>5, <1>9, <1>10, <1>11, <1>12, <1>13, <1>14

\* It is not the business of the other clients.
LEMMA GreetOther ==
  ASSUME NEW s, NEW t, NEW c, NEW self, NEW reqs, ClientInv(c, self, s, reqs),
         t.conns[c] = s.conns[c], t.wins = s.wins, t.sent = s.sent, t.queue = s.queue,
         \A m : Known(m, s.conns) => Known(m, t.conns)
  PROVE  ClientInv(c, self, t, reqs)
<1>1. AskInv(c, self, t, reqs)
  BY DEF ClientInv, AskInv
<1>2. self.st # "done" => StageInv(c, self, t)
  BY DEF ClientInv, StageInv
<1>3. \A m : IsReply(m, c, t.conns) <=> IsReply(m, c, s.conns)
  BY DEF IsReply
<1>4. self.st # "done" => ReplyInv(c, self, t, reqs)
  BY <1>3 DEF ClientInv, ReplyInv
<1>5. self.st # "done" => LoopInv(c, self, t)
  BY DEF ClientInv, LoopInv
<1> QED BY <1>1, <1>2, <1>4, <1>5 DEF ClientInv, Coming

\* For the client that greets: nothing on its way has the new id.
LEMMA GreetOwn ==
  ASSUME NEW s \in ServerType, NEW t \in ServerType, NEW c \in Clients, NEW self, NEW reqs, NEW n, QueuedInv(s),
         ClientInv(c, self, s, reqs), self.st = "wait", self.req = GreetMessage, Pending(c, reqs) = {},
         t.conns[c] = n, t.wins = s.wins, t.sent = s.sent, t.queue = s.queue, n # 0,
         \A d \in Clients : s.conns[d] # n /\ d # n,
         \A m : Known(m, s.conns) => Known(m, t.conns),
         \A i \in DOMAIN Incoming(self) : ~IsReply(Incoming(self)[i], c, s.conns)
  PROVE  /\ ClientInv(c, self, t, reqs)
         /\ \A i \in DOMAIN Incoming(self) : ~IsReply(Incoming(self)[i], c, t.conns)
<1> DEFINE in == Incoming(self)
           w == Coming(self, t)
           q == s.queue
           y == self.queue
           z == self.batch
<1>1. self \in ClientType /\ ~self.wrong
  BY DEF ClientInv
<1>2. /\ StageInv(c, self, s) /\ ReplyInv(c, self, s, reqs) /\ LoopInv(c, self, s)
      /\ Holds(Coming(self, s), s.conns[c], self.done, s.sent[c])
  BY DEF ClientInv
<1>3. /\ in \in Seq(Items) /\ y \in Seq(Items) /\ z \in Seq(Items) /\ q \in Seq(Items) /\ w \in Seq(Items)
      /\ in \o q \in Seq(Items) /\ y \o (in \o q) \in Seq(Items)
      /\ s.sent[c] \in Nat /\ self.done \in Nat /\ w = z \o (y \o (in \o q))
  BY <1>1, ClientTypes, ComingType DEF Coming
<1>4. self.key = 0 /\ s.sent[c] = 0
  BY <1>2 DEF StageInv
<1>5. self.done = 0
  BY <1>2, <1>3, <1>4, HoldsDef
<1>6. \A m : Known(m, s.conns) => m.key # n
  BY DEF Known, EventTo, Connected
<1>7. \A i \in DOMAIN in : Known(in[i], s.conns) /\ in[i].key # n
  BY <1>2, <1>6 DEF ReplyInv
<1>8. \A i \in DOMAIN in : ~IsReply(in[i], c, t.conns)
  BY <1>7 DEF IsReply
<1>9. \A i \in DOMAIN q : ~IsEvent(q[i], n)
  BY DEF QueuedInv, EventTo, Connected, IsEvent
<1>10. \A i \in DOMAIN z : ~IsEvent(z[i], n)
  BY <1>2, <1>4, Ids DEF LoopInv, IsEvent
<1>11. \A i \in DOMAIN y : ~IsEvent(y[i], n)
  BY <1>2, <1>4, Ids DEF LoopInv, IsEvent
<1>12. \A i \in DOMAIN in : ~IsEvent(in[i], n)
  BY <1>7 DEF IsEvent
<1>13. ASSUME NEW a \in Seq(Items), NEW b \in Seq(Items), NEW u, u = a \o b,
              \A i \in DOMAIN a : ~IsEvent(a[i], n), \A i \in DOMAIN b : ~IsEvent(b[i], n)
       PROVE  \A i \in DOMAIN u : ~IsEvent(u[i], n)
  BY <1>13, ConcatFront
<1>14. \A i \in DOMAIN w : ~IsEvent(w[i], n)
  <2> DEFINE v == in \o q
             x == y \o v
  <2>1. v \in Seq(Items) /\ x \in Seq(Items) /\ w = z \o x /\ v = in \o q /\ x = y \o v
    BY <1>3
  <2> HIDE DEF v, x, w, in, q, y, z
  <2>2. \A i \in DOMAIN v : ~IsEvent(v[i], n)
    BY <1>3, <1>9, <1>12, <1>13, <2>1
  <2>3. \A i \in DOMAIN x : ~IsEvent(x[i], n)
    BY <1>3, <1>11, <1>13, <2>1, <2>2
  <2> QED BY <1>3, <1>10, <1>13, <2>1, <2>3
<1>15. Holds(w, n, 0, 0)
  <2>1. w \in Seq(Items)
    BY <1>3
  <2> HIDE DEF w
  <2> QED BY <1>14, <2>1, HoldsNone
<1>16. Holds(Coming(self, t), t.conns[c], self.done, t.sent[c])
  BY <1>4, <1>5, <1>15
<1>17. AskInv(c, self, t, reqs)
  BY DEF AskInv
<1>18. StageInv(c, self, t) /\ LoopInv(c, self, t)
  BY <1>2, <1>4 DEF StageInv, LoopInv
<1>19. ReplyInv(c, self, t, reqs)
  <2>1. GreetMessage # CreateWindowMessage
    BY Ids
  <2> QED BY <1>7, <1>8, <2>1 DEF ReplyInv
<1> QED BY <1>1, <1>8, <1>16, <1>17, <1>18, <1>19 DEF ClientInv

\* The client whose request is the first.
LEMMA Asker ==
  ASSUME NEW s \in ServerType, NEW reqs \in Seq(Items), NEW e \in Clients, NEW self, reqs # <<>>, reqs[1].n = e,
         ClientInv(e, self, s, reqs), NEW r \in Requests, reqs[1].id = r.id
  PROVE  /\ self.st = "wait" /\ self.req = r /\ reqs[1].key = AskKey(e, self) /\ self \in ClientType
         /\ Pending(e, Tail(reqs)) = {} /\ StageInv(e, self, s) /\ ReplyInv(e, self, s, reqs)
         /\ self.req = GreetMessage => s.conns[e] = 0
         /\ self.req = CreateWindowMessage => s.sent[e] = 0 /\ e \notin s.wins
         /\ \A i \in DOMAIN Incoming(self) : ~IsReply(Incoming(self)[i], e, s.conns)
<1>1. self \in ClientType /\ AskInv(e, self, s, reqs)
  BY DEF ClientInv
<1>2. Pending(e, Tail(reqs)) = {} /\ 1 \in Pending(e, reqs)
  BY <1>1, Handled
<1>3. /\ self.st = "wait" /\ reqs[1].id = self.req.id /\ reqs[1].key = AskKey(e, self)
      /\ self.req = GreetMessage => s.conns[e] = 0
      /\ self.req = CreateWindowMessage => s.sent[e] = 0 /\ e \notin s.wins
  BY <1>1, <1>2 DEF AskInv
<1>4. self.req = r
  BY <1>1, <1>3, ClientTypes, RequestById
<1>5. StageInv(e, self, s) /\ ReplyInv(e, self, s, reqs)
  BY <1>3 DEF ClientInv
<1>6. \A i \in DOMAIN Incoming(self) : ~IsReply(Incoming(self)[i], e, s.conns)
  BY <1>2, <1>5 DEF ReplyInv
<1> QED BY <1>1, <1>2, <1>3, <1>4, <1>5, <1>6

\* The key of a request tells who asked.
LEMMA AskerKey ==
  ASSUME NEW s \in ServerType, NEW reqs \in Seq(Items), NEW e \in Clients, NEW self, reqs # <<>>, reqs[1].n = e,
         ClientInv(e, self, s, reqs), NEW r \in Requests, reqs[1].id = r.id, r # GreetMessage, ConnsInv(s)
  PROVE  /\ reqs[1].key = s.conns[e] /\ s.conns[e] # 0
         /\ \A c \in Clients : c # e => s.conns[e] \notin {c, s.conns[c]}
<1>1. self.st = "wait" /\ self.req = r /\ reqs[1].key = AskKey(e, self) /\ StageInv(e, self, s)
  BY Asker
<1>2. reqs[1].key = s.conns[e] /\ s.conns[e] # 0
  BY <1>1 DEF AskKey, StageInv
<1> QED BY <1>2, KeyNoPid DEF ConnsInv

\* The others read the reply, too.
LEMMA ReplyOthers ==
  ASSUME NEW s \in ServerType, NEW reqs \in Seq(Items), NEW e \in Clients, reqs # <<>>, reqs[1].n = e, ConnsInv(s),
         NEW r \in Requests, reqs[1].id = r.id, r # GreetMessage,
         NEW m \in Items, m.magic = Server, m.id = r.reply_id, m.key = reqs[1].key,
         NEW self, ClientInv(e, self, s, reqs),
         NEW c \in Clients, NEW o, c # e, ClientInv(c, o, s, reqs)
  PROVE  /\ o.st \in Running => ClientInv(c, Grown(o, m), s, Tail(reqs))
         /\ ClientInv(c, o, s, Tail(reqs))
<1>1. m.key = s.conns[e] /\ s.conns[e] # 0 /\ s.conns[e] \notin {c, s.conns[c]}
  BY AskerKey
<1>2. Known(m, s.conns) /\ ~IsReply(m, c, s.conns)
  BY <1>1 DEF Known, Connected, IsReply
<1>3. ClientInv(c, o, s, Tail(reqs))
  BY DropRequest
<1> QED BY <1>2, <1>3, OtherReply

\* The server handles a greeting.
LEMMA GreetStep ==
  ASSUME NEW s \in ServerType, NEW t \in ServerType, NEW reqs \in Seq(Items), NEW e \in Clients, reqs # <<>>,
         reqs[1].n = e, ConnsInv(s), QueuedInv(s), reqs[1].id = GreetMessage.id,
         NEW n, n = Cardinality(Connected(s.conns)) + 1, t.conns = [s.conns EXCEPT ![reqs[1].key] = n],
         t.wins = s.wins, t.sent = s.sent, t.queue = s.queue, n \notin Clients,
         NEW m, m = Item(Server, GreetMessage.reply_id, reqs[1].key, n), NEW self, ClientInv(e, self, s, reqs)
  PROVE  /\ m \in Items /\ reqs[1].key = e /\ ConnsInv(t) /\ QueuedInv(t)
         /\ self.st = "wait" /\ ClientInv(e, Grown(self, m), t, Tail(reqs))
         /\ \A c \in Clients : \A o : c # e /\ ClientInv(c, o, s, reqs) =>
              /\ o.st \in Running => ClientInv(c, Grown(o, m), t, Tail(reqs))
              /\ ClientInv(c, o, t, Tail(reqs))
<1>0. GreetMessage \in Requests /\ GreetMessage # CreateWindowMessage
  BY Ids DEF Requests
<1>1. /\ self.st = "wait" /\ self.req = GreetMessage /\ reqs[1].key = AskKey(e, self) /\ Pending(e, Tail(reqs)) = {}
      /\ s.conns[e] = 0
      /\ \A i \in DOMAIN Incoming(self) : ~IsReply(Incoming(self)[i], e, s.conns)
  BY <1>0, Asker
<1>2. reqs[1].key = e
  BY <1>1 DEF AskKey
<1>3. /\ n \in Nat /\ n # 0 /\ \A c \in Clients : s.conns[c] # n /\ c # n
      /\ t.conns[e] = n /\ \A c \in Clients : c # e => t.conns[c] = s.conns[c]
      /\ \A x : Known(x, s.conns) => Known(x, t.conns)
      /\ ConnsInv(t) /\ QueuedInv(t)
  <2>0. s.conns \in [Clients -> Nat]
    BY DEF ServerType
  <2>1. t.conns[e] = n /\ (\A c \in Clients : c # e => t.conns[c] = s.conns[c]) /\ s.conns[e] = 0
    BY <1>1, <1>2, <2>0
  <2>2. s \in ServerType /\ t \in ServerType /\ e \in Clients /\ ConnsInv(s) /\ QueuedInv(s)
        /\ n = Cardinality(Connected(s.conns)) + 1 /\ t.wins = s.wins /\ t.sent = s.sent /\ t.queue = s.queue
        /\ n \notin Clients
    OBVIOUS
  <2> QED BY ONLY <2>1, <2>2, GreetConns
<1>4. m \in Items /\ m.magic = Server /\ m.key = e /\ m.id = GreetMessage.reply_id /\ m.n = n
  <2>1. Server \in Nat /\ GreetMessage.reply_id \in Nat /\ e \in Nat
    BY Ids, IpcAssumption
  <2> QED BY <1>2, <1>3, <2>1 DEF Item, Items
<1>5. ClientInv(e, self, s, Tail(reqs))
  BY <1>0, <1>1, DropRequest
<1>6. /\ ClientInv(e, self, t, Tail(reqs))
      /\ \A i \in DOMAIN Incoming(self) : ~IsReply(Incoming(self)[i], e, t.conns)
  BY <1>1, <1>3, <1>5, GreetOwn
<1>7. ClientInv(e, Grown(self, m), t, Tail(reqs))
  <2>1. AskKey(e, self) = e
    BY <1>1 DEF AskKey
  <2> QED BY <1>0, <1>1, <1>3, <1>4, <1>6, <2>1, OwnReply
<1>8. Known(m, t.conns)
  BY <1>4 DEF Known
<1>9. ASSUME NEW c \in Clients, NEW o, c # e, ClientInv(c, o, s, reqs)
      PROVE  /\ o.st \in Running => ClientInv(c, Grown(o, m), t, Tail(reqs))
             /\ ClientInv(c, o, t, Tail(reqs))
  <2>1. ClientInv(c, o, s, Tail(reqs))
    BY <1>9, DropRequest
  <2>2. ClientInv(c, o, t, Tail(reqs))
    BY <1>3, <1>9, <2>1, GreetOther
  <2>3. ~IsReply(m, c, t.conns)
    BY <1>3, <1>4, <1>9, KeyNoPid DEF IsReply
  <2> QED BY <1>4, <1>8, <2>2, <2>3, OtherReply
<1> QED BY <1>1, <1>2, <1>3, <1>4, <1>7, <1>9

-----------------------------------------------------------------------------
\* The actions.

\* What is known in a state of the invariant.
LEMMA Parts ==
  ASSUME IpcInv
  PROVE  /\ srv \in ServerType /\ c2s \in Seq(Items) /\ srv.buf \in Seq(Items) /\ srv.buf \o c2s \in Seq(Items)
         /\ ConnsInv(srv) /\ QueuedInv(srv)
         /\ cl \in [Clients -> ClientType]
         /\ \A c \in Clients : cl[c] \in ClientType /\ ClientInv(c, cl[c], srv, srv.buf \o c2s)
BY DEF IpcInv, ServerInv, ServerType

\* A step of one client that asks for nothing.
LEMMA OneClient ==
  ASSUME IpcInv, NEW c \in Clients, NEW new, cl' = [cl EXCEPT ![c] = new], UNCHANGED <<srv, c2s>>,
         ClientInv(c, new, srv, srv.buf \o c2s)
  PROVE  IpcInv'
<1>1. new \in ClientType
  BY DEF ClientInv
<1>2. cl' \in [Clients -> ClientType]
  BY <1>1, Parts
<1>3. \A d \in Clients : cl'[d] = IF d = c THEN new ELSE cl[d]
  BY Parts
<1>4. \A d \in Clients : ClientInv(d, cl'[d], srv, srv.buf \o c2s)
  BY <1>3, Parts
<1> QED BY <1>2, <1>4 DEF IpcInv

\* A request is added at the end of what the server has to handle.
LEMMA OneAsks ==
  ASSUME IpcInv, NEW c \in Clients, NEW new, NEW q \in Items, cl' = [cl EXCEPT ![c] = new],
         c2s' = Append(c2s, q), srv' = srv, q.n = c, ClientInv(c, new, srv, Append(srv.buf \o c2s, q))
  PROVE  IpcInv'
<1> DEFINE b == srv.buf
           reqs == b \o c2s
<1>1. srv \in ServerType /\ c2s \in Seq(Items) /\ b \in Seq(Items) /\ reqs \in Seq(Items) /\ cl \in [Clients -> ClientType]
      /\ \A d \in Clients : ClientInv(d, cl[d], srv, reqs)
  BY Parts
<1>2. c2s' \in Seq(Items) /\ b \o c2s' = Append(reqs, q)
  <2> HIDE DEF b
  <2>1. c2s' \in Seq(Items)
    BY <1>1
  <2>2. b \o Append(c2s, q) = Append(b \o c2s, q)
    <3>1. /\ Append(c2s, q) = c2s \o <<q>> /\ Append(reqs, q) = reqs \o <<q>> /\ <<q>> \in Seq(Items)
      BY <1>1, AppendIsConcat
    <3> DEFINE l == <<q>>
    <3> HIDE DEF l
    <3>2. (b \o c2s) \o l = b \o (c2s \o l)
      BY <1>1, <3>1, Assoc DEF l
    <3> QED BY <3>1, <3>2 DEF l
  <2> QED BY <2>1, <2>2
<1>3. new \in ClientType
  BY DEF ClientInv
<1>4. cl' \in [Clients -> ClientType] /\ \A d \in Clients : cl'[d] = IF d = c THEN new ELSE cl[d]
  BY <1>1, <1>3
<1>5. \A d \in Clients : ClientInv(d, cl'[d], srv, Append(reqs, q))
  <2> TAKE d \in Clients
  <2>1. CASE d = c
    BY <1>4, <2>1
  <2>2. CASE d # c
    BY <1>1, <1>4, <2>2, OtherAsks
  <2> QED BY <2>1, <2>2
<1>6. ServerInv(srv, Append(reqs, q))
  <2>1. ServerInv(srv, reqs)
    BY DEF IpcInv
  <2>2. \A i \in DOMAIN Append(reqs, q) : i \in DOMAIN reqs \/ i = Len(reqs) + 1
    <3>1. reqs \in Seq(Items) /\ q \in Items
      BY <1>1
    <3> HIDE DEF reqs
    <3> QED BY ONLY <3>1
  <2>3. \A i \in DOMAIN Append(reqs, q) : Append(reqs, q)[i].n \in Clients
    <3> HIDE DEF reqs
    <3>1. /\ \A i \in DOMAIN reqs : Append(reqs, q)[i] = reqs[i]
          /\ Append(reqs, q)[Len(reqs) + 1] = q
      BY <1>1, PendingAppend
    <3>2. \A i \in DOMAIN reqs : reqs[i].n \in Clients
      BY <2>1 DEF ServerInv
    <3> QED BY <2>2, <3>1, <3>2
  <2>4. Append(reqs, q) \in Seq(Items)
    BY <1>1, PendingAppend
  <2> QED BY <2>1, <2>3, <2>4 DEF ServerInv
<1>7. srv'.buf \o c2s' = Append(reqs, q)
  BY <1>2
<1> QED BY <1>2, <1>4, <1>5, <1>6, <1>7 DEF IpcInv

\* send_sync, from any place in the code.
LEMMA Asks ==
  ASSUME IpcInv, NEW c \in Clients, NEW self \in ClientType, NEW m \in Requests, NEW key, NEW ret \in {"init", "run", "done"},
         ClientInv(c, self, srv, srv.buf \o c2s), self.st \in {"off", "init", "run"},
         NEW left \in Nat, send_sync(c, [self EXCEPT !.left = left], m, key, ret),
         key = IF m = GreetMessage THEN c ELSE self.key,
         m = GreetMessage <=> self.st = "off",
         m = CreateWindowMessage => self.req = GreetMessage,
         c = Dock => m \in {PopupShowMenuMessage, DestroyWindowMessage} /\ ret # "init"
  PROVE  IpcInv'
<1> DEFINE new == [[self EXCEPT !.left = left] EXCEPT !.st = "wait", !.req = m, !.ret = ret]
           q == Item(m.magic, m.id, key, c)
<1>1. cl' = [cl EXCEPT ![c] = new] /\ c2s' = Append(c2s, q) /\ srv' = srv
  BY DEF send_sync
<1>2. /\ new \in ClientType /\ new.st = "wait" /\ new.req = m /\ new.ret = ret /\ new.key = self.key
      /\ new.done = self.done /\ new.wrong = self.wrong /\ new.batch = self.batch /\ new.queue = self.queue
      /\ new.inbox = self.inbox /\ new.buf = self.buf /\ new.unread = self.unread
  BY DEF ClientType
<1>3. q \in Items /\ q.n = c /\ q.id = m.id /\ q.key = key
  <2>1. m.id \in Nat /\ m.magic \in Nat
    BY Ids DEF Requests, GreetMessage, CreateWindowMessage, DestroyWindowMessage, MenuBarCreateMenuMessage,
       MenuBarCreateItemMessage, PopupShowMenuMessage, Msg
  <2>2. c \in Nat /\ self.key \in Nat
    BY IpcAssumption, ClientTypes
  <2> QED BY <2>1, <2>2 DEF Item, Items
<1>4. key = AskKey(c, new)
  BY <1>2 DEF AskKey
<1> HIDE DEF new, q
<1>5. ClientInv(c, new, srv, Append(srv.buf \o c2s, q))
  <2> DEFINE reqs == srv.buf \o c2s
  <2>1. reqs \in Seq(Items) /\ ClientInv(c, self, srv, reqs)
    BY Parts
  <2> HIDE DEF reqs
  <2>2. ClientInv(c, new, srv, Append(reqs, q))
    BY <1>2, <1>3, <1>4, <2>1, AskStep
  <2> QED BY <2>2 DEF reqs
<1> QED BY <1>1, <1>3, <1>5, OneAsks

\* The dock is past its greeting and its window.
LEMMA DockUp ==
  ASSUME IpcInv
  PROVE  cl[Dock].st \notin {"off", "init"}
<1>1. Dock \in Clients
  BY IpcAssumption
<1>2. ClientInv(Dock, cl[Dock], srv, srv.buf \o c2s)
  BY <1>1, Parts
<1> QED BY <1>2 DEF ClientInv, StageInv

\* A client without its number of requests changed.
LEMMA SameLeft ==
  ASSUME NEW self \in ClientType
  PROVE  [self EXCEPT !.left = self.left] = self /\ self.left \in Nat
BY DEF ClientType

\* greeting keeps the invariant.
LEMMA GreetingKeeps ==
  ASSUME IpcInv, NEW c \in Clients, greeting(c)
  PROVE  IpcInv'
<1>1. cl[c] \in ClientType /\ ClientInv(c, cl[c], srv, srv.buf \o c2s)
  BY Parts
<1>2. cl[c].st = "off" /\ send_sync(c, [cl[c] EXCEPT !.left = cl[c].left], GreetMessage, c, "init") /\ cl[c].left \in Nat
  BY <1>1, SameLeft DEF greeting
<1>3. c # Dock /\ GreetMessage \in Requests /\ GreetMessage # CreateWindowMessage
  BY <1>2, DockUp, Ids DEF Requests
<1> QED BY <1>1, <1>2, <1>3, Asks

\* new_window keeps the invariant: it is asked once, after the greeting.
LEMMA NewWindowKeeps ==
  ASSUME IpcInv, NEW c \in Clients, new_window(c)
  PROVE  IpcInv'
<1>1. cl[c] \in ClientType /\ ClientInv(c, cl[c], srv, srv.buf \o c2s)
  BY Parts
<1>2. /\ cl[c].st = "init" /\ cl[c].req = GreetMessage /\ cl[c].left \in Nat
      /\ send_sync(c, [cl[c] EXCEPT !.left = cl[c].left], CreateWindowMessage, cl[c].key, "init")
  BY <1>1, SameLeft DEF new_window
<1>3. c # Dock /\ CreateWindowMessage \in Requests /\ GreetMessage # CreateWindowMessage
  BY <1>2, DockUp, Ids DEF Requests
<1> QED BY <1>1, <1>2, <1>3, Asks

\* create_menu keeps the invariant.
LEMMA CreateMenuKeeps ==
  ASSUME IpcInv, NEW c \in Clients, NEW m \in {MenuBarCreateMenuMessage, MenuBarCreateItemMessage}, create_menu(c, m)
  PROVE  IpcInv'
<1>1. cl[c] \in ClientType /\ ClientInv(c, cl[c], srv, srv.buf \o c2s)
  BY Parts
<1>2. /\ cl[c].st = "init" /\ c # Dock /\ cl[c].left - 1 \in Nat
      /\ send_sync(c, [cl[c] EXCEPT !.left = cl[c].left - 1], m, cl[c].key, "init")
  BY <1>1, SameLeft DEF create_menu
<1>3. m \in Requests /\ m # CreateWindowMessage /\ m # GreetMessage
  BY Ids DEF Requests
<1> QED BY <1>1, <1>2, <1>3, Asks

\* Entering the event loop keeps the invariant.
LEMMA RunAppKeeps ==
  ASSUME IpcInv, NEW c \in Clients, RunApp(c)
  PROVE  IpcInv'
<1> DEFINE new == [cl[c] EXCEPT !.st = "run", !.left = 0, !.req = CreateWindowMessage]
<1>1. cl[c] \in ClientType /\ ClientInv(c, cl[c], srv, srv.buf \o c2s) /\ srv.buf \o c2s \in Seq(Items)
  BY Parts
<1>2. /\ cl[c].st = "init" /\ cl[c].req # GreetMessage
      /\ cl' = [cl EXCEPT ![c] = new] /\ UNCHANGED <<srv, c2s>>
  BY DEF RunApp
<1>0. CreateWindowMessage \in Requests /\ CreateWindowMessage # GreetMessage
  BY Ids DEF Requests
<1>3. /\ new \in ClientType /\ new.st = "run" /\ new.key = cl[c].key /\ new.done = cl[c].done /\ new.wrong = cl[c].wrong
      /\ new.batch = cl[c].batch /\ new.queue = cl[c].queue /\ new.inbox = cl[c].inbox
      /\ new.buf = cl[c].buf /\ new.unread = cl[c].unread /\ new.req # GreetMessage
  BY <1>0, <1>1 DEF ClientType
<1> HIDE DEF new
<1>4. ClientInv(c, new, srv, srv.buf \o c2s)
  BY <1>1, <1>2, <1>3, RunStep
<1> QED BY <1>2, <1>4, OneClient

\* The answer is the reply, and it is taken once.
LEMMA WaitKeeps ==
  ASSUME IpcInv, NEW c \in Clients, wait_for_answer(c)
  PROVE  IpcInv'
<1> DEFINE self == cl[c]
           p == AnswerAt(c)
           ans == self.inbox[p]
           new == [self EXCEPT !.inbox = RemoveAt(@, p), !.st = self.ret,
                               !.key = IF self.req = GreetMessage THEN ans.n ELSE @,
                               !.wrong = @ \/ ans.magic # Server]
           reqs == srv.buf \o c2s
<1>1. self \in ClientType /\ ClientInv(c, self, srv, reqs) /\ srv \in ServerType /\ ConnsInv(srv)
  BY Parts
<1>2. self.st = "wait" /\ p # 0 /\ cl' = [cl EXCEPT ![c] = new] /\ UNCHANGED <<srv, c2s>>
  BY DEF wait_for_answer
<1>3. self.inbox \in Seq(Items) /\ ~self.wrong /\ self.ret \in {"init", "run", "done"} /\ self.key \in Nat
  BY <1>1 DEF ClientType, ClientInv
<1>4. /\ p \in DOMAIN self.inbox /\ LooksLike(self.inbox[p], c, self)
      /\ \A i \in DOMAIN self.inbox : LooksLike(self.inbox[i], c, self) => p <= i
  BY <1>2, <1>3, AnswerFirst
<1> HIDE DEF p, reqs
<1>5. ans.magic = Server /\ p \in DOMAIN Incoming(self) /\ Incoming(self)[p] = self.inbox[p]
  BY <1>1, <1>2, <1>4, AnswerMagic
<1>6. RemoveAt(self.inbox, p) \in Seq(Items) /\ ans \in Items /\ ans.n \in Nat
  <2>1. RemoveAt(self.inbox, p) \in Seq(Items)
    BY <1>3, <1>4, Removed
  <2>2. ans \in Items
    BY <1>3, <1>4
  <2> QED BY <2>1, <2>2 DEF Items
<1>7. /\ new \in ClientType /\ new.st = self.ret /\ new.req = self.req /\ new.ret = self.ret /\ new.done = self.done
      /\ ~new.wrong /\ new.key = IF self.req = GreetMessage THEN ans.n ELSE self.key
      /\ new.batch = self.batch /\ new.queue = self.queue /\ new.inbox = RemoveAt(self.inbox, p)
      /\ new.buf = self.buf /\ new.unread = self.unread
  <2> DEFINE r == RemoveAt(self.inbox, p)
  <2>1. r \in Seq(Items) /\ ans.n \in Nat /\ new.inbox = r
    BY <1>1, <1>6 DEF ClientType
  <2> HIDE DEF r
  <2>2. new = [self EXCEPT !.inbox = r, !.st = self.ret, !.key = IF self.req = GreetMessage THEN ans.n ELSE @,
                           !.wrong = @ \/ ans.magic # Server]
    BY DEF r
  <2>3. (self.wrong \/ ans.magic # Server) = FALSE
    BY <1>3, <1>5
  <2>4. new = [self EXCEPT !.inbox = r, !.st = self.ret, !.key = IF self.req = GreetMessage THEN ans.n ELSE @,
                           !.wrong = FALSE]
    BY <2>2, <2>3
  <2> HIDE DEF new
  <2> QED BY <1>1, <1>3, <2>1, <2>4 DEF ClientType, r
<1> HIDE DEF new
<1>8. ClientInv(c, new, srv, reqs)
  BY <1>1, <1>2, <1>4, <1>5, <1>7, AnswerStep
<1> QED BY <1>2, <1>8, OneClient DEF reqs

\* A read keeps the invariant, whether it fills the buffer or not.
LEMMA ReadKeeps ==
  ASSUME IpcInv, NEW c \in Clients, Read(c)
  PROVE  IpcInv'
<1> DEFINE self == cl[c]
           u == self.unread
           b == self.buf \o Take(u)
           reqs == srv.buf \o c2s
           I == {i \in DOMAIN b : b[i].key \in {c, self.key}}
           part == [self EXCEPT !.buf = b, !.unread = Drop(@)]
           all == [self EXCEPT !.buf = <<>>, !.unread = <<>>, !.reading = FALSE,
                               !.inbox = @ \o Addressed(c, b), !.queue = Append(@, CallEvent)]
<1>1. self \in ClientType /\ ClientInv(c, self, srv, reqs) /\ srv \in ServerType
  BY Parts
<1>2. /\ UNCHANGED <<srv, c2s>> /\ self.unread # <<>>
      /\ cl' = [cl EXCEPT ![c] = IF Len(u) >= Chunk THEN part ELSE all]
  BY DEF Read
<1>3. self.inbox \in Seq(Items) /\ self.buf \in Seq(Items) /\ u \in Seq(Items) /\ self.queue \in Seq(Items)
  BY <1>1, ClientTypes
<1>4. Take(u) \in Seq(Items) /\ Drop(u) \in Seq(Items) /\ (Len(u) < Chunk => Take(u) = u)
  <2> HIDE DEF u
  <2> QED BY <1>3, TakeDrop
<1>5. b \in Seq(Items)
  BY <1>3, <1>4, ConcatProperties
<1>6. CASE Len(u) >= Chunk
  <2>1. /\ part \in ClientType /\ part.st = self.st /\ part.ret = self.ret /\ part.req = self.req /\ part.key = self.key
        /\ part.done = self.done /\ part.wrong = self.wrong /\ part.batch = self.batch /\ part.queue = self.queue
        /\ part.inbox = self.inbox /\ part.buf = self.buf \o Take(self.unread) /\ part.unread = Drop(self.unread)
    BY <1>1, <1>4, <1>5 DEF ClientType
  <2> HIDE DEF part, reqs
  <2>2. ClientInv(c, part, srv, reqs)
    BY <1>1, <2>1, ReadPart
  <2>3. cl' = [cl EXCEPT ![c] = part]
    BY <1>2, <1>6
  <2> QED BY <1>2, <2>2, <2>3, OneClient DEF reqs
<1>7. CASE ~(Len(u) >= Chunk)
  <2>1. Len(u) < Chunk
    BY <1>3, <1>7, IpcAssumption
  <2>2. b = self.buf \o self.unread
    BY <1>4, <2>1
  <2>3. Addressed(c, b) = Only(b, I)
    BY DEF Addressed
  <2> DEFINE o == Only(b, I)
             mine == {m \in Items : m.key \in {c, self.key}}
  <2>4. o \in Seq(Items) /\ Thin(o, b, mine)
    <3>1. I \in SUBSET DOMAIN b /\ \A j \in DOMAIN b : b[j] \in mine => j \in I
      OBVIOUS
    <3> HIDE DEF I, b, mine
    <3> QED BY ONLY <1>5, <3>1, ThinOnly
  <2>5. CallEvent \in Items
    BY DEF CallEvent, Item, Items
  <2> HIDE DEF o
  <2>6. self.inbox \o o \in Seq(Items) /\ Append(self.queue, CallEvent) \in Seq(Items)
    BY <1>3, <2>4, <2>5, ConcatProperties, AppendProperties
  <2>7. all = [self EXCEPT !.buf = <<>>, !.unread = <<>>, !.reading = FALSE,
                           !.inbox = @ \o o, !.queue = Append(@, CallEvent)]
    BY <2>3 DEF o
  <2>8. /\ all \in ClientType /\ all.st = self.st /\ all.ret = self.ret /\ all.req = self.req /\ all.key = self.key
        /\ all.done = self.done /\ all.wrong = self.wrong /\ all.batch = self.batch
        /\ all.queue = Append(self.queue, CallEvent) /\ all.inbox = self.inbox \o o
        /\ all.buf = <<>> /\ all.unread = <<>>
    <3> HIDE DEF all
    <3>1. <<>> \in Seq(Items)
      OBVIOUS
    <3> QED BY <1>1, <2>6, <2>7, <3>1 DEF ClientType
  <2>9. self.st # "off"
    <3>1. self.st = "off" => Incoming(self) = <<>>
      BY <1>1 DEF ClientInv, StageInv
    <3>2. Incoming(self) # <<>>
      <4> DEFINE v == self.buf \o u
                 x == self.inbox
      <4>1. v \in Seq(Items) /\ v # <<>>
        BY <1>2, <1>3, ConcatEmptySeq
      <4>2. x \in Seq(Items)
        BY <1>3
      <4> HIDE DEF v, x
      <4>3. x \o v # <<>>
        BY ONLY <4>1, <4>2, ConcatEmptySeq
      <4> QED BY <4>3 DEF Incoming, v, x
    <3> QED BY <3>1, <3>2
  <2>10. \A m \in Items : m.key \in {c, self.key} => m \in mine
    OBVIOUS
  <2> HIDE DEF all, reqs, I, b, mine, self
  <2>11. ClientInv(c, all, srv, reqs)
    BY ONLY <1>1, <1>5, <2>2, <2>4, <2>8, <2>9, <2>10, ReadAll, c \in Clients, ZenonT(40)
  <2>12. cl' = [cl EXCEPT ![c] = all]
    BY <1>2, <1>7
  <2> QED BY <1>2, <2>11, <2>12, OneClient DEF reqs
<1> QED BY <1>6, <1>7

\* A turn of the event loop keeps the invariant.
LEMMA PumpKeeps ==
  ASSUME IpcInv, NEW c \in Clients, Pump(c)
  PROVE  IpcInv'
<1> DEFINE self == cl[c]
           fds  == IF self.unread # <<>> THEN <<FDWaiterReadEvent>> ELSE <<>>
           new == [self EXCEPT !.batch = self.queue \o fds, !.queue = <<>>]
           reqs == srv.buf \o c2s
<1>1. self \in ClientType /\ ClientInv(c, self, srv, reqs) /\ srv \in ServerType
  BY Parts
<1>2. self.st = "run" /\ self.batch = <<>> /\ cl' = [cl EXCEPT ![c] = new] /\ UNCHANGED <<srv, c2s>>
  BY DEF Pump
<1>3. FDWaiterReadEvent \in Items /\ FDWaiterReadEvent.magic = 0
  BY DEF FDWaiterReadEvent, Item, Items
<1>4. fds \in Seq(Items) /\ \A i \in DOMAIN fds : fds[i].magic = 0
  <2>1. fds = <<>> \/ fds = <<FDWaiterReadEvent>>
    OBVIOUS
  <2> HIDE DEF fds
  <2>2. DOMAIN <<>> = {} /\ <<>> \in Seq(Items)
    OBVIOUS
  <2>3. /\ <<FDWaiterReadEvent>> \in Seq(Items)
        /\ \A i \in DOMAIN <<FDWaiterReadEvent>> : <<FDWaiterReadEvent>>[i] = FDWaiterReadEvent
    BY <1>3
  <2> QED BY <1>3, <2>1, <2>2, <2>3
<1> HIDE DEF fds
<1>5. self.queue \in Seq(Items) /\ self.queue \o fds \in Seq(Items) /\ <<>> \in Seq(Items)
  BY <1>1, <1>4, ClientTypes, ConcatProperties
<1>6. /\ new \in ClientType /\ new.st = "run" /\ new.ret = self.ret /\ new.req = self.req /\ new.key = self.key
      /\ new.wrong = self.wrong /\ new.done = self.done /\ new.batch = self.queue \o fds /\ new.queue = <<>>
      /\ new.inbox = self.inbox /\ new.buf = self.buf /\ new.unread = self.unread
  BY <1>1, <1>2, <1>5 DEF ClientType
<1> HIDE DEF new, reqs
<1>7. ClientInv(c, new, srv, reqs)
  BY <1>1, <1>2, <1>4, <1>6, PumpStep
<1> QED BY <1>2, <1>7, OneClient DEF reqs

\* Dispatching an event keeps the invariant, with the requests made in its handler.
LEMMA DispatchKeeps ==
  ASSUME IpcInv, NEW c \in Clients, Dispatch(c)
  PROVE  IpcInv'
<1> DEFINE old == cl[c]
           e == Head(old.batch)
           self == [old EXCEPT !.batch = Tail(@)]
           own == [self EXCEPT !.done = @ + 1]
           reqs == srv.buf \o c2s
<1>1. old \in ClientType /\ ClientInv(c, old, srv, reqs) /\ srv \in ServerType
  BY Parts
<1>2. old.st = "run" /\ old.batch # <<>>
  BY DEF Dispatch
<1>3. \/ e = FDWaiterReadEvent /\ cl' = [cl EXCEPT ![c] = [self EXCEPT !.reading = TRUE]] /\ UNCHANGED <<srv, c2s>>
      \/ e = CallEvent /\ UNCHANGED <<srv, c2s>>
         /\ cl' = [cl EXCEPT ![c] = [self EXCEPT !.queue = @ \o Mine(self), !.inbox = <<>>]]
      \/ e.magic = Client /\ cl' = [cl EXCEPT ![c] = own] /\ UNCHANGED <<srv, c2s>>
      \/ e.magic = Client /\ c = Dock /\ own.left > 0
         /\ send_sync(c, [own EXCEPT !.left = @ - 1], PopupShowMenuMessage, own.key, "run")
      \/ e.magic = Client /\ send_sync(c, own, DestroyWindowMessage, own.key, "done")
  BY DEF Dispatch
<1>4. old.batch \in Seq(Items) /\ Tail(old.batch) \in Seq(Items) /\ old.inbox \in Seq(Items) /\ old.queue \in Seq(Items)
  BY <1>1, <1>2, ClientTypes, HeadTail
<1>5. /\ self \in ClientType /\ self.st = "run" /\ self.ret = old.ret /\ self.req = old.req /\ self.key = old.key
      /\ self.wrong = old.wrong /\ self.done = old.done /\ self.batch = Tail(old.batch) /\ self.queue = old.queue
      /\ self.inbox = old.inbox /\ self.buf = old.buf /\ self.unread = old.unread
  BY <1>1, <1>2, <1>4 DEF ClientType
<1>6. /\ own \in ClientType /\ own.st = "run" /\ own.ret = old.ret /\ own.req = old.req /\ own.key = old.key
      /\ own.wrong = old.wrong /\ own.done = old.done + 1 /\ own.batch = Tail(old.batch) /\ own.queue = old.queue
      /\ own.inbox = old.inbox /\ own.buf = old.buf /\ own.unread = old.unread /\ own.left \in Nat
  <2> HIDE DEF self
  <2>1. self.done \in Nat /\ self.done + 1 \in Nat /\ self.left \in Nat
    BY <1>5 DEF ClientType
  <2>2. own.done = self.done + 1 /\ own.left = self.left
    BY <1>5 DEF ClientType
  <2>3. own \in ClientType
    BY <1>5, <2>1 DEF ClientType
  <2> QED BY <1>5, <2>1, <2>2, <2>3 DEF ClientType
<1>7. FDWaiterReadEvent.magic = 0 /\ CallEvent.magic = 0 /\ Client # 0
  BY Ids DEF FDWaiterReadEvent, CallEvent, Item
<1>8. e.magic = 0 => ClientInv(c, self, srv, reqs)
  <2> HIDE DEF self, reqs
  <2> QED BY <1>1, <1>2, <1>5, FdStep
<1>9. e.magic = Client => ClientInv(c, own, srv, reqs)
  <2> HIDE DEF own, reqs
  <2> QED BY <1>1, <1>2, <1>6, <1>7, EventStep
<1> HIDE DEF self, own, reqs
<1>10. CASE e = FDWaiterReadEvent /\ cl' = [cl EXCEPT ![c] = [self EXCEPT !.reading = TRUE]] /\ UNCHANGED <<srv, c2s>>
  <2> DEFINE new == [self EXCEPT !.reading = TRUE]
  <2>1. /\ new \in ClientType /\ new.st = self.st /\ new.ret = self.ret /\ new.req = self.req /\ new.key = self.key
        /\ new.wrong = self.wrong /\ new.done = self.done /\ new.batch = self.batch /\ new.queue = self.queue
        /\ Incoming(new) = Incoming(self)
    BY <1>5 DEF ClientType, Incoming
  <2>2. ClientInv(c, self, srv, reqs)
    BY <1>7, <1>8, <1>10
  <2> HIDE DEF new
  <2>3. ClientInv(c, new, srv, reqs)
    BY <2>1, <2>2, SameClient
  <2> QED BY <1>10, <2>3, OneClient DEF reqs, new
<1>11. CASE /\ e = CallEvent /\ UNCHANGED <<srv, c2s>>
            /\ cl' = [cl EXCEPT ![c] = [self EXCEPT !.queue = @ \o Mine(self), !.inbox = <<>>]]
  <2> DEFINE I == {i \in DOMAIN self.inbox : IsEvent(self.inbox[i], self.key)}
             o == Only(self.inbox, I)
             new == [self EXCEPT !.queue = @ \o o, !.inbox = <<>>]
  <2>1. Mine(self) = o
    BY DEF Mine
  <2>2. o \in Seq(Items)
    <3> DEFINE x == self.inbox
    <3>1. I \in SUBSET DOMAIN x /\ \A j \in DOMAIN x : x[j] \in {} => j \in I
      OBVIOUS
    <3>2. x \in Seq(Items)
      BY <1>4, <1>5
    <3> HIDE DEF I, x
    <3>3. Only(x, I) \in Seq(Items) /\ Thin(Only(x, I), x, {})
      BY ONLY <3>1, <3>2, ThinOnly
    <3> QED BY <3>3 DEF x
  <2> HIDE DEF o
  <2>3. self.queue \o o \in Seq(Items) /\ <<>> \in Seq(Items)
    BY <1>4, <1>5, <2>2, ConcatProperties
  <2>4. /\ new \in ClientType /\ new.st = self.st /\ new.ret = self.ret /\ new.req = self.req /\ new.key = self.key
        /\ new.wrong = self.wrong /\ new.done = self.done /\ new.batch = self.batch /\ new.queue = self.queue \o o
        /\ new.inbox = <<>> /\ new.buf = self.buf /\ new.unread = self.unread
    BY <1>5, <2>3 DEF ClientType
  <2>5. ClientInv(c, self, srv, reqs)
    BY <1>7, <1>8, <1>11
  <2>6. cl' = [cl EXCEPT ![c] = new]
    BY <1>11, <2>1
  <2> HIDE DEF new
  <2>7. ClientInv(c, new, srv, reqs)
    <3>1. new.queue = self.queue \o Only(self.inbox, I)
      BY <2>4 DEF o
    <3>2. self.st = "run" /\ new.st = "run"
      BY <1>5, <2>4
    <3>3. I = {i \in DOMAIN self.inbox : IsEvent(self.inbox[i], self.key)}
      BY DEF I
    <3>4. srv \in ServerType
      BY <1>1
    <3> HIDE DEF I
    <3> QED BY ONLY <2>4, <2>5, <3>1, <3>2, <3>3, <3>4, CallStep, c \in Clients
  <2> QED BY <1>11, <2>6, <2>7, OneClient DEF reqs
<1>12. CASE e.magic = Client /\ cl' = [cl EXCEPT ![c] = own] /\ UNCHANGED <<srv, c2s>>
  BY <1>9, <1>12, OneClient DEF reqs
<1>13. CASE /\ e.magic = Client /\ c = Dock /\ own.left > 0
            /\ send_sync(c, [own EXCEPT !.left = @ - 1], PopupShowMenuMessage, own.key, "run")
  <2>1. own.left - 1 \in Nat /\ send_sync(c, [own EXCEPT !.left = own.left - 1], PopupShowMenuMessage, own.key, "run")
    BY <1>6, <1>13
  <2>2. /\ PopupShowMenuMessage \in Requests /\ PopupShowMenuMessage # GreetMessage
        /\ PopupShowMenuMessage # CreateWindowMessage
    BY Ids DEF Requests
  <2>3. ClientInv(c, own, srv, srv.buf \o c2s)
    BY <1>9, <1>13 DEF reqs
  <2> QED BY <1>6, <2>1, <2>2, <2>3, Asks
<1>14. CASE e.magic = Client /\ send_sync(c, own, DestroyWindowMessage, own.key, "done")
  <2>1. own.left \in Nat /\ send_sync(c, [own EXCEPT !.left = own.left], DestroyWindowMessage, own.key, "done")
    BY <1>6, <1>14, SameLeft
  <2>2. /\ DestroyWindowMessage \in Requests /\ DestroyWindowMessage # GreetMessage
        /\ DestroyWindowMessage # CreateWindowMessage
    BY Ids DEF Requests
  <2>3. ClientInv(c, own, srv, srv.buf \o c2s)
    BY <1>9, <1>14 DEF reqs
  <2> QED BY <1>6, <2>1, <2>2, <2>3, Asks
<1> QED BY <1>3, <1>10, <1>11, <1>12, <1>13, <1>14

\* All clients and the server after a step of the server.
LEMMA ServerMoves ==
  ASSUME NEW reqs, reqs = srv'.buf \o c2s', c2s' \in Seq(Items), ServerInv(srv', reqs), DOMAIN cl' = Clients,
         cl' = [c \in Clients |-> cl'[c]], \A c \in Clients : ClientInv(c, cl'[c], srv', reqs)
  PROVE  IpcInv'
<1>1. \A c \in Clients : cl'[c] \in ClientType
  BY DEF ClientInv
<1>2. cl' \in [Clients -> ClientType]
  BY <1>1
<1> QED BY <1>2 DEF IpcInv

\* What the server writes reaches the clients that run.
LEMMA BroadcastTo ==
  ASSUME NEW m, cl' = Broadcast(<<m>>)
  PROVE  /\ DOMAIN cl' = Clients /\ cl' = [c \in Clients |-> cl'[c]]
         /\ \A c \in Clients : cl'[c] = IF cl[c].st \in Running THEN Grown(cl[c], m) ELSE cl[c]
BY DEF Broadcast, Grown

\* A read of the server keeps the invariant: the requests stay in their order.
LEMMA SrvReadKeeps ==
  ASSUME IpcInv, SrvRead
  PROVE  IpcInv'
<1> DEFINE b == srv.buf
           x == Take(c2s)
           y == Drop(c2s)
           t == [srv EXCEPT !.buf = @ \o Take(c2s), !.reading = Len(c2s) >= Chunk]
<1>1. srv \in ServerType /\ c2s \in Seq(Items) /\ b \in Seq(Items) /\ cl \in [Clients -> ClientType]
      /\ \A d \in Clients : ClientInv(d, cl[d], srv, b \o c2s)
  BY Parts
<1>2. srv' = t /\ c2s' = y /\ cl' = cl
  BY DEF SrvRead
<1>3. x \in Seq(Items) /\ y \in Seq(Items) /\ x \o y = c2s
  BY <1>1, TakeDrop
<1>4. b \o x \in Seq(Items)
  <2> HIDE DEF b, x
  <2> QED BY <1>1, <1>3, ConcatProperties
<1>5. (b \o x) \o y = b \o c2s
  <2> HIDE DEF b, x, y
  <2>1. (b \o x) \o y = b \o (x \o y)
    BY <1>1, <1>3, Assoc
  <2> QED BY <1>3, <2>1
<1>6. /\ t \in ServerType /\ t.buf = b \o x /\ t.conns = srv.conns /\ t.wins = srv.wins
      /\ t.sent = srv.sent /\ t.queue = srv.queue
  <2>1. (Len(c2s) >= Chunk) \in BOOLEAN
    OBVIOUS
  <2> QED BY <1>1, <1>4, <2>1 DEF ServerType
<1> HIDE DEF t, x, y
<1>7. \A d \in Clients : ClientInv(d, cl[d], t, b \o c2s)
  BY <1>1, <1>6, SameServer
<1>8. ServerInv(t, b \o c2s)
  BY <1>6 DEF IpcInv, ServerInv, ConnsInv, QueuedInv
<1>9. srv'.buf \o c2s' = b \o c2s
  BY <1>2, <1>5, <1>6
<1>10. DOMAIN cl' = Clients /\ cl' = [c \in Clients |-> cl'[c]]
  BY <1>1, <1>2
<1> QED BY <1>2, <1>3, <1>7, <1>8, <1>9, <1>10, ServerMoves

\* Writing a queued event keeps the invariant.
LEMMA SrvSendKeeps ==
  ASSUME IpcInv, SrvSend
  PROVE  IpcInv'
<1> DEFINE m == Head(srv.queue)
           t == [srv EXCEPT !.queue = Tail(@)]
           reqs == srv.buf \o c2s
<1>1. srv \in ServerType /\ c2s \in Seq(Items) /\ QueuedInv(srv)
      /\ \A d \in Clients : ClientInv(d, cl[d], srv, reqs)
  BY Parts
<1>2. srv' = t /\ c2s' = c2s /\ srv.queue # <<>> /\ cl' = Broadcast(<<m>>)
  BY DEF SrvSend
<1>3. srv.queue \in Seq(Items)
  BY <1>1 DEF ServerType
<1>4. /\ Tail(srv.queue) \in Seq(Items)
      /\ \A i \in DOMAIN Tail(srv.queue) : i + 1 \in DOMAIN srv.queue /\ Tail(srv.queue)[i] = srv.queue[i + 1]
  BY <1>2, <1>3, HeadTail
<1>5. /\ t \in ServerType /\ t.buf = srv.buf /\ t.conns = srv.conns /\ t.wins = srv.wins
      /\ t.sent = srv.sent /\ t.queue = Tail(srv.queue)
  BY <1>1, <1>4 DEF ServerType
<1> HIDE DEF t, reqs
<1>6. QueuedInv(t)
  BY <1>1, <1>4, <1>5 DEF QueuedInv
<1>7. ServerInv(t, reqs)
  BY <1>5, <1>6 DEF IpcInv, ServerInv, ConnsInv, reqs
<1>8. \A c \in Clients : ClientInv(c, cl'[c], t, reqs)
  <2> TAKE c \in Clients
  <2>1. CASE cl[c].st \in Running
    <3>1. ClientInv(c, Grown(cl[c], m), t, reqs)
      <4> HIDE DEF m
      <4>1. m = Head(srv.queue)
        BY DEF m
      <4> QED BY <1>1, <1>2, <1>5, <2>1, <4>1, SendStep
    <3> QED BY <1>2, <2>1, <3>1, BroadcastTo
  <2>2. CASE cl[c].st \notin Running
    <3>1. ClientInv(c, cl[c], t, reqs)
      BY <1>1, <1>2, <1>5, <2>2, SendOff
    <3> QED BY <1>2, <2>2, <3>1, BroadcastTo
  <2> QED BY <2>1, <2>2
<1>9. DOMAIN cl' = Clients /\ cl' = [c \in Clients |-> cl'[c]]
  BY <1>2, BroadcastTo
<1>10. reqs = srv'.buf \o c2s'
  BY <1>2, <1>5 DEF reqs
<1> QED BY <1>1, <1>2, <1>7, <1>8, <1>9, <1>10, ServerMoves

\* Queueing a mouse or keyboard event keeps the invariant.
LEMMA SrvInputKeeps ==
  ASSUME IpcInv, NEW c \in Clients, NEW id \in Inputs, SrvInput(c, id)
  PROVE  IpcInv'
<1> DEFINE ids == <<id>>
           t == Queue(srv, c, ids)
           reqs == srv.buf \o c2s
<1>1. srv \in ServerType /\ c2s \in Seq(Items) /\ ServerInv(srv, reqs) /\ cl \in [Clients -> ClientType]
      /\ \A d \in Clients : ClientInv(d, cl[d], srv, reqs)
  BY Parts DEF IpcInv
<1>2. srv' = t /\ c2s' = c2s /\ cl' = cl /\ c \in srv.wins /\ c # Dock
  BY DEF SrvInput
<1>3. ids \in Seq(Nat) /\ \A i \in DOMAIN ids : ids[i] \in EventIds(c)
  <2>1. id \in Nat
    BY Ids DEF Inputs
  <2> QED BY <1>2, <2>1 DEF EventIds
<1> HIDE DEF ids, t, reqs
<1>4. /\ ServerInv(t, reqs) /\ t.buf = srv.buf
      /\ \A d \in Clients : \A self : ClientInv(d, self, srv, reqs) => ClientInv(d, self, t, reqs)
  BY <1>1, <1>2, <1>3, QueueStep DEF t
<1>5. DOMAIN cl' = Clients /\ cl' = [d \in Clients |-> cl'[d]]
  BY <1>1, <1>2
<1>6. reqs = srv'.buf \o c2s'
  BY <1>2, <1>4 DEF reqs
<1> QED BY <1>1, <1>2, <1>4, <1>5, <1>6, ServerMoves

\* The dock hears of a window.
LEMMA NotifyStep ==
  ASSUME NEW s \in ServerType, NEW ids \in Seq(Nat), NEW t, t = NotifyDock(s, ids), NEW reqs, ServerInv(s, reqs),
         \A i \in DOMAIN ids : ids[i] \in EventIds(Dock)
  PROVE  /\ ServerInv(t, reqs) /\ t.buf = s.buf /\ t.wins = s.wins /\ t.conns = s.conns
         /\ \A c \in Clients : \A self : ClientInv(c, self, s, reqs) => ClientInv(c, self, t, reqs)
<1>1. CASE Dock \in s.wins
  BY <1>1, QueueStep, IpcAssumption DEF NotifyDock
<1>2. CASE Dock \notin s.wins
  BY <1>2 DEF NotifyDock
<1> QED BY <1>1, <1>2

\* Who has a window is known to the server only.
LEMMA WinsServer ==
  ASSUME NEW s, NEW t, NEW reqs, ServerInv(s, reqs), t \in ServerType, t.conns = s.conns, t.queue = s.queue,
         \A c \in t.wins : c \in s.wins \/ s.conns[c] # 0
  PROVE  ServerInv(t, reqs)
BY DEF ServerInv, ConnsInv, QueuedInv

\* The request that is handled is the first of all requests.
LEMMA FirstRequest ==
  ASSUME IpcInv, srv.buf # <<>>, NEW s, s = [srv EXCEPT !.buf = Tail(@)], NEW reqs, reqs = srv.buf \o c2s
  PROVE  /\ reqs \in Seq(Items) /\ reqs # <<>> /\ Head(srv.buf) = reqs[1] /\ reqs[1].n \in Clients
         /\ s \in ServerType /\ s.conns = srv.conns /\ s.wins = srv.wins /\ s.sent = srv.sent /\ s.queue = srv.queue
         /\ s.buf \o c2s = Tail(reqs) /\ ServerInv(s, Tail(reqs)) /\ ServerInv(srv, reqs)
<1> DEFINE b == srv.buf
<1>1. /\ srv \in ServerType /\ c2s \in Seq(Items) /\ b \in Seq(Items) /\ reqs \in Seq(Items) /\ ServerInv(srv, reqs)
      /\ b # <<>> /\ reqs = b \o c2s
  BY Parts DEF IpcInv
<1> HIDE DEF b
<1>2. /\ Tail(b) \in Seq(Items) /\ Head(b) = b[1] /\ Tail(reqs) = Tail(b) \o c2s /\ reqs # <<>> /\ reqs[1] = b[1]
  <2>1. Tail(b \o c2s) = Tail(b) \o c2s /\ b \o c2s # <<>> /\ (b \o c2s)[1] = b[1]
    BY <1>1, HeadTail
  <2> QED BY <1>1, <2>1, HeadTail
<1>3. /\ Tail(reqs) \in Seq(Items) /\ 1 \in DOMAIN reqs
      /\ \A i \in DOMAIN Tail(reqs) : i + 1 \in DOMAIN reqs /\ Tail(reqs)[i] = reqs[i + 1]
  BY <1>1, <1>2, HeadTail
<1>4. \A i \in DOMAIN reqs : reqs[i].n \in Clients
  BY <1>1 DEF ServerInv
<1>5. /\ s \in ServerType /\ s.conns = srv.conns /\ s.wins = srv.wins /\ s.sent = srv.sent /\ s.queue = srv.queue
      /\ s.buf = Tail(b)
  BY <1>1, <1>2 DEF ServerType, b
<1>6. \A i \in DOMAIN Tail(reqs) : Tail(reqs)[i].n \in Clients
  BY <1>3, <1>4
<1>7. ServerInv(s, Tail(reqs))
  BY <1>1, <1>3, <1>5, <1>6 DEF ServerInv, ConnsInv, QueuedInv
<1> QED BY <1>1, <1>2, <1>3, <1>4, <1>5, <1>7 DEF b

\* The key in a request is that of the connection of the client that asked.
LEMMA Owner ==
  ASSUME IpcInv, srv.buf # <<>>, Head(srv.buf).id # GreetMessage.id
  PROVE  OwnerOf(Head(srv.buf).key) = Head(srv.buf).n /\ srv.conns[Head(srv.buf).n] # 0
<1> DEFINE reqs == srv.buf \o c2s
           m == Head(srv.buf)
           e == m.n
           r == cl[e].req
           s == [srv EXCEPT !.buf = Tail(@)]
<1>1. reqs \in Seq(Items) /\ reqs # <<>> /\ m = reqs[1] /\ e \in Clients
  <2>1. s = [srv EXCEPT !.buf = Tail(@)] /\ reqs = srv.buf \o c2s
    OBVIOUS
  <2> HIDE DEF s, reqs
  <2> QED BY <2>1, FirstRequest
<1>2. srv \in ServerType /\ ConnsInv(srv) /\ cl[e] \in ClientType /\ ClientInv(e, cl[e], srv, reqs)
  BY <1>1, Parts
<1> HIDE DEF reqs, m
<1>3. reqs[1].n = e
  BY <1>1
<1>4. r \in Requests /\ reqs[1].id = r.id
  <2>1. AskInv(e, cl[e], srv, reqs) /\ r \in Requests
    BY <1>2, ClientTypes DEF ClientInv
  <2>2. 1 \in Pending(e, reqs)
    BY <1>1, <1>3, <2>1, Handled
  <2> QED BY <2>1, <2>2 DEF AskInv
<1>5. r # GreetMessage
  BY <1>1, <1>4 DEF m
<1> HIDE DEF e, r
<1>6. m.key = srv.conns[e] /\ srv.conns[e] # 0
  BY <1>1, <1>2, <1>3, <1>4, <1>5, AskerKey
<1>7. \A c \in Clients : srv.conns[c] = m.key <=> c = e
  BY <1>1, <1>2, <1>6 DEF ConnsInv
<1> QED BY <1>1, <1>6, <1>7 DEF OwnerOf, e, m

\* A request of a client with a connection is answered.
LEMMA HandleReply ==
  ASSUME IpcInv, srv.buf # <<>>, NEW s, s = [srv EXCEPT !.buf = Tail(@)], NEW m, m = Head(srv.buf),
         NEW r \in Requests, r # GreetMessage, m.id = r.id,
         cl' = Broadcast(<<Item(Server, r.reply_id, m.key, m.n)>>), NEW rest, rest = s.buf \o c2s
  PROVE  /\ s \in ServerType /\ ServerInv(s, rest) /\ m.n \in Clients
         /\ \A c \in Clients : ClientInv(c, cl'[c], s, rest)
         /\ cl'[m.n].req = r /\ Pending(m.n, rest) = {}
         /\ DOMAIN cl' = Clients /\ cl' = [c \in Clients |-> cl'[c]]
<1> DEFINE reqs == srv.buf \o c2s
           e == m.n
           x == Item(Server, r.reply_id, m.key, m.n)
           self == cl[e]
<1>1. /\ reqs \in Seq(Items) /\ reqs # <<>> /\ m = reqs[1] /\ e \in Clients
      /\ s \in ServerType /\ s.conns = srv.conns /\ s.wins = srv.wins /\ s.sent = srv.sent /\ s.queue = srv.queue
      /\ rest = Tail(reqs) /\ ServerInv(s, rest)
  BY FirstRequest
<1>2. srv \in ServerType /\ ConnsInv(srv) /\ \A d \in Clients : ClientInv(d, cl[d], srv, reqs)
  BY Parts
<1> HIDE DEF reqs
<1>3. /\ reqs[1].n = e /\ reqs[1].id = r.id /\ ClientInv(e, self, srv, reqs)
      /\ x \in Items /\ x.magic = Server /\ x.id = r.reply_id /\ x.key = reqs[1].key
  <2>1. reqs[1].n = e /\ reqs[1].id = r.id /\ ClientInv(e, self, srv, reqs)
    BY <1>1, <1>2
  <2>2. r.reply_id \in Nat /\ Server \in Nat
    BY Ids DEF Requests
  <2>3. reqs[1] \in Items
    BY <1>1
  <2>4. reqs[1].key \in Nat /\ reqs[1].n \in Nat
    BY <2>3 DEF Items
  <2>5. x = Item(Server, r.reply_id, reqs[1].key, reqs[1].n)
    BY <1>1
  <2> QED BY <2>1, <2>2, <2>4, <2>5 DEF Item, Items
<1> HIDE DEF e, x, self
<1>5. /\ srv \in ServerType /\ reqs \in Seq(Items) /\ e \in Clients /\ reqs # <<>> /\ reqs[1].n = e /\ ConnsInv(srv)
      /\ r \in Requests /\ reqs[1].id = r.id /\ r # GreetMessage /\ x \in Items /\ x.magic = Server
      /\ x.id = r.reply_id /\ x.key = reqs[1].key /\ ClientInv(e, self, srv, reqs)
  BY <1>1, <1>2, <1>3
<1>4. /\ self.st = "wait" /\ ClientInv(e, Grown(self, x), srv, Tail(reqs))
       /\ Pending(e, Tail(reqs)) = {} /\ Grown(self, x).req = r
  <2>1. /\ self.st = "wait" /\ self.req = r /\ reqs[1].key = AskKey(e, self) /\ Pending(e, Tail(reqs)) = {}
        /\ self.req = CreateWindowMessage => srv.sent[e] = 0
        /\ (\A i \in DOMAIN Incoming(self) : ~IsReply(Incoming(self)[i], e, srv.conns)) /\ self \in ClientType
    BY ONLY <1>5, Asker
  <2>2. ClientInv(e, Grown(self, x), srv, Tail(reqs))
    BY ONLY <1>5, <2>1, OwnReply
  <2>3. Grown(self, x).req = r
    BY ONLY <1>5, <2>1, GrownFields
  <2> QED BY <2>1, <2>2, <2>3
<1>6. /\ DOMAIN cl' = Clients /\ cl' = [c \in Clients |-> cl'[c]]
      /\ \A c \in Clients : cl'[c] = IF cl[c].st \in Running THEN Grown(cl[c], x) ELSE cl[c]
  BY BroadcastTo DEF x
<1>7. cl'[e] = Grown(self, x)
  BY <1>1, <1>4, <1>6 DEF Running, self
<1>8. \A c \in Clients : ClientInv(c, cl'[c], srv, rest)
  <2> TAKE c \in Clients
  <2>1. CASE c = e
    BY <1>1, <1>4, <1>7, <2>1
  <2>2. CASE c # e
    <3>1. ClientInv(c, cl[c], srv, reqs)
      BY <1>2
    <3>2. /\ cl[c].st \in Running => ClientInv(c, Grown(cl[c], x), srv, Tail(reqs))
          /\ ClientInv(c, cl[c], srv, Tail(reqs))
      BY ONLY c \in Clients, <1>5, <2>2, <3>1, ReplyOthers
    <3> QED BY <1>1, <1>6, <3>2
  <2> QED BY <2>1, <2>2
<1>9. \A c \in Clients : ClientInv(c, cl'[c], s, rest)
  BY <1>1, <1>8, SameServer
<1> QED BY <1>1, <1>4, <1>6, <1>7, <1>9 DEF e

\* A greeting is answered with the id of the connection.
LEMMA HandleGreet ==
  ASSUME IpcInv, srv.buf # <<>>, NEW s, s = [srv EXCEPT !.buf = Tail(@)], NEW m, m = Head(srv.buf), m.id = GreetMessage.id,
         NEW n, n = Cardinality({c \in Clients : srv.conns[c] # 0}) + 1,
         srv' = [s EXCEPT !.conns[m.key] = n], c2s' = c2s,
         cl' = Broadcast(<<Item(Server, GreetMessage.reply_id, m.key, n)>>), PidsApart'
  PROVE  IpcInv'
<1> DEFINE reqs == srv.buf \o c2s
           e == m.n
           x == Item(Server, GreetMessage.reply_id, m.key, n)
           self == cl[e]
           t == srv'
           rest == s.buf \o c2s
<1>1. /\ reqs \in Seq(Items) /\ reqs # <<>> /\ m = reqs[1] /\ e \in Clients
      /\ s \in ServerType /\ s.conns = srv.conns /\ s.wins = srv.wins /\ s.sent = srv.sent /\ s.queue = srv.queue
      /\ rest = Tail(reqs) /\ ServerInv(s, rest)
  BY FirstRequest
<1>2. /\ srv \in ServerType /\ ConnsInv(srv) /\ QueuedInv(srv) /\ c2s \in Seq(Items)
      /\ \A d \in Clients : ClientInv(d, cl[d], srv, reqs)
  BY Parts
<1>3. n = Cardinality(Connected(srv.conns)) + 1 /\ n \in Nat
  <2>1. IsFiniteSet(Clients) /\ Connected(srv.conns) \in SUBSET Clients
    BY IpcAssumption DEF Connected
  <2>2. Cardinality(Connected(srv.conns)) \in Nat
    BY <2>1, FS_Subset, FS_CardinalityType
  <2> QED BY <2>2 DEF Connected
<1> HIDE DEF reqs, rest
<1>4. /\ t \in ServerType /\ t.wins = s.wins /\ t.sent = s.sent /\ t.queue = s.queue /\ t.buf = s.buf
      /\ t.conns = [s.conns EXCEPT ![m.key] = n]
  <2>1. s.conns \in [Clients -> Nat]
    BY <1>1 DEF ServerType
  <2>2. [s.conns EXCEPT ![m.key] = n] \in [Clients -> Nat]
    BY <1>3, <2>1
  <2> QED BY <1>1, <2>2 DEF ServerType
<1>5. /\ reqs[1].n = e /\ reqs[1].id = GreetMessage.id /\ x = Item(Server, GreetMessage.reply_id, reqs[1].key, n)
      /\ ClientInv(e, self, srv, reqs) /\ t.conns = [srv.conns EXCEPT ![reqs[1].key] = n]
      /\ t.wins = srv.wins /\ t.sent = srv.sent /\ t.queue = srv.queue
  BY <1>1, <1>2, <1>4
<1>5a. n \notin Clients
  <2>1. GreetMessage \in Requests
    BY DEF Requests
  <2>2. reqs[1].key = AskKey(e, self) /\ self.req = GreetMessage
    BY <1>1, <1>2, <1>5, <2>1, Asker
  <2>3. m.key = e
    BY <1>1, <2>2 DEF AskKey
  <2>4. s.conns \in [Clients -> Nat]
    BY <1>1 DEF ServerType
  <2>5. srv'.conns[e] = n
    BY <1>1, <1>4, <2>3, <2>4
  <2> QED BY <1>1, <2>5 DEF PidsApart
<1> HIDE DEF e, x, self, t
<1>6. /\ ConnsInv(t) /\ QueuedInv(t) /\ self.st = "wait" /\ ClientInv(e, Grown(self, x), t, Tail(reqs))
      /\ \A c \in Clients : \A o : c # e /\ ClientInv(c, o, srv, reqs) =>
           /\ o.st \in Running => ClientInv(c, Grown(o, x), t, Tail(reqs))
           /\ ClientInv(c, o, t, Tail(reqs))
  <2>1. /\ srv \in ServerType /\ t \in ServerType /\ reqs \in Seq(Items) /\ e \in Clients /\ reqs # <<>> /\ reqs[1].n = e
        /\ ConnsInv(srv) /\ QueuedInv(srv) /\ reqs[1].id = GreetMessage.id /\ n = Cardinality(Connected(srv.conns)) + 1
        /\ t.conns = [srv.conns EXCEPT ![reqs[1].key] = n] /\ t.wins = srv.wins /\ t.sent = srv.sent /\ t.queue = srv.queue
        /\ x = Item(Server, GreetMessage.reply_id, reqs[1].key, n) /\ ClientInv(e, self, srv, reqs)
        /\ n \notin Clients
    BY <1>1, <1>2, <1>3, <1>4, <1>5, <1>5a
  <2> QED BY ONLY <2>1, GreetStep, SMTT(60)
<1>7. /\ DOMAIN cl' = Clients /\ cl' = [c \in Clients |-> cl'[c]]
      /\ \A c \in Clients : cl'[c] = IF cl[c].st \in Running THEN Grown(cl[c], x) ELSE cl[c]
  BY BroadcastTo DEF x
<1>8. cl'[e] = Grown(self, x)
  BY <1>1, <1>6, <1>7 DEF Running, self
<1>9. \A c \in Clients : ClientInv(c, cl'[c], t, rest)
  <2> TAKE c \in Clients
  <2>1. CASE c = e
    BY <1>1, <1>6, <1>8, <2>1
  <2>2. CASE c # e
    <3>1. ClientInv(c, cl[c], srv, reqs)
      BY <1>2
    <3>2. /\ cl[c].st \in Running => ClientInv(c, Grown(cl[c], x), t, Tail(reqs))
          /\ ClientInv(c, cl[c], t, Tail(reqs))
      BY <1>6, <2>2, <3>1
    <3> QED BY <1>1, <1>7, <3>2
  <2> QED BY <2>1, <2>2
<1>10. ServerInv(t, rest)
  BY <1>1, <1>4, <1>6 DEF ServerInv
<1>11. rest = t.buf \o c2s'
  <2>1. t.buf = s.buf /\ c2s' = c2s /\ rest = s.buf \o c2s
    BY <1>4 DEF rest
  <2> QED BY ONLY <2>1
<1>12. srv' = t /\ c2s' \in Seq(Items)
  BY <1>2 DEF t
<1> QED BY ONLY <1>7, <1>9, <1>10, <1>11, <1>12, ServerMoves

\* A window is made: its client has the reply and the dock two events.
LEMMA HandleCreate ==
  ASSUME IpcInv, srv.buf # <<>>, NEW s, s = [srv EXCEPT !.buf = Tail(@)], NEW m, m = Head(srv.buf),
         m.id = CreateWindowMessage.id, c2s' = c2s,
         srv' = NotifyDock([s EXCEPT !.wins = @ \cup {OwnerOf(m.key)}],
                           <<NotifyWindowCreateMessage.id, NotifyWindowIconChangedMessage.id>>),
         cl' = Broadcast(<<Item(Server, CreateWindowMessage.reply_id, m.key, m.n)>>)
  PROVE  IpcInv'
<1> DEFINE rest == s.buf \o c2s
           e == m.n
           t == [s EXCEPT !.wins = @ \cup {OwnerOf(m.key)}]
           ids == <<NotifyWindowCreateMessage.id, NotifyWindowIconChangedMessage.id>>
<1>0. /\ CreateWindowMessage \in Requests /\ CreateWindowMessage # GreetMessage
      /\ ids \in Seq(Nat) /\ \A i \in DOMAIN ids : ids[i] \in EventIds(Dock)
  BY Ids DEF Requests, EventIds
<1>1. /\ s \in ServerType /\ ServerInv(s, rest) /\ e \in Clients /\ OwnerOf(m.key) = e /\ s.conns[e] # 0
      /\ \A c \in Clients : ClientInv(c, cl'[c], s, rest)
      /\ cl'[e].req = CreateWindowMessage /\ Pending(e, rest) = {}
      /\ DOMAIN cl' = Clients /\ cl' = [c \in Clients |-> cl'[c]]
  <2> HIDE DEF rest, ids
  <2>1. rest = s.buf \o c2s
    BY DEF rest
  <2> DEFINE r == CreateWindowMessage
  <2>2. /\ IpcInv /\ srv.buf # <<>> /\ s = [srv EXCEPT !.buf = Tail(@)] /\ m = Head(srv.buf)
        /\ r \in Requests /\ r # GreetMessage /\ m.id = r.id
        /\ cl' = Broadcast(<<Item(Server, r.reply_id, m.key, m.n)>>) /\ rest = s.buf \o c2s
    BY <1>0, <2>1
  <2> HIDE DEF r
  <2>3. s \in ServerType /\ ServerInv(s, rest) /\ m.n \in Clients
    BY ONLY <2>2, HandleReply, Zenon
  <2>4. OwnerOf(m.key) = m.n /\ s.conns[m.n] # 0
    <3>1. srv.buf # <<>> /\ m = Head(srv.buf) /\ m.id # GreetMessage.id
      BY Ids
    <3>2. s.conns = srv.conns
      BY <2>3, Parts DEF ServerType
    <3> QED BY <3>1, <3>2, Owner
  <2>5. \A c \in Clients : ClientInv(c, cl'[c], s, rest)
    BY ONLY <2>2, HandleReply, Zenon
  <2>6. cl'[m.n].req = r /\ Pending(m.n, rest) = {}
    BY ONLY <2>2, HandleReply, ZenonT(40)
  <2>7. DOMAIN cl' = Clients /\ cl' = [c \in Clients |-> cl'[c]]
    BY ONLY <2>2, HandleReply, Zenon
  <2> QED BY <2>3, <2>4, <2>5, <2>6, <2>7 DEF r
<1>2. t \in ServerType /\ t.conns = s.conns /\ t.sent = s.sent /\ t.queue = s.queue /\ t.buf = s.buf /\ t.wins = s.wins \cup {e}
  <2> DEFINE v == s.wins \cup {OwnerOf(m.key)}
  <2>1. v \in SUBSET Clients /\ v = s.wins \cup {e}
    <3>1. s \in ServerType /\ e \in Clients /\ OwnerOf(m.key) = e
      BY <1>1
    <3> HIDE DEF e
    <3> QED BY ONLY <3>1 DEF ServerType
  <2>2. t = [s EXCEPT !.wins = v] /\ s \in ServerType
    BY <1>1
  <2> HIDE DEF t, v, e
  <2> QED BY ONLY <2>1, <2>2 DEF ServerType
<1> HIDE DEF t, ids, rest, e
<1>3. ServerInv(t, rest)
  <2>1. \A c \in t.wins : c \in s.wins \/ s.conns[c] # 0
    BY <1>1, <1>2
  <2> QED BY <1>1, <1>2, <2>1 DEF ServerInv, ConnsInv, QueuedInv
<1>4. \A c \in Clients : ClientInv(c, cl'[c], t, rest)
  <2> TAKE c \in Clients
  <2>1. c = e => Pending(c, rest) = {} /\ cl'[c].req # GreetMessage
    BY ONLY <1>0, <1>1
  <2>2. c \in t.wins => c \in s.wins \/ (Pending(c, rest) = {} /\ cl'[c].req # GreetMessage)
    BY ONLY <1>2, <2>1
  <2>3. ClientInv(c, cl'[c], s, rest) /\ t.conns = s.conns /\ t.sent = s.sent /\ t.queue = s.queue
    BY <1>1, <1>2
  <2> QED BY ONLY <2>2, <2>3, WinsStep, c \in Clients
<1>5. srv' = NotifyDock(t, ids)
  BY DEF t, ids
<1>6. /\ ServerInv(srv', rest) /\ srv'.buf = t.buf
      /\ \A c \in Clients : \A self : ClientInv(c, self, t, rest) => ClientInv(c, self, srv', rest)
  <2>1. t \in ServerType /\ ids \in Seq(Nat) /\ \A i \in DOMAIN ids : ids[i] \in EventIds(Dock)
    BY <1>0, <1>2
  <2> QED BY ONLY <1>3, <1>5, <2>1, NotifyStep
<1>7. rest = srv'.buf \o c2s' /\ c2s' \in Seq(Items)
  <2>1. srv'.buf = s.buf /\ c2s' = c2s /\ rest = s.buf \o c2s /\ c2s \in Seq(Items)
    BY <1>2, <1>6, Parts, Zenon DEF rest
  <2> QED BY ONLY <2>1
<1>8. \A c \in Clients : ClientInv(c, cl'[c], srv', rest)
  BY ONLY <1>4, <1>6
<1>9. ServerInv(srv', rest) /\ DOMAIN cl' = Clients /\ cl' = [c \in Clients |-> cl'[c]]
  BY ONLY <1>1, <1>6, ZenonT(40)
<1> QED BY ONLY <1>7, <1>8, <1>9, ServerMoves

\* A window is closed.
LEMMA HandleDestroy ==
  ASSUME IpcInv, srv.buf # <<>>, NEW s, s = [srv EXCEPT !.buf = Tail(@)], NEW m, m = Head(srv.buf),
         m.id = DestroyWindowMessage.id, c2s' = c2s,
         srv' = [NotifyDock(s, <<NotifyWindowStatusChangedMessage.id>>) EXCEPT !.wins = @ \ {OwnerOf(m.key)}],
         cl' = Broadcast(<<Item(Server, DestroyWindowMessage.reply_id, m.key, m.n)>>)
  PROVE  IpcInv'
<1> DEFINE rest == s.buf \o c2s
           ids == <<NotifyWindowStatusChangedMessage.id>>
           t == NotifyDock(s, ids)
<1>0. /\ DestroyWindowMessage \in Requests /\ DestroyWindowMessage # GreetMessage
      /\ ids \in Seq(Nat) /\ \A i \in DOMAIN ids : ids[i] \in EventIds(Dock)
  BY Ids DEF Requests, EventIds
<1>1. /\ s \in ServerType /\ ServerInv(s, rest) /\ \A c \in Clients : ClientInv(c, cl'[c], s, rest)
      /\ DOMAIN cl' = Clients /\ cl' = [c \in Clients |-> cl'[c]]
  BY <1>0, HandleReply
<1> HIDE DEF ids, rest
<1>2. t = NotifyDock(s, ids) /\ srv' = [t EXCEPT !.wins = @ \ {OwnerOf(m.key)}]
  BY DEF ids
<1> HIDE DEF t
<1>3. /\ ServerInv(t, rest) /\ t.buf = s.buf
      /\ \A c \in Clients : \A self : ClientInv(c, self, s, rest) => ClientInv(c, self, t, rest)
  <2>1. s \in ServerType /\ ids \in Seq(Nat) /\ (\A i \in DOMAIN ids : ids[i] \in EventIds(Dock))
        /\ ServerInv(s, rest) /\ t = NotifyDock(s, ids)
    BY <1>0, <1>1, <1>2
  <2> QED BY ONLY <2>1, NotifyStep
<1>4. /\ srv' \in ServerType /\ srv'.conns = t.conns /\ srv'.sent = t.sent /\ srv'.queue = t.queue /\ srv'.buf = t.buf
      /\ srv'.wins \subseteq t.wins
  <2>1. t \in ServerType
    BY <1>3 DEF ServerInv
  <2> DEFINE w == t.wins \ {OwnerOf(m.key)}
  <2>2. w \in SUBSET Clients /\ w \subseteq t.wins
    BY <2>1 DEF ServerType
  <2>3. srv' = [t EXCEPT !.wins = w]
    BY <1>2
  <2> HIDE DEF w
  <2> QED BY <2>1, <2>2, <2>3 DEF ServerType
<1>5. ServerInv(srv', rest)
  BY <1>3, <1>4, WinsServer
<1>6. \A c \in Clients : ClientInv(c, cl'[c], srv', rest)
  <2> TAKE c \in Clients
  <2>1. ClientInv(c, cl'[c], t, rest)
    BY <1>1, <1>3
  <2>2. srv'.conns = t.conns /\ srv'.sent = t.sent /\ srv'.queue = t.queue /\ (c \in srv'.wins => c \in t.wins)
    BY <1>4
  <2> QED BY ONLY <2>1, <2>2, WinsStep, c \in Clients
<1>7. rest = srv'.buf \o c2s' /\ c2s' \in Seq(Items)
  BY <1>3, <1>4, Parts DEF rest
<1> QED BY <1>1, <1>5, <1>6, <1>7, ServerMoves

\* Handling any request keeps the invariant.
LEMMA SrvHandleKeeps ==
  ASSUME IpcInv, SrvHandle, PidsApart'
  PROVE  IpcInv'
<1> DEFINE m == Head(srv.buf)
           s == [srv EXCEPT !.buf = Tail(@)]
           n == Cardinality({c \in Clients : srv.conns[c] # 0}) + 1
           c == OwnerOf(m.key)
<1>1. /\ srv.buf # <<>> /\ c2s' = c2s
      /\ \/ /\ m.id = GreetMessage.id
            /\ srv' = [s EXCEPT !.conns[m.key] = n]
            /\ cl' = Broadcast(<<Item(Server, GreetMessage.reply_id, m.key, n)>>)
         \/ /\ m.id = CreateWindowMessage.id
            /\ srv' = NotifyDock([s EXCEPT !.wins = @ \cup {c}],
                                 <<NotifyWindowCreateMessage.id, NotifyWindowIconChangedMessage.id>>)
            /\ cl' = Broadcast(<<Item(Server, CreateWindowMessage.reply_id, m.key, m.n)>>)
         \/ /\ m.id = DestroyWindowMessage.id
            /\ srv' = [NotifyDock(s, <<NotifyWindowStatusChangedMessage.id>>) EXCEPT !.wins = @ \ {c}]
            /\ cl' = Broadcast(<<Item(Server, DestroyWindowMessage.reply_id, m.key, m.n)>>)
         \/ \E r \in {MenuBarCreateMenuMessage, MenuBarCreateItemMessage, PopupShowMenuMessage} :
            /\ m.id = r.id /\ srv' = s
            /\ cl' = Broadcast(<<Item(Server, r.reply_id, m.key, m.n)>>)
  BY DEF SrvHandle
<1> HIDE DEF m, s, n
<1>2. m = Head(srv.buf) /\ s = [srv EXCEPT !.buf = Tail(@)] /\ n = Cardinality({d \in Clients : srv.conns[d] # 0}) + 1
  BY DEF m, s, n
<1>3. ASSUME NEW r \in {MenuBarCreateMenuMessage, MenuBarCreateItemMessage, PopupShowMenuMessage},
             m.id = r.id, srv' = s, cl' = Broadcast(<<Item(Server, r.reply_id, m.key, m.n)>>)
      PROVE  IpcInv'
  <2>1. r \in Requests /\ r # GreetMessage
    BY Ids DEF Requests
  <2> DEFINE rest == s.buf \o c2s
  <2> HIDE DEF rest
  <2>2. rest = s.buf \o c2s /\ c2s \in Seq(Items)
    BY Parts DEF rest
  <2>3. /\ ServerInv(s, rest) /\ \A d \in Clients : ClientInv(d, cl'[d], s, rest)
        /\ DOMAIN cl' = Clients /\ cl' = [d \in Clients |-> cl'[d]]
    BY <1>1, <1>2, <1>3, <2>1, <2>2, HandleReply, Zenon
  <2> QED BY <1>1, <1>3, <2>2, <2>3, ServerMoves, Zenon
<1>4. ASSUME m.id = GreetMessage.id, srv' = [s EXCEPT !.conns[m.key] = n],
             cl' = Broadcast(<<Item(Server, GreetMessage.reply_id, m.key, n)>>)
      PROVE  IpcInv'
  BY <1>1, <1>2, <1>4, HandleGreet
<1>5. ASSUME m.id = CreateWindowMessage.id,
             srv' = NotifyDock([s EXCEPT !.wins = @ \cup {c}],
                               <<NotifyWindowCreateMessage.id, NotifyWindowIconChangedMessage.id>>),
             cl' = Broadcast(<<Item(Server, CreateWindowMessage.reply_id, m.key, m.n)>>)
      PROVE  IpcInv'
  BY <1>1, <1>2, <1>5, HandleCreate
<1>6. ASSUME m.id = DestroyWindowMessage.id,
             srv' = [NotifyDock(s, <<NotifyWindowStatusChangedMessage.id>>) EXCEPT !.wins = @ \ {c}],
             cl' = Broadcast(<<Item(Server, DestroyWindowMessage.reply_id, m.key, m.n)>>)
      PROVE  IpcInv'
  BY <1>1, <1>2, <1>6, HandleDestroy
<1> QED BY <1>1, <1>3, <1>4, <1>5, <1>6

-----------------------------------------------------------------------------
\* The theorems.

\* The dock is up and nothing is on its way.
LEMMA InitKeeps ==
  ASSUME IpcInit, PidsApart
  PROVE  IpcInv
<1> DEFINE reqs == srv.buf \o c2s
<1>1. /\ srv.buf = <<>> /\ srv.queue = <<>> /\ srv.wins = {Dock} /\ srv.reading = FALSE /\ c2s = <<>>
      /\ srv.conns = [c \in Clients |-> IF c = Dock THEN 1 ELSE 0] /\ srv.sent = [c \in Clients |-> 0]
  BY DEF IpcInit
<1>2. Dock \in Clients /\ IsFiniteSet(Clients) /\ <<>> \in Seq(Items) /\ DOMAIN <<>> = {}
  BY IpcAssumption
<1>3. reqs = <<>> /\ c2s \in Seq(Items)
  BY <1>1, <1>2
<1>4. /\ \A c \in Clients : srv.conns[c] = (IF c = Dock THEN 1 ELSE 0) /\ srv.sent[c] = 0
  BY <1>1
<1>5. srv \in ServerType
  <2>1. srv.conns \in [Clients -> Nat] /\ srv.sent \in [Clients -> Nat] /\ srv.wins \in SUBSET Clients
    BY <1>1, <1>2
  <2>2. srv = [reading |-> srv.reading, buf |-> srv.buf, queue |-> srv.queue, wins |-> srv.wins,
               conns |-> srv.conns, sent |-> srv.sent]
    BY DEF IpcInit
  <2> QED BY <1>1, <1>2, <2>1, <2>2 DEF ServerType
<1>6. Connected(srv.conns) = {Dock} /\ Cardinality(Connected(srv.conns)) = 1
  <2>1. Connected(srv.conns) = {Dock}
    BY <1>2, <1>4 DEF Connected
  <2> QED BY <2>1, FS_Singleton
<1>7. ConnsInv(srv)
  <2>1. \A c \in Clients : srv.conns[c] <= Cardinality(Connected(srv.conns))
    BY <1>4, <1>6
  <2>2. \A c \in srv.wins : srv.conns[c] # 0
    BY <1>1, <1>2, <1>4
  <2> QED BY <1>2, <1>4, <2>1, <2>2 DEF ConnsInv, PidsApart, Apart
<1>8. ServerInv(srv, reqs)
  BY <1>1, <1>2, <1>3, <1>5, <1>7 DEF ServerInv, QueuedInv
<1>9. /\ \A c \in Clients : cl[c] = IF c # Dock THEN NewClient
                                   ELSE [NewClient EXCEPT !.st = "run", !.key = 1, !.req = CreateWindowMessage]
      /\ cl = [c \in Clients |-> cl[c]]
  BY DEF IpcInit
<1>10. ASSUME NEW c \in Clients PROVE ClientInv(c, cl[c], srv, reqs)
  <2> DEFINE self == cl[c]
  <2>1. /\ self \in ClientType /\ self.wrong = FALSE /\ self.batch = <<>> /\ self.queue = <<>>
        /\ self.inbox = <<>> /\ self.buf = <<>> /\ self.unread = <<>> /\ self.done = 0
        /\ self.st = IF c = Dock THEN "run" ELSE "off"
        /\ self.key = IF c = Dock THEN 1 ELSE 0
        /\ self.req = IF c = Dock THEN CreateWindowMessage ELSE GreetMessage
    <3>1. MaxRequests \in Nat /\ GreetMessage \in Requests /\ CreateWindowMessage \in Requests
      BY IpcAssumption DEF Requests
    <3>2. NewClient \in ClientType
      BY <1>2, <3>1 DEF NewClient, ClientType
    <3>3. /\ NewClient.wrong = FALSE /\ NewClient.batch = <<>> /\ NewClient.queue = <<>>
          /\ NewClient.inbox = <<>> /\ NewClient.buf = <<>> /\ NewClient.unread = <<>> /\ NewClient.done = 0
          /\ NewClient.st = "off" /\ NewClient.key = 0 /\ NewClient.req = GreetMessage
      BY DEF NewClient
    <3>4. CASE c = Dock
      <4>1. self = [NewClient EXCEPT !.st = "run", !.key = 1, !.req = CreateWindowMessage]
        BY <1>9, <3>4
      <4> HIDE DEF self
      <4>2. self \in ClientType
        BY <3>1, <3>2, <4>1 DEF ClientType
      <4>3. self.st = "run" /\ self.key = 1 /\ self.req = CreateWindowMessage
        BY <3>2, <4>1 DEF ClientType
      <4>4. /\ self.wrong = NewClient.wrong /\ self.batch = NewClient.batch /\ self.queue = NewClient.queue
            /\ self.inbox = NewClient.inbox /\ self.buf = NewClient.buf /\ self.unread = NewClient.unread
            /\ self.done = NewClient.done
        BY <3>2, <4>1 DEF ClientType
      <4> QED BY <3>3, <3>4, <4>2, <4>3, <4>4
    <3>5. CASE c # Dock
      <4>1. self = NewClient
        BY <1>9, <3>5
      <4> QED BY <3>2, <3>3, <3>5, <4>1
    <3> QED BY <3>4, <3>5
  <2> HIDE DEF self
  <2>2. Incoming(self) = <<>> /\ Coming(self, srv) = <<>>
    BY <1>1, <1>2, <2>1 DEF Incoming, Coming
  <2>3. Pending(c, reqs) = {}
    BY <1>2, <1>3 DEF Pending
  <2>4. AskInv(c, self, srv, reqs)
    BY <2>3 DEF AskInv
  <2>5. StageInv(c, self, srv)
    BY <1>1, <1>4, <2>1, <2>2, Ids DEF StageInv
  <2>6. ReplyInv(c, self, srv, reqs)
    BY <1>2, <2>1, <2>2 DEF ReplyInv
  <2>7. LoopInv(c, self, srv)
    BY <1>2, <2>1 DEF LoopInv
  <2>8. Holds(Coming(self, srv), srv.conns[c], self.done, srv.sent[c])
    <3>1. Holds(<<>>, srv.conns[c], 0, 0)
      <4> DEFINE z == <<>>
                 k == srv.conns[c]
      <4>1. z \in Seq(Items) /\ 0 \in Int /\ \A i \in DOMAIN z : ~IsEvent(z[i], k)
        BY <1>2
      <4> HIDE DEF z, k
      <4>2. Holds(z, k, 0, 0)
        BY ONLY <4>1, HoldsNone
      <4> QED BY <4>2 DEF z, k
    <3> QED BY <1>4, <2>1, <2>2, <3>1
  <2> QED BY <2>1, <2>4, <2>5, <2>6, <2>7, <2>8 DEF ClientInv, self
<1>11. cl \in [Clients -> ClientType]
  <2>1. \A c \in Clients : cl[c] \in ClientType
    BY <1>10 DEF ClientInv
  <2> QED BY <1>9, <2>1
<1> QED BY <1>3, <1>8, <1>10, <1>11 DEF IpcInv

\* Every step keeps the invariant.
LEMMA NextKeeps ==
  ASSUME IpcInv, [IpcNext]_ipcvars, PidsApart'
  PROVE  IpcInv'
<1>1. ASSUME NEW c \in Clients, ClientStep(c) PROVE IpcInv'
  <2>1. CASE greeting(c)
    BY <2>1, GreetingKeeps
  <2>2. CASE new_window(c)
    BY <2>2, NewWindowKeeps
  <2>3. CASE RunApp(c)
    BY <2>3, RunAppKeeps
  <2>4. CASE wait_for_answer(c)
    BY <2>4, WaitKeeps
  <2>5. CASE Read(c)
    BY <2>5, ReadKeeps
  <2>6. CASE Pump(c)
    BY <2>6, PumpKeeps
  <2>7. CASE Dispatch(c)
    BY <2>7, DispatchKeeps
  <2>8. CASE \E m \in {MenuBarCreateMenuMessage, MenuBarCreateItemMessage} : create_menu(c, m)
    BY <2>8, CreateMenuKeeps
  <2> QED BY <1>1, <2>1, <2>2, <2>3, <2>4, <2>5, <2>6, <2>7, <2>8 DEF ClientStep
<1>2. ASSUME NEW c \in Clients, NEW id \in Inputs, SrvInput(c, id) PROVE IpcInv'
  BY <1>2, SrvInputKeeps
<1>3. CASE SrvRead
  BY <1>3, SrvReadKeeps
<1>4. CASE SrvHandle
  BY <1>4, SrvHandleKeeps
<1>5. CASE SrvSend
  BY <1>5, SrvSendKeeps
<1>6. CASE UNCHANGED ipcvars
  BY <1>6 DEF IpcInv, ipcvars
<1> QED BY <1>1, <1>2, <1>3, <1>4, <1>5, <1>6 DEF IpcNext, ServerStep

\* The invariant of clients and server: every request has at most one reply on
\* its way, and the events of each client are all there, in their order; in every
\* run in which no connection gets the pid of a client as its id.
THEOREM IpcInvariant == IpcSpec /\ []PidsApart => []IpcInv
<1>1. IpcInit /\ PidsApart => IpcInv
  BY InitKeeps
<1>2. IpcInv /\ PidsApart' /\ [IpcNext]_ipcvars => IpcInv'
  BY NextKeeps
<1> QED BY <1>1, <1>2, PTL DEF IpcSpec

\* send_sync never takes an event for its reply, although wait_for_answer compares
\* no magic, for any number of clients, sizes of reads and numbers of events, in
\* every run in which no connection gets the pid of a client as its id.
THEOREM AnswersAreReplies == IpcSpec /\ []PidsApart => []AnswerIsReply
<1>1. IpcInv => AnswerIsReply
  BY DEF IpcInv, ClientInv, AnswerIsReply
<1> QED BY <1>1, IpcInvariant, PTL

\* A window handles its events in the order the server queued them, each once, for
\* any number of clients, sizes of reads and numbers of events, in every run in
\* which no connection gets the pid of a client as its id.
THEOREM EventsHandledInOrder == IpcSpec /\ []PidsApart => []EventsInOrder
<1>1. IpcInv => EventsInOrder
  <2> SUFFICES ASSUME IpcInv, NEW c \in Clients, cl[c].st \in Running
               PROVE  Holds(Underway(c), srv.conns[c], cl[c].done, srv.sent[c])
    BY DEF EventsInOrder
  <2>1. cl[c] \in ClientType /\ srv \in ServerType /\ ClientInv(c, cl[c], srv, srv.buf \o c2s)
    BY Parts
  <2>2. Holds(Coming(cl[c], srv), srv.conns[c], cl[c].done, srv.sent[c])
    BY <2>1 DEF ClientInv, Running
  <2>3. Coming(cl[c], srv) = Underway(c)
    <3> DEFINE x == cl[c].inbox
               b == cl[c].buf
               u == cl[c].unread
               q == srv.queue
    <3>1. x \in Seq(Items) /\ b \in Seq(Items) /\ u \in Seq(Items) /\ q \in Seq(Items) /\ b \o u \in Seq(Items)
      BY <2>1, ClientTypes, ComingType
    <3>2. /\ Coming(cl[c], srv) = cl[c].batch \o (cl[c].queue \o ((x \o (b \o u)) \o q))
          /\ Underway(c) = cl[c].batch \o (cl[c].queue \o (x \o (b \o (u \o q))))
      BY DEF Coming, Incoming, Underway
    <3> HIDE DEF x, b, u, q
    <3>3. b \o (u \o q) = (b \o u) \o q
      <4>1. b \in Seq(Items) /\ u \in Seq(Items) /\ q \in Seq(Items)
        BY <3>1
      <4> QED BY ONLY <4>1, Assoc, Zenon
    <3> DEFINE v == b \o u
    <3>4. v \in Seq(Items)
      BY <3>1
    <3> HIDE DEF v
    <3>5. (x \o v) \o q = x \o (v \o q)
      <4>1. x \in Seq(Items) /\ q \in Seq(Items)
        BY <3>1
      <4> QED BY ONLY <3>4, <4>1, Assoc
    <3> QED BY <3>2, <3>3, <3>5 DEF v
  <2> QED BY <2>2, <2>3
<1> QED BY <1>1, IpcInvariant, PTL
=============================================================================
