----------------------------- MODULE WsProtocol -----------------------------
(* The wire protocol between the window server and its clients: the messages *)
(* of WSConnection.h, their encoding and the two decoders, which read them   *)
(* back out of a buffer that holds several.  A message class is its magic,   *)
(* id, the id of its reply and the kinds of its fields: "w" a 32-bit word,   *)
(* "s" a string, "p" a point, "r" a rectangle, "v" a vector of strings.  A   *)
(* byte has Base values and a word WordBytes bytes.                          *)
EXTENDS Integers, Sequences, SequencesExt

CONSTANTS Base, WordBytes, MaxBatch
ASSUME WsProtocolAssumption ==
    /\ Base \in Nat /\ WordBytes \in Nat /\ MaxBatch \in Nat
    /\ Base ^ WordBytes > 737

Server == 320
Client == 737
NoReply == -1
Msg(magic, id, reply_id, fields) ==
    [magic |-> magic, id |-> id, reply_id |-> reply_id, fields |-> fields]

GreetMessage == Msg(Server, 1, 2, <<>>)
GreetMessageReply == Msg(Server, 2, NoReply, <<"w">>)
CreateWindowMessage == Msg(Server, 3, 4, <<"w", "w", "w", "w", "s", "s", "s", "w", "w">>)
CreateWindowMessageReply == Msg(Server, 4, NoReply, <<"w">>)
DestroyWindowMessage == Msg(Server, 5, 6, <<"w">>)
DestroyWindowMessageReply == Msg(Server, 6, NoReply, <<"w">>)
SetBufferMessage == Msg(Server, 7, NoReply, <<"w", "w", "w", "r">>)
SetBarStyleMessage == Msg(Server, 8, NoReply, <<"w", "w", "w">>)
SetTitleMessage == Msg(Server, 9, NoReply, <<"w", "s">>)
InvalidateMessage == Msg(Server, 10, NoReply, <<"w", "r">>)
AskBringToFrontMessage == Msg(Server, 11, NoReply, <<"w", "w">>)
MenuBarCreateMenuMessage == Msg(Server, 12, 13, <<"w", "s">>)
MenuBarCreateMenuMessageReply == Msg(Server, 13, NoReply, <<"w", "w">>)
MenuBarCreateItemMessage == Msg(Server, 14, 15, <<"w", "w", "w", "s">>)
MenuBarCreateItemMessageReply == Msg(Server, 15, NoReply, <<"w">>)
\* Mutant: the id of another request's reply.
PopupShowMenuMessageReply15 == Msg(Server, 16, 15, <<"w", "p", "v">>)

PopupShowMenuMessage == Msg(Server, 16, 17, <<"w", "p", "v">>)
PopupShowMenuMessageReply == Msg(Server, 17, NoReply, <<"w", "w">>)

MouseMoveMessage == Msg(Client, 1, NoReply, <<"w", "w", "w">>)
MouseActionMessage == Msg(Client, 2, NoReply, <<"w", "w", "w", "w">>)
MouseLeaveMessage == Msg(Client, 3, NoReply, <<"w", "w", "w">>)
MouseWheelMessage == Msg(Client, 4, NoReply, <<"w", "w", "w", "w">>)
KeyboardMessage == Msg(Client, 5, NoReply, <<"w", "w">>)
DisplayMessage == Msg(Client, 6, NoReply, <<"r">>)
WindowCloseRequestMessage == Msg(Client, 7, NoReply, <<"w">>)
ResizeMessage == Msg(Client, 8, NoReply, <<"w", "r">>)
DisconnectMessage == Msg(Client, 9, NoReply, <<"w">>)
MenuBarActionMessage == Msg(Client, 10, NoReply, <<"w", "w", "w">>)
PopupActionMessage == Msg(Client, 11, NoReply, <<"w", "w", "w">>)
NotifyWindowCreateMessage == Msg(Client, 12, NoReply, <<"w", "s", "s", "w", "w">>)
NotifyWindowStatusChangedMessage == Msg(Client, 13, NoReply, <<"w", "w", "w">>)
NotifyWindowTitleChangedMessage == Msg(Client, 14, NoReply, <<"w", "w", "s">>)
NotifyWindowIconChangedMessage == Msg(Client, 15, NoReply, <<"w", "w", "s">>)

Messages ==
    {GreetMessage, GreetMessageReply, CreateWindowMessage,
     CreateWindowMessageReply, DestroyWindowMessage,
     DestroyWindowMessageReply, SetBufferMessage, SetBarStyleMessage,
     SetTitleMessage, InvalidateMessage, AskBringToFrontMessage,
     MenuBarCreateMenuMessage, MenuBarCreateMenuMessageReply,
     MenuBarCreateItemMessage, MenuBarCreateItemMessageReply,
     PopupShowMenuMessage, PopupShowMenuMessageReply, MouseMoveMessage,
     MouseActionMessage, MouseLeaveMessage, MouseWheelMessage,
     KeyboardMessage, DisplayMessage, WindowCloseRequestMessage,
     ResizeMessage, DisconnectMessage, MenuBarActionMessage,
     PopupActionMessage, NotifyWindowCreateMessage,
     NotifyWindowStatusChangedMessage, NotifyWindowTitleChangedMessage,
     NotifyWindowIconChangedMessage}

\* What the two decoders read for each id.
ServerDecoder ==
    << <<>>, <<"w">>, <<"w", "w", "w", "w", "s", "s", "s", "w", "w">>, <<"w">>,
       <<"w">>, <<"w">>, <<"w", "w", "w", "r">>, <<"w", "w", "w">>,
       <<"w", "s">>, <<"w", "r">>, <<"w", "w">>, <<"w", "s">>, <<"w", "w">>,
       <<"w", "w", "w", "s">>, <<"w">>, <<"w", "p", "v">>, <<"w", "w">> >>
ClientDecoder ==
    << <<"w", "w", "w">>, <<"w", "w", "w", "w">>, <<"w", "w", "w">>,
       <<"w", "w", "w", "w">>, <<"w", "w">>, <<"r">>, <<"w">>, <<"w", "r">>,
       <<"w">>, <<"w", "w", "w">>, <<"w", "w", "w">>,
       <<"w", "s", "s", "w", "w">>, <<"w", "w", "w">>, <<"w", "w", "s">>,
       <<"w", "w", "s">> >>

-----------------------------------------------------------------------------
\* Encoder::append and decode: least significant byte first.
AppendWord(val) == [i \in 1 .. WordBytes |-> (val \div Base ^ (i - 1)) % Base]
WordAt(buf, at) ==
    FoldLeft(LAMBDA v, i : v + buf[at + i - 1] * Base ^ (i - 1), 0, [i \in 1 .. WordBytes |-> i])

\* A string ends with a byte 0; a vector starts with its length.
AppendString(str) == Append(str, 0)
AppendField(kind, val) ==
    CASE kind = "w" -> AppendWord(val)
      [] kind = "s" -> AppendString(val)
      [] kind \in {"p", "r"} -> FlattenSeq([i \in DOMAIN val |-> AppendWord(val[i])])
      [] kind = "v" -> AppendWord(Len(val)) \o FlattenSeq([i \in DOMAIN val |-> AppendString(val[i])])

encode(m, key, vals) ==
    AppendWord(m.magic) \o AppendWord(m.id) \o AppendWord(key) \o
    FlattenSeq([i \in DOMAIN vals |-> AppendField(m.fields[i], vals[i])])

\* Reading moves an offset: r is [at, got], where the next byte is and what was
\* read so far.
DecodeWord(buf, r) == [at |-> r.at + WordBytes, got |-> Append(r.got, WordAt(buf, r.at))]
\* Mutant: the terminator is part of the string.
DecodeStringKeepsEnd(buf, r) ==
    LET end == CHOOSE e \in r.at .. Len(buf) : buf[e] = 0 /\ \A i \in r.at .. e - 1 : buf[i] # 0
    IN [at |-> end + 1, got |-> Append(r.got, SubSeq(buf, r.at, end))]

DecodeString(buf, r) ==
    LET end == CHOOSE e \in r.at .. Len(buf) : buf[e] = 0 /\ \A i \in r.at .. e - 1 : buf[i] # 0
    IN [at |-> end + 1, got |-> Append(r.got, SubSeq(buf, r.at, end - 1))]
Times(n, Op(_), r) == LET f[i \in 0 .. n] == IF i = 0 THEN r ELSE Op(f[i - 1]) IN f[n]
DecodeField(buf, r, kind) ==
    LET inner(n, Op(_), from) ==
            LET q == Times(n, Op, [at |-> from, got |-> <<>>])
            IN [at |-> q.at, got |-> Append(r.got, q.got)]
        word(q) == DecodeWord(buf, q)
        str(q)  == DecodeString(buf, q)
    IN CASE kind = "w" -> DecodeWord(buf, r)
         [] kind = "s" -> DecodeString(buf, r)
         [] kind = "p" -> inner(2, word, r.at)
         [] kind = "r" -> inner(4, word, r.at)
         [] kind = "v" -> inner(WordAt(buf, r.at), str, r.at + WordBytes)

\* decode of a decoder: nothing when the magic is another's, else the message
\* with that id and where the next one starts.
DecodeBy(magic, table, buf, at) ==
    LET id == WordAt(buf, at + WordBytes)
        r  == FoldLeft(LAMBDA q, kind : DecodeField(buf, q, kind),
                       [at |-> at + 3 * WordBytes, got |-> <<>>], table[id])
    IN IF WordAt(buf, at) # magic THEN <<>>
       ELSE << [at  |-> r.at,
                msg |-> [magic |-> magic, id |-> id,
                         key |-> WordAt(buf, at + 2 * WordBytes), vals |-> r.got]] >>

\* pump_messages: the one decoder is tried, then the other, until the end.
pump_messages(buf) ==
    LET one(at) == DecodeBy(Client, ClientDecoder, buf, at) \o DecodeBy(Server, ServerDecoder, buf, at)
        f[at \in 1 .. Len(buf) + 1] ==
            IF at = Len(buf) + 1 THEN <<>> ELSE <<one(at)[1].msg>> \o f[one(at)[1].at]
    IN f[1]

-----------------------------------------------------------------------------
VARIABLES wire, sent

\* Values that fill and overflow a byte, hold its zero, and empty strings.
Samples == 0 .. 3
SampleWord(i, p) == (p * (Base + 1) + (p % 2) * i) % Base ^ WordBytes
SampleString(i, p) == [k \in 1 .. (i + p) % 3 |-> 1 + ((i + k) % (Base - 1))]
SampleValue(kind, i, p) ==
    CASE kind = "w" -> SampleWord(i, p)
      [] kind = "s" -> SampleString(i, p)
      [] kind = "p" -> [k \in 1 .. 2 |-> SampleWord(i + k, p)]
      [] kind = "r" -> [k \in 1 .. 4 |-> SampleWord(i + k, p)]
      [] kind = "v" -> [k \in 1 .. p |-> SampleString(i + k, p)]

WireInit == wire = <<>> /\ sent = <<>>
\* send_message writes a whole message into the socket.
send_message(m, p) ==
    LET vals == [i \in DOMAIN m.fields |-> SampleValue(m.fields[i], i, p)]
    IN /\ Len(sent) < MaxBatch
       /\ wire' = wire \o encode(m, SampleWord(0, p), vals)
       /\ sent' = Append(sent, [magic |-> m.magic, id |-> m.id, key |-> SampleWord(0, p), vals |-> vals])
WireNext == \E m \in Messages, p \in Samples : send_message(m, p)

\* What pump_messages takes out of a buffer is what was sent, message by
\* message and field by field, for every message after every other.
BatchDecoded == pump_messages(wire) = sent

=============================================================================
