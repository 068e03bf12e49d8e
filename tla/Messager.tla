------------------------------ MODULE Messager ------------------------------
(***************************************************************************)
(* Framing of messages on the connection of a client                       *)
(* (pkg/libol/message.go) over the connections it makes one after the      *)
(* other.  Stream: a message is a run of cells, the first one with the     *)
(* magic and the size; the reader gets any part of what was written and    *)
(* keeps what follows a message in a buffer that all readers of the client *)
(* share and that Close flushes (updateConn).  Packet: a message is a      *)
(* datagram, which may be lost or overtaken.                               *)
(*                                                                         *)
(* A reader is the Read goroutine of a connection; ReadMsg takes whatever  *)
(* connection the client has when it is called.                            *)
(***************************************************************************)
EXTENDS Integers, Sequences, FiniteSets, SequencesExt, Functions

CONSTANTS
    Sizes,      \* cells a message may have, its first one included
    BufSize,    \* bufSize, in cells
    MinSize,    \* minSize, in cells
    MaxSize,    \* maxSize, which only packets are held to
    SizeLimit,  \* values of the size field (2^16 bytes in the code)
    MaxMsgs,    \* bound: messages sent
    MaxConns    \* bound: connections

Msgs == 1 .. MaxMsgs
Conns == 1 .. MaxConns
NoConn == 0

VARIABLES
    packet,     \* the client has a PacketMessager
    size,       \* cells of each message
    sent,       \* messages sent on each connection
    next,       \* the next message
    cur,        \* StreamSocket.connection
    last,       \* connections made so far
    wire,       \* cells, or datagrams, under way on each connection
    buffer,     \* StreamMessagerImpl.buffer
    reader,     \* pc of each reader
    on,         \* connection it reads from
    tmp,        \* cells it has
    got,        \* messages received on each connection; negated if not whole
    overlap     \* history: a reader was at work on an older connection

mVars == <<packet, size, sent, next, cur, last, wire, buffer, reader, on, tmp, got, overlap>>

TypeOK ==
    /\ packet \in BOOLEAN /\ size \in [Msgs -> Sizes] /\ next \in 1 .. MaxMsgs + 1
    /\ cur \in Conns \cup {NoConn} /\ last \in 0 .. MaxConns
    /\ Len(buffer) < BufSize \/ buffer = <<>>
    /\ reader \in [Conns -> {"none", "idle", "read", "decode", "gone"}]
    /\ on \in [Conns -> Conns \cup {NoConn}] /\ overlap \in BOOLEAN
    /\ \A c \in Conns : Len(tmp[c]) <= BufSize

\* A datagram is smaller than the size field can say.
Init ==
    /\ packet \in BOOLEAN /\ size \in [Msgs -> Sizes]
    /\ packet => \A m \in Msgs : size[m] <= SizeLimit
    /\ sent = [c \in Conns |-> <<>>] /\ next = 1
    /\ cur = NoConn /\ last = 0 /\ wire = [c \in Conns |-> <<>>] /\ buffer = <<>>
    /\ reader = [c \in Conns |-> "none"] /\ on = [c \in Conns |-> NoConn]
    /\ tmp = [c \in Conns |-> <<>>] /\ got = [c \in Conns |-> <<>>] /\ overlap = FALSE

-----------------------------------------------------------------------------
(* The format.                                                             *)

Cells(m) == [i \in 1 .. size[m] |-> <<m, i>>]

\* encode: the size is cut to 16 bits, and all cells are written.
Declared(m) == 1 + ((size[m] - 1) % SizeLimit)

Whole(frame) == frame = Cells(frame[1][1])
Tag(frame) == IF Whole(frame) THEN frame[1][1] ELSE -frame[1][1]

\* decode: nothing yet, an error, or a frame and the rest.
IsMagic(buf) == buf[1][2] = 1
HasFrame(buf) == Len(buf) >= MinSize /\ IsMagic(buf) /\ Len(buf) >= Declared(buf[1][1])
BadMagic(buf) == Len(buf) >= MinSize /\ ~IsMagic(buf)
FrameOf(buf) == SubSeq(buf, 1, Declared(buf[1][1]))
RestOf(buf) == SubSeq(buf, Declared(buf[1][1]) + 1, Len(buf))

-----------------------------------------------------------------------------
(* The connections of the client, and the peer that sends.                 *)

Connect ==
    /\ cur = NoConn /\ last < MaxConns
    /\ last' = last + 1 /\ cur' = last' /\ reader' = [reader EXCEPT ![last'] = "idle"]
    /\ overlap' = (overlap \/ \E c \in Conns : reader[c] \in {"idle", "read", "decode"})
    /\ UNCHANGED <<packet, size, sent, next, wire, buffer, on, tmp, got>>

NoFlush(b) == b

\* updateConn(nil) drops the connection and flushes the buffer.
Flush(b) == <<>>
Close ==
    /\ cur # NoConn /\ cur' = NoConn /\ buffer' = Flush(buffer)
    /\ wire' = [wire EXCEPT ![cur] = <<>>]
    /\ overlap' = (overlap \/ \E c \in Conns : reader[c] = "decode")
    /\ UNCHANGED <<packet, size, sent, next, last, reader, on, tmp, got>>

\* Send: writeX writes all of it, on whatever connection the client has.
Send ==
    /\ cur # NoConn /\ next <= MaxMsgs
    /\ next' = next + 1 /\ sent' = [sent EXCEPT ![cur] = Append(@, next)]
    /\ wire' = [wire EXCEPT ![cur] = IF packet THEN Append(@, next) ELSE @ \o Cells(next)]
    /\ UNCHANGED <<packet, size, cur, last, buffer, reader, on, tmp, got, overlap>>

Lose(i) ==
    /\ packet /\ cur # NoConn /\ i \in DOMAIN wire[cur]
    /\ wire' = [wire EXCEPT ![cur] = RemoveAt(@, i)]
    /\ UNCHANGED <<packet, size, sent, next, cur, last, buffer, reader, on, tmp, got, overlap>>

-----------------------------------------------------------------------------
(* ReadMsg and Receive of the stream.                                      *)

Becomes(r, s) == reader' = [reader EXCEPT ![r] = s]
\* Receive returns, and its variables with it.
Returns(r, s) ==
    /\ Becomes(r, s)
    /\ on' = [on EXCEPT ![r] = NoConn] /\ tmp' = [tmp EXCEPT ![r] = <<>>]
Deliver(c, frame) == got' = [got EXCEPT ![c] = Append(@, Tag(frame))]

\* A message in the buffer is returned without a read, else tmp starts with it.
ReceiveBegin(r) ==
    /\ reader[r] = "idle" /\ ~packet /\ cur # NoConn
    /\ \/ HasFrame(buffer) /\ Deliver(cur, FrameOf(buffer)) /\ buffer' = RestOf(buffer)
          /\ UNCHANGED <<reader, on, tmp>>
       \/ BadMagic(buffer) /\ Becomes(r, "gone") /\ UNCHANGED <<buffer, on, tmp, got>>
       \/ ~HasFrame(buffer) /\ ~BadMagic(buffer) /\ Becomes(r, "read")
          /\ on' = [on EXCEPT ![r] = cur] /\ tmp' = [tmp EXCEPT ![r] = buffer]
          /\ UNCHANGED <<buffer, got>>
    /\ UNCHANGED <<packet, size, sent, next, cur, last, wire, overlap>>

RoomOfBuffer(r) == BufSize - 1 - Len(tmp[r])
Room(r) == BufSize - Len(tmp[r])

\* conn.Read gives one cell or more; into an empty slice it gives nothing.
ReadSome(r, k) ==
    /\ reader[r] = "read" /\ cur = on[r]
    /\ k \in 1 .. Len(wire[on[r]]) /\ k <= Room(r)
    /\ tmp' = [tmp EXCEPT ![r] = @ \o SubSeq(wire[on[r]], 1, k)]
    /\ wire' = [wire EXCEPT ![on[r]] = SubSeq(@, k + 1, Len(@))]
    /\ Becomes(r, "decode")
    /\ UNCHANGED <<packet, size, sent, next, cur, last, buffer, on, got, overlap>>

DecodeSome(r) ==
    /\ reader[r] = "decode"
    /\ \/ HasFrame(tmp[r]) /\ Deliver(on[r], FrameOf(tmp[r])) /\ buffer' = RestOf(tmp[r])
          /\ Returns(r, "idle")
       \/ BadMagic(tmp[r]) /\ Returns(r, "gone") /\ UNCHANGED <<buffer, got>>
       \/ ~HasFrame(tmp[r]) /\ ~BadMagic(tmp[r]) /\ Becomes(r, "read")
          /\ UNCHANGED <<buffer, on, tmp, got>>
    /\ UNCHANGED <<packet, size, sent, next, cur, last, wire, overlap>>

\* The connection is gone: not okay, or an error of Read.
ReadFails(r) ==
    /\ \/ reader[r] = "idle" /\ cur = NoConn
       \/ reader[r] = "read" /\ cur # on[r]
    /\ Returns(r, "gone")
    /\ UNCHANGED <<packet, size, sent, next, cur, last, wire, buffer, got, overlap>>

\* Receive of packets: any datagram under way, held to MaxSize.
Accepted(m) == Declared(m) \in MinSize .. MaxSize
ReceivePacket(r, i) ==
    /\ packet /\ reader[r] = "idle" /\ cur # NoConn /\ i \in DOMAIN wire[cur]
    /\ LET m == wire[cur][i]
           have == SubSeq(Cells(m), 1, IF size[m] < BufSize THEN size[m] ELSE BufSize)
       IN IF Accepted(m)
          THEN Deliver(cur, SubSeq(have, 1, Declared(m))) /\ UNCHANGED reader
          ELSE Becomes(r, "gone") /\ UNCHANGED got
    /\ wire' = [wire EXCEPT ![cur] = RemoveAt(@, i)]
    /\ UNCHANGED <<packet, size, sent, next, cur, last, buffer, on, tmp, overlap>>

Next ==
    \/ Connect \/ Close \/ Send
    \/ \E i \in Msgs : Lose(i) \/ \E r \in Conns : ReceivePacket(r, i)
    \/ \E r \in Conns : ReceiveBegin(r) \/ DecodeSome(r) \/ ReadFails(r)
    \/ \E r \in Conns, k \in 1 .. BufSize : ReadSome(r, k)

Spec == Init /\ [][Next]_mVars

-----------------------------------------------------------------------------
(* What is received on a stream connection is what was sent on it, whole   *)
(* and in order, however the reads cut it up and whatever an earlier       *)
(* connection left behind, unless a reader of an earlier connection held   *)
(* bytes at its Close or lives on beside the next one: that one shares the *)
(* buffer.  A message too large for the size field is cut.                 *)
Intact ==
    ~packet /\ ~overlap =>
      \A c \in Conns : \A i \in DOMAIN got[c] :
        /\ i \in DOMAIN sent[c]
        /\ got[c][i] \in {sent[c][i], -sent[c][i]}
        /\ size[sent[c][i]] <= SizeLimit => got[c][i] = sent[c][i]

(* A reader runs out of room for the rest of a message only if the message *)
(* is larger than the whole buffer: then it reads nothing for ever.        *)
StallsOnOversize ==
    \A r \in Conns : reader[r] = "read" /\ ~overlap /\ Room(r) = 0 =>
        Declared(tmp[r][1][1]) > BufSize

(* A datagram is received whole or not at all, and at most once, although  *)
(* the packet reader never compares what it read with the size it says:    *)
(* the limit on the size keeps it within the buffer.                       *)
PacketsWhole ==
    packet => \A c \in Conns :
        /\ \A i \in DOMAIN got[c] : got[c][i] \in Range(sent[c])
        /\ \A i, j \in DOMAIN got[c] : i # j => got[c][i] # got[c][j]

(* message.go: streams deliver what was sent, whole and in order, packets  *)
(* whole or not at all, and only an oversized message stalls a reader.     *)
MessagesIntact == Intact /\ StallsOnOversize /\ PacketsWhole
=============================================================================
