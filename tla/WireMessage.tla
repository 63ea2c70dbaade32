----------------------------- MODULE WireMessage -----------------------------
(***************************************************************************)
(* The messages of the wire protocol (util/net/message.h) and the batch of *)
(* results a cursor reads (client/dbclientcursor.h).                       *)
(*                                                                         *)
(* A Message owns one buffer, or a sequence of them, or looks at a buffer  *)
(* somebody else owns.  Its header is the first bytes of the first buffer, *)
(* read and written through little endian views.  A cursor's batch is a    *)
(* Message, and the objects next() hands out point into it.                *)
(***************************************************************************)
EXTENDS ByteOrder, FiniteSets, TLC

CONSTANTS Block,         \* heap blocks
          NULL,
          Tails,         \* sizes of the buffers a caller hands over
          MaxText,       \* bound: bytes a message is given to carry
          MaxDocs,       \* bound: documents of one reply
          MaxBatches     \* bound: replies one cursor receives

ASSUME MessageAssumption ==
    NULL \notin Block /\ Tails \subseteq Nat \ {0} /\ MaxText \in Nat /\ MaxDocs \in Nat

VARIABLES host,          \* byte order of the build
          heap,          \* bytes of the allocated blocks
          caller,        \* blocks the caller has to free
          msg,           \* the Message objects
          text,          \* what each message has been given to carry, in order
          cursor         \* the DBClientCursor

vars == <<host, heap, caller, msg, text, cursor>>

Msgs == {"toSend", "response", "batch"}

-----------------------------------------------------------------------------
(* MSGHEADER and MsgData: layouts and views *)

messageLength == 0
requestID == INT.w
responseTo == 2 * INT.w
opCode == 3 * INT.w
HeaderSize == 4 * INT.w       \* sizeof(MSGHEADER::Value) and MsgDataHeaderSize
opReply == 1
dbQuery == 4                \* 2004 in the code

getInt(b, off) == readLE(host, b, off, INT)
setInt(b, off, v) == Overwrite(b, off, writeLE(host, v, INT))
getMessageLength(b) == getInt(b, messageLength)
getOpCode(b) == getInt(b, opCode)

\* MsgData::ConstView::getCursor(): refuses anything but an answer.
getCursor(b) == readLE(host, b, HeaderSize + INT.w, LL)
MayGetCursor(b) == getInt(b, responseTo) > 0 /\ getOpCode(b) = opReply

dataLen(b) == getMessageLength(b) - HeaderSize

-----------------------------------------------------------------------------
(* Message *)

\* Message(): no buffer.
NoMessage == [buf |-> NULL, data |-> <<>>, freeIt |-> FALSE]

empty(m) == m.buf = NULL /\ m.data = <<>>
\* The buffer header() looks at.
First(m) == IF m.buf # NULL THEN m.buf ELSE m.data[1][1]
buffers(m) == (IF m.buf = NULL THEN {} ELSE {m.buf}) \cup {m.data[i][1] : i \in DOMAIN m.data}

\* What the buffers of a vector hold together.
SizeOf(d) == LET res[i \in 0..Len(d)] == IF i = 0 THEN 0 ELSE res[i - 1] + d[i][2] IN res[Len(d)]
size(m) == IF m.buf # NULL THEN getMessageLength(heap[m.buf]) ELSE SizeOf(m.data)

\* The bytes send() puts on the wire: the one buffer by its header's length, or every one.
Bytes(m) == IF m.buf # NULL THEN SubSeq(heap[m.buf], 1, size(m))
            ELSE FlattenSeq([i \in DOMAIN m.data |-> SubSeq(heap[m.data[i][1]], 1, m.data[i][2])])

\* Blocks reset() and the destructor free.
Frees(m) == IF m.freeIt THEN buffers(m) ELSE {}

Without(blocks) == [b \in DOMAIN heap \ blocks |-> heap[b]]
With(h, b, bytes) == [x \in DOMAIN h \cup {b} |-> IF x = b THEN bytes ELSE h[x]]
Free == Block \ DOMAIN heap

\* Memory malloc() returns holds anything.
Garbage(n) == {[i \in 1..n |-> g] : g \in {0, ByteBase - 1}}

Init ==
    /\ host \in Hosts
    /\ heap = << >> /\ caller = {}
    /\ msg = [m \in Msgs |-> NoMessage]
    /\ text = [m \in Msgs |-> <<>>]
    /\ cursor = [nReturned |-> 0, pos |-> 0, data |-> 0, putBack |-> <<>>, view |-> <<>>,
                 id |-> 0, batches |-> 0, due |-> <<>>]

\* n bytes to carry, which tell the buffers apart.
Body(n) == [i \in 1..n |-> n]

\* The caller builds a buffer of its own: a whole message, or the rest of one.  A thread is
\* through with the answer it has before it makes the next request.
Build(n, first) ==
    /\ cursor.due = <<>>
    /\ \E b \in Free :
       LET header == writeLE(host, HeaderSize + n, INT) \o writeLE(host, 0, INT)
                     \o writeLE(host, 0, INT) \o writeLE(host, dbQuery, INT)
       IN  /\ heap' = With(heap, b, (IF first THEN header ELSE <<>>) \o Body(n))
           /\ caller' = caller \cup {b}
    /\ UNCHANGED <<host, msg, text, cursor>>

\* Has b room for a header, and is it a message with its length in it?
Headed(b) == Len(heap[b]) > HeaderSize
Whole(b) == Headed(b) /\ getMessageLength(heap[b]) = Len(heap[b])

\* The caller's to give away or to free: no message looks at it.
Unlent(b) == b \in caller /\ \A m \in Msgs : b \notin buffers(msg[m])

\* setData(d, freeIt), Message(data, freeIt): the caller's buffer, kept or only looked at.
SetData(m, b, freeIt) ==
    /\ Unlent(b) /\ Whole(b) /\ empty(msg[m])
    /\ msg' = [msg EXCEPT ![m].buf = b, ![m].freeIt = freeIt]
    /\ caller' = IF freeIt THEN caller \ {b} ELSE caller
    /\ text' = [text EXCEPT ![m] = SubSeq(heap[b], HeaderSize + 1, Len(heap[b]))]
    /\ UNCHANGED <<host, heap, cursor>>

\* setData(operation, msgdata, len): a buffer of its own, header and all.
SetDataOperation(m, op, len) ==
    /\ cursor.due = <<>> /\ empty(msg[m])
    /\ \E b \in Free :
       LET dataLength == len + HeaderSize
       IN  /\ \E g \in Garbage(HeaderSize) :
                 heap' = With(heap, b, setInt(setInt(g, messageLength, dataLength), opCode, op) \o Body(len))
           /\ msg' = [msg EXCEPT ![m].buf = b, ![m].freeIt = TRUE]
           /\ text' = [text EXCEPT ![m] = Body(len)]
    /\ UNCHANGED <<host, caller, cursor>>

\* Variant: the header of the first buffer keeps its length when a buffer is added.
AppendDataUncounted(m, b, n) ==
    /\ Unlent(b) /\ n = Len(heap[b])
    /\ LET old == msg[m]
           vec == IF old.buf # NULL THEN Append(old.data, <<old.buf, getMessageLength(heap[old.buf])>>)
                                    ELSE old.data
       IN  /\ ~empty(old) /\ old.freeIt /\ Len(text[m]) + n <= MaxText
           /\ msg' = [msg EXCEPT ![m].buf = NULL, ![m].data = Append(vec, <<b, n>>)]
           /\ caller' = caller \ {b}
           /\ text' = [text EXCEPT ![m] = @ \o heap[b]]
    /\ UNCHANGED <<host, heap, cursor>>

\* appendData(d, size): nothing of size 0 is taken; the first buffer gets its length; a second
\* one moves the message from _buf to _data; verify(_freeIt) throws before anything changes.
AppendData(m, b, n) ==
    /\ Unlent(b) /\ n \in {0, Len(heap[b])}
    /\ LET old == msg[m]
           vec == IF old.buf # NULL THEN Append(old.data, <<old.buf, getMessageLength(heap[old.buf])>>)
                                    ELSE old.data
           bytes == SubSeq(heap[b], IF empty(old) THEN HeaderSize + 1 ELSE 1, n)
       IN  \/ /\ n = 0
              /\ UNCHANGED <<heap, caller, msg, text>>
           \/ /\ n > 0 /\ empty(old) /\ Headed(b)
              /\ heap' = With(heap, b, setInt(heap[b], messageLength, n))
              /\ msg' = [msg EXCEPT ![m].buf = b, ![m].freeIt = TRUE]
              /\ caller' = caller \ {b}
              /\ text' = [text EXCEPT ![m] = bytes]
           \/ /\ n > 0 /\ ~empty(old) /\ old.freeIt /\ Len(text[m]) + n <= MaxText
              /\ msg' = [msg EXCEPT ![m].buf = NULL, ![m].data = Append(vec, <<b, n>>)]
              /\ heap' = With(heap, First(old), setInt(heap[First(old)], messageLength,
                                                       getMessageLength(heap[First(old)]) + n))
              /\ caller' = caller \ {b}
              /\ text' = [text EXCEPT ![m] = @ \o bytes]
           \/ /\ n > 0 /\ ~empty(old) /\ ~old.freeIt
              /\ UNCHANGED <<heap, caller, msg, text>>
    /\ UNCHANGED <<host, cursor>>

\* concat(): one buffer in place of several; reset() frees the old ones.
Concat(m) ==
    /\ msg[m].buf = NULL /\ ~empty(msg[m]) /\ msg[m].freeIt
    /\ \E b \in Free :
           /\ heap' = With(Without(Frees(msg[m])), b, Bytes(msg[m]))
           /\ msg' = [msg EXCEPT ![m] = [buf |-> b, data |-> <<>>, freeIt |-> TRUE]]
    /\ UNCHANGED <<host, caller, text, cursor>>

\* Variant: the source keeps its buffers.
AssignShared(m, r) ==
    /\ empty(msg[m]) /\ msg[r].freeIt
    /\ msg' = [msg EXCEPT ![m] = [buf |-> msg[r].buf, data |-> msg[r].data, freeIt |-> TRUE]]
    /\ text' = [text EXCEPT ![m] = text[r]]
    /\ UNCHANGED <<host, heap, caller, cursor>>

\* operator=: the buffers change hands; the target must be empty and the source own its buffers.
Assign(m, r) ==
    /\ empty(msg[m]) /\ msg[r].freeIt
    /\ msg' = [msg EXCEPT ![m] = [buf |-> msg[r].buf, data |-> msg[r].data, freeIt |-> TRUE],
                          ![r] = NoMessage]
    /\ text' = [text EXCEPT ![m] = text[r], ![r] = <<>>]
    /\ UNCHANGED <<host, heap, caller, cursor>>

\* reset(), ~Message(): what it owns is freed, what it looks at is forgotten.
Reset(m) ==
    /\ ~empty(msg[m])
    /\ heap' = Without(Frees(msg[m]))
    /\ msg' = [msg EXCEPT ![m] = NoMessage]
    /\ text' = [text EXCEPT ![m] = <<>>]
    /\ UNCHANGED <<host, caller, cursor>>

\* The caller frees a buffer no message looks at any more.
CallerFrees(b) ==
    /\ Unlent(b)
    /\ heap' = Without({b}) /\ caller' = caller \ {b}
    /\ UNCHANGED <<host, msg, text, cursor>>

\* MessagingPort::say(): the header gets the message's id, then send() puts Bytes(m) on the wire.
Say(m, id) ==
    /\ ~empty(msg[m])
    /\ LET b == First(msg[m])
       IN  heap' = With(heap, b, setInt(setInt(heap[b], requestID, id), responseTo, 0))
    /\ UNCHANGED <<host, caller, msg, text, cursor>>

-----------------------------------------------------------------------------
(* DBClientCursor *)

\* A document of a reply: size, one byte that tells it from the others, EOO.
Doc(h, tag) == writeLE(h, INT.w + 2, INT) \o <<tag, 0>>
objsize(b, off) == getInt(b, off)

\* An answer of the server to request id: flags, cursor id, position, count and the documents.
Reply(tags, cursorId, id) ==
    LET body == writeLE(host, 0, INT) \o writeLE(host, cursorId, LL) \o writeLE(host, 0, INT)
                \o writeLE(host, Len(tags), INT)
                \o FlattenSeq([i \in DOMAIN tags |-> Doc(host, tags[i])])
    IN  writeLE(host, HeaderSize + Len(body), INT) \o writeLE(host, id, INT)
        \o writeLE(host, id, INT) \o writeLE(host, opReply, INT) \o body
ReplyHeader == HeaderSize + INT.w + LL.w + INT.w + INT.w

\* What the signed length of a header can count to: 2 GiB in the code, whose messages have at
\* most MaxMessageSizeBytes = 48000000 bytes (message.h).
LengthLimit == Power(4) \div 2

SizesFit ==
    /\ HeaderSize + MaxText < LengthLimit
    /\ \A n \in Tails : HeaderSize + n < LengthLimit
    /\ ReplyHeader + (INT.w + 2) * MaxDocs < LengthLimit

ASSUME SizesAssumption == SizesFit

\* objsLeftInBatch(), moreInCurrentBatch(), isDead().
objsLeftInBatch == Len(cursor.putBack) + cursor.nReturned - cursor.pos
moreInCurrentBatch == objsLeftInBatch > 0
isDead == cursor.id = 0

\* dataReceived(): a new Message takes the place of the batch's, which is destroyed.  The caller
\* holds no object then: the operators finish with one before they ask for more().
DataReceived(tags, cursorId) ==
    /\ ~moreInCurrentBatch /\ cursor.view = <<>> /\ cursor.batches < MaxBatches
    /\ cursor.batches > 0 => ~isDead
    /\ \E b \in Free :
       LET kept == Without(Frees(msg["batch"]))
           reply == Reply(tags, cursorId, 1)
       IN  /\ MayGetCursor(reply)
           /\ heap' = With(kept, b, reply)
           /\ msg' = [msg EXCEPT !["batch"] = [buf |-> b, data |-> <<>>, freeIt |-> TRUE]]
           /\ text' = [text EXCEPT !["batch"] = SubSeq(reply, HeaderSize + 1, Len(reply))]
           /\ cursor' = [cursor EXCEPT !.nReturned = Len(tags), !.pos = 0, !.data = ReplyHeader,
                                       !.id = getCursor(reply), !.batches = @ + 1,
                                       !.due = @ \o tags]
    /\ UNCHANGED <<host, caller>>

\* The bytes an object handed out by next() shows: a copy of its own, or its place in the batch.
Shown(o) == IF o.own THEN o.bytes ELSE SubSeq(heap[o.block], o.off + 1, o.off + objsize(heap[o.block], o.off))
Readable(o) == o.own \/ o.block \in DOMAIN heap

\* Variant: what was put back comes after the batch.
NextObjectBatchFirst ==
    /\ moreInCurrentBatch
    /\ cursor' = IF cursor.pos = cursor.nReturned
                 THEN [cursor EXCEPT !.putBack = Front(@), !.view = Append(@, Last(cursor.putBack))]
                 ELSE LET b == msg["batch"].buf
                          o == [own |-> FALSE, block |-> b, off |-> cursor.data, bytes |-> <<>>]
                      IN  [cursor EXCEPT !.pos = @ + 1, !.data = @ + objsize(heap[b], cursor.data),
                                         !.view = Append(@, o)]
    /\ UNCHANGED <<host, heap, caller, msg, text>>

\* next(): what was put back first, else the next object of the batch.
NextObject ==
    /\ moreInCurrentBatch
    /\ cursor' = IF cursor.putBack # <<>>
                 THEN [cursor EXCEPT !.putBack = Front(@), !.view = Append(@, Last(cursor.putBack))]
                 ELSE LET b == msg["batch"].buf
                          o == [own |-> FALSE, block |-> b, off |-> cursor.data, bytes |-> <<>>]
                      IN  [cursor EXCEPT !.pos = @ + 1, !.data = @ + objsize(heap[b], cursor.data),
                                         !.view = Append(@, o)]
    /\ UNCHANGED <<host, heap, caller, msg, text>>

\* putBack(o) of the object taken last: an owned copy on the stack.
PutBack ==
    /\ cursor.view # <<>>
    /\ LET o == [own |-> TRUE, block |-> NULL, off |-> 0, bytes |-> Shown(Last(cursor.view))]
       IN  cursor' = [cursor EXCEPT !.putBack = Append(@, o), !.view = Front(@)]
    /\ UNCHANGED <<host, heap, caller, msg, text>>

\* The caller is done with the object it has held longest.
Consume ==
    /\ cursor.view # <<>>
    /\ cursor' = [cursor EXCEPT !.view = Tail(@), !.due = Tail(@)]
    /\ UNCHANGED <<host, heap, caller, msg, text>>

Next ==
    \/ \E n \in Tails, first \in BOOLEAN : Build(n, first)
    \/ \E b \in caller, freeIt \in BOOLEAN : SetData("toSend", b, freeIt)
    \/ \E n \in Tails : SetDataOperation("toSend", dbQuery, n)
    \/ \E m \in {"toSend", "response"} :
          \/ \E b \in caller : \E n \in {0, Len(heap[b])} : AppendData(m, b, n)
          \/ Concat(m) \/ Reset(m) \/ Say(m, 1)
    \/ Assign("response", "toSend")
    \/ \E b \in caller : CallerFrees(b)
    \/ \E k \in 0..MaxDocs, id \in 0..1 :
          DataReceived([i \in 1..k |-> 10 * cursor.batches + i], id)
    \/ NextObject \/ PutBack \/ Consume

Spec == Init /\ [][Next]_vars

-----------------------------------------------------------------------------
(* Properties *)

\* Every message, buffer and view has its type.
TypeOK ==
    /\ host \in Hosts
    /\ DOMAIN heap \subseteq Block /\ caller \subseteq DOMAIN heap
    /\ \A m \in Msgs : buffers(msg[m]) \subseteq DOMAIN heap
    /\ cursor.pos \in 0..cursor.nReturned

\* What a message points to is allocated, and every block is freed by exactly one party: the
\* message that owns it, and no other message and not the caller, through any order of
\* setData, appendData, concat, assignment and reset.
OwnedOnce ==
    /\ TypeOK
    /\ \A b \in DOMAIN heap :
          Cardinality({m \in Msgs : b \in Frees(msg[m])}) + (IF b \in caller THEN 1 ELSE 0) = 1
    /\ \A m \in Msgs : ~(msg[m].buf # NULL /\ msg[m].data # <<>>)

\* "messageLength; // total message size, including this" (message.h): the header counts the
\* bytes of all the buffers, however many there are by now, size() agrees, and the bytes that
\* send() takes are those handed over, in that order, after the header.
MessageWhole ==
    \A m \in Msgs : ~empty(msg[m]) =>
        LET bytes == Bytes(msg[m])
        IN  /\ getMessageLength(bytes) = Len(bytes) /\ size(msg[m]) = Len(bytes)
            /\ SubSeq(bytes, HeaderSize + 1, Len(bytes)) = text[m]

\* The objects the caller holds can be read, although some were put back and taken again, and
\* they, the ones put back and the rest of the batch are the documents received, in order, each
\* once (dbclientcursor.h next(), putBack(), objsLeftInBatch()).
ObjectsInOrder ==
    LET back == Reverse(cursor.putBack)
        left == cursor.nReturned - cursor.pos
        seen == cursor.view \o back
    IN  /\ \A i \in DOMAIN seen : Readable(seen[i]) /\ Shown(seen[i]) = Doc(host, cursor.due[i])
        /\ Len(cursor.view) + objsLeftInBatch = Len(cursor.due)
        /\ left > 0 => SubSeq(heap[msg["batch"].buf], cursor.data + 1, cursor.data + INT.w + 2)
                       = Doc(host, cursor.due[Len(seen) + 1])

\* Blocks are interchangeable.
Blocks == Permutations(Block)
=============================================================================
