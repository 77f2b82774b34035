----------------------------- MODULE Reassembly -----------------------------
(***************************************************************************)
(* src/recv.rs: one record read from a socket, folded into the accumulator *)
(* that lives in the socket object.  The payload of a data record is a     *)
(* piece of a message; `buf` is the sequence of pieces accumulated so far. *)
(***************************************************************************)
EXTENDS Sequences, Notification, Subsequences

\* A piece names the association and message it belongs to and its place in
\* the message, so that what a receive returns can be compared with what was
\* sent.
Piece == [assoc : Nat, msg : Nat, part : Nat, last : BOOLEAN]

MsgFlags == {"MSG_NOTIFICATION", "MSG_EOR"}

DataChunk == [flags : {{}, {"MSG_EOR"}}, piece : Piece]
NoteChunk == [flags : {MsgFlags}, raw : RawNotification]
Chunk     == DataChunk \cup NoteChunk

Data(p)   == [flags |-> IF p.last THEN {"MSG_EOR"} ELSE {}, piece |-> p]
Note(raw) == [flags |-> MsgFlags, raw |-> raw]

IsData(chunk) == "MSG_NOTIFICATION" \notin chunk.flags
IsEnding(chunk) == ~IsData(chunk) /\ Ends(ParseNotification(chunk.raw))

\* Mutants: a notification discards the accumulator, or its bytes are added to
\* it before the flag is looked at; the accumulator is copied and not taken.
NotedDiscards(buf, chunk) == <<>>
NotedExtends(buf, chunk)  == Append(buf, chunk.raw)
TakenCopies(buf, chunk)   == Append(buf, chunk.piece)

\* What a notification and what the last piece leave in the accumulator.
Noted(buf, chunk) == buf
Taken(buf, chunk) == <<>>

\* push_chunk: the classification of a record and the accumulator it leaves.
PushChunk(buf, chunk) ==
  CASE ~IsData(chunk) -> [step |-> "Notification", buf |-> Noted(buf, chunk)]
    [] IsData(chunk) /\ "MSG_EOR" \in chunk.flags ->
         [step |-> "Complete", buf |-> Taken(buf, chunk)]
    [] OTHER -> [step |-> "More", buf |-> Append(buf, chunk.piece)]

\* The payload handed over with Step::Complete: the accumulator and the last
\* piece.
Payload(buf, chunk) == Append(buf, chunk.piece)

-----------------------------------------------------------------------------
(* For the properties: what a queue holds, and what a whole message is.    *)

\* The pieces in the data records of a queue, in order.
DataOf(q) == LET d == Only(q, DataChunk) IN [i \in 1 .. Len(d) |-> d[i].piece]

\* Every piece of one message, in order, to its end.
Whole(p) ==
  /\ p # <<>>
  /\ \A i \in 1 .. Len(p) :
       /\ p[i].assoc = p[1].assoc
       /\ p[i].msg = p[1].msg
       /\ p[i].part = i
       /\ p[i].last = (i = Len(p))

=============================================================================
