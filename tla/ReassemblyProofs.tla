-------------------------- MODULE ReassemblyProofs --------------------------
(***************************************************************************)
(* What the records of a receive queue are, what push_chunk makes of one,  *)
(* and that a read moves pieces without losing, doubling or reordering     *)
(* any.                                                                    *)
(***************************************************************************)
EXTENDS Reassembly, SequenceProofs

\* A sequence stays one of its set when an element of the set is appended.
LEMMA AppendType ==
  ASSUME NEW S, NEW s \in Seq(S), NEW x \in S
  PROVE  Append(s, x) \in Seq(S)
  OBVIOUS

\* The first piece of the last of three sequences moves to the one before.
LEMMA MoveOver ==
  \A f \in Seq(Piece), b \in Seq(Piece), x \in Piece, d \in Seq(Piece) :
    (f \o Append(b, x)) \o d = (f \o b) \o (<<x>> \o d)
  <1> TAKE f \in Seq(Piece), b \in Seq(Piece), x \in Piece, d \in Seq(Piece)
  <1> DEFINE o == <<x>>
  <1>1. o \in Seq(Piece) /\ Append(b, x) = b \o o
    OBVIOUS
  <1> HIDE DEF o
  <1>3. \A x1 \in Seq(Piece), y1 \in Seq(Piece), z1 \in Seq(Piece) :
          x1 \o (y1 \o z1) = (x1 \o y1) \o z1
    OBVIOUS
  <1>4. f \o b \in Seq(Piece)
    OBVIOUS
  <1>2. (f \o (b \o o)) \o d = (f \o b) \o (o \o d)
    <2>1. f \o (b \o o) = (f \o b) \o o
      BY <1>1, <1>3, Zenon
    <2>2. ((f \o b) \o o) \o d = (f \o b) \o (o \o d)
      BY <1>1, <1>3, <1>4, Zenon
    <2> QED
      BY <2>1, <2>2, Zenon
  <1> QED
    BY <1>1, <1>2, Zenon DEF o

\* The empty sequence and a sequence of one element are typed.
LEMMA SingletonType ==
  ASSUME NEW S, NEW x \in S
  PROVE  <<>> \in Seq(S) /\ <<x>> \in Seq(S)
  OBVIOUS

-----------------------------------------------------------------------------
(* Records.                                                                *)

\* A notification the kernel queues is a record, and not one of data.
LEMMA NoteType ==
  ASSUME NEW type \in Nat, NEW state \in Nat, NEW id \in Nat, NEW len \in Nat
  PROVE  /\ Note(Raw(type, state, id, len)) \in Chunk
         /\ ~IsData(Note(Raw(type, state, id, len)))
  BY DEF Note, Raw, Chunk, NoteChunk, DataChunk, RawNotification, MsgFlags, IsData

\* A piece of a message makes a data record that carries it, and the record
\* has MSG_EOR if the piece is the last of its message.
LEMMA DataType ==
  ASSUME NEW p \in Piece
  PROVE  /\ Data(p) \in Chunk
         /\ IsData(Data(p))
         /\ Data(p).piece = p
         /\ ("MSG_EOR" \in Data(p).flags) <=> p.last
  BY DEF Data, Chunk, DataChunk, IsData, Piece

\* A data record (no MSG_NOTIFICATION) carries a piece.
LEMMA PieceOfData ==
  ASSUME NEW c \in Chunk, IsData(c)
  PROVE  c.piece \in Piece
  BY DEF Chunk, DataChunk, NoteChunk, MsgFlags, IsData

\* The flag tells the data records from the others.
LEMMA DataChunks ==
  ASSUME NEW c \in Chunk
  PROVE  (c \in DataChunk) <=> IsData(c)
  BY DEF Chunk, DataChunk, NoteChunk, MsgFlags, IsData

\* push_chunk leaves a typed accumulator and classifies by the flags.
LEMMA PushChunkType ==
  ASSUME NEW b \in Seq(Piece), NEW c \in Chunk
  PROVE  /\ PushChunk(b, c).buf \in Seq(Piece)
         /\ PushChunk(b, c).step \in {"More", "Complete", "Notification"}
         /\ PushChunk(b, c).step = "Notification" <=> ~IsData(c)
         /\ PushChunk(b, c).step = "Complete" => Payload(b, c) \in Seq(Piece)
  BY PieceOfData DEF PushChunk, Payload, Noted, Taken

\* What push_chunk does, case by case.
LEMMA PushChunkCases ==
  ASSUME NEW b, NEW c
  PROVE  /\ ~IsData(c) => PushChunk(b, c).step = "Notification" /\ PushChunk(b, c).buf = b
         /\ IsData(c) /\ "MSG_EOR" \in c.flags =>
              PushChunk(b, c).step = "Complete" /\ PushChunk(b, c).buf = <<>>
         /\ IsData(c) /\ "MSG_EOR" \notin c.flags =>
              PushChunk(b, c).step = "More" /\ PushChunk(b, c).buf = Append(b, c.piece)
  BY DEF PushChunk, Noted, Taken

-----------------------------------------------------------------------------
(* The pieces in a queue.                                                  *)

\* The payloads of data records, in order.
Payloads(d) == [i \in 1 .. Len(d) |-> d[i].piece]

\* Payloads are pieces.
LEMMA PayloadsType ==
  ASSUME NEW d \in Seq(DataChunk)
  PROVE  Payloads(d) \in Seq(Piece) /\ Len(Payloads(d)) = Len(d)
  <1>1. Len(d) \in Nat /\ \A i \in 1 .. Len(d) : d[i] \in DataChunk
    OBVIOUS
  <1>2. \A i \in 1 .. Len(d) : d[i].piece \in Piece
    BY <1>1 DEF DataChunk
  <1> QED
    BY <1>1, <1>2 DEF Payloads

\* One more record, one more payload.
LEMMA PayloadsAppend ==
  ASSUME NEW d \in Seq(DataChunk), NEW c \in DataChunk
  PROVE  Payloads(Append(d, c)) = Append(Payloads(d), c.piece)
  <1> DEFINE s == Payloads(Append(d, c))
             t == Append(Payloads(d), c.piece)
  <1>1. c.piece \in Piece
    BY DEF DataChunk
  <1>2. Payloads(d) \in Seq(Piece) /\ Len(Payloads(d)) = Len(d)
    BY PayloadsType
  <1>3. Append(d, c) \in Seq(DataChunk) /\ Len(Append(d, c)) = Len(d) + 1
    OBVIOUS
  <1>4. s \in Seq(Piece) /\ Len(s) = Len(d) + 1
    BY <1>3, PayloadsType
  <1>5. t \in Seq(Piece) /\ Len(t) = Len(d) + 1
    BY <1>1, <1>2
  <1>6. ASSUME NEW i \in 1 .. Len(d) + 1
        PROVE  s[i] = t[i]
    <2>1. s[i] = Append(d, c)[i].piece
      BY <1>3 DEF Payloads
    <2>2. CASE i = Len(d) + 1
      BY <1>1, <1>2, <2>1, <2>2
    <2>3. CASE i # Len(d) + 1
      <3>1. i \in 1 .. Len(d)
        BY <2>3
      <3>2. t[i] = Payloads(d)[i]
        BY <1>1, <1>2, <3>1
      <3>3. Payloads(d)[i] = d[i].piece
        BY <3>1 DEF Payloads
      <3> QED
        BY <2>1, <3>1, <3>2, <3>3
    <2> QED
      BY <2>2, <2>3
  <1> HIDE DEF s, t
  <1>7. s = t
    BY <1>4, <1>5, <1>6, SeqEqual
  <1> QED
    BY <1>7 DEF s, t

\* What is kept of a queue are its data records.
LEMMA DataRecords ==
  ASSUME NEW q \in Seq(Chunk)
  PROVE  /\ Only(q, DataChunk) \in Seq(DataChunk)
         /\ DataOf(q) = Payloads(Only(q, DataChunk))
  <1>1. Chunk \cap DataChunk = DataChunk
    BY DEF Chunk
  <1>2. Only(q, DataChunk) \in Seq(Chunk \cap DataChunk)
    BY OnlyType
  <1> QED
    BY <1>1, <1>2 DEF DataOf, Payloads

\* The pieces in a queue are pieces.
LEMMA DataOfType ==
  ASSUME NEW q \in Seq(Chunk)
  PROVE  DataOf(q) \in Seq(Piece)
  BY DataRecords, PayloadsType

\* An empty queue holds none.
LEMMA DataOfEmpty == DataOf(<<>>) = <<>>
  <1>1. Only(<<>>, DataChunk) = <<>>
    BY OnlyEmpty
  <1> QED
    BY <1>1 DEF DataOf

\* A record that is queued adds its piece at the end, if it has one.
LEMMA DataOfAppend ==
  ASSUME NEW q \in Seq(Chunk), NEW c \in Chunk
  PROVE  DataOf(Append(q, c)) = IF IsData(c) THEN Append(DataOf(q), c.piece) ELSE DataOf(q)
  <1>1. Append(q, c) \in Seq(Chunk)
    BY AppendType
  <1>2. Only(Append(q, c), DataChunk)
          = IF c \in DataChunk THEN Append(Only(q, DataChunk), c) ELSE Only(q, DataChunk)
    BY OnlyAppend
  <1>3. (c \in DataChunk) <=> IsData(c)
    BY DataChunks
  <1>4. Only(q, DataChunk) \in Seq(DataChunk) /\ DataOf(q) = Payloads(Only(q, DataChunk))
    BY DataRecords
  <1>5. DataOf(Append(q, c)) = Payloads(Only(Append(q, c), DataChunk))
    BY <1>1, DataRecords
  <1>6. CASE c \in DataChunk
    <2>1. Payloads(Append(Only(q, DataChunk), c)) = Append(Payloads(Only(q, DataChunk)), c.piece)
      BY <1>4, <1>6, PayloadsAppend
    <2> QED
      BY <1>2, <1>3, <1>4, <1>5, <1>6, <2>1
  <1>7. CASE c \notin DataChunk
    BY <1>2, <1>3, <1>4, <1>5, <1>7
  <1> QED
    BY <1>6, <1>7

\* The pieces of two queues, one behind the other.
LEMMA DataOfConcat ==
  ASSUME NEW q \in Seq(Chunk)
  PROVE  \A r \in Seq(Chunk) : DataOf(q \o r) = DataOf(q) \o DataOf(r)
  <1> DEFINE G == {r \in Seq(Chunk) : DataOf(q \o r) = DataOf(q) \o DataOf(r)}
  <1>1. <<>> \in G
    <2>1. q \o <<>> = q
      OBVIOUS
    <2>2. DataOf(q) \o <<>> = DataOf(q)
      BY DataOfType, ConcatEmptySeq
    <2>3. DataOf(q \o <<>>) = DataOf(q) \o DataOf(<<>>)
      BY <2>1, <2>2, DataOfEmpty, Zenon
    <2> QED
      BY <2>3
  <1>2. ASSUME NEW r \in Seq(Chunk), NEW c \in Chunk, r \in G
        PROVE  Append(r, c) \in G
    <2>1. q \o r \in Seq(Chunk) /\ q \o Append(r, c) = Append(q \o r, c)
      OBVIOUS
    <2>2. DataOf(q \o r) = DataOf(q) \o DataOf(r)
      BY <1>2
    <2>3. DataOf(Append(q \o r, c))
            = IF IsData(c) THEN Append(DataOf(q \o r), c.piece) ELSE DataOf(q \o r)
      BY <2>1, DataOfAppend
    <2>4. DataOf(Append(r, c)) = IF IsData(c) THEN Append(DataOf(r), c.piece) ELSE DataOf(r)
      BY DataOfAppend
    <2>5. DataOf(q) \in Seq(Piece) /\ DataOf(r) \in Seq(Piece)
      BY DataOfType
    <2>6. CASE IsData(c)
      <3>1. c.piece \in Piece
        BY <2>6, PieceOfData
      <3>2. DataOf(q) \o Append(DataOf(r), c.piece) = Append(DataOf(q) \o DataOf(r), c.piece)
        BY <2>5, <3>1
      <3>3. DataOf(q \o Append(r, c)) = DataOf(q) \o DataOf(Append(r, c))
        BY <2>1, <2>2, <2>3, <2>4, <2>6, <3>2, Zenon
      <3> QED
        BY <3>3
    <2>7. CASE ~IsData(c)
      <3>1. DataOf(q \o Append(r, c)) = DataOf(q) \o DataOf(Append(r, c))
        BY <2>1, <2>2, <2>3, <2>4, <2>7, Zenon
      <3> QED
        BY <3>1
    <2> QED
      BY <2>6, <2>7
  <1>3. Seq(Chunk) \subseteq G
    <2> HIDE DEF G
    <2> QED
      BY <1>1, <1>2, SeqInd
  <1> QED
    BY <1>3

\* The first piece of a queue is in its first data record.
LEMMA DataOfHead ==
  ASSUME NEW q \in Seq(Chunk), q # <<>>
  PROVE  DataOf(q) = IF IsData(Head(q)) THEN <<Head(q).piece>> \o DataOf(Tail(q))
                                        ELSE DataOf(Tail(q))
  <1> DEFINE c == Head(q)
             r == Tail(q)
  <1>1. c \in Chunk /\ r \in Seq(Chunk) /\ q = <<c>> \o r
    OBVIOUS
  <1>2. <<c>> \in Seq(Chunk) /\ <<c>> = Append(<<>>, c) /\ <<>> \in Seq(Chunk)
    OBVIOUS
  <1>3. DataOf(q) = DataOf(<<c>>) \o DataOf(r)
    BY <1>1, <1>2, DataOfConcat
  <1>4. DataOf(<<c>>) = IF IsData(c) THEN Append(<<>>, c.piece) ELSE <<>>
    BY <1>1, <1>2, DataOfAppend, DataOfEmpty, Zenon
  <1>5. <<>> \o DataOf(r) = DataOf(r)
    BY <1>1, DataOfType, ConcatEmptySeq
  <1>6. Append(<<>>, c.piece) = <<c.piece>>
    OBVIOUS
  <1> QED
    BY <1>3, <1>4, <1>5, <1>6, Zenon

\* A queue without data records holds no piece.
LEMMA DataOfNone ==
  \A q \in Seq(Chunk) : (\A i \in 1 .. Len(q) : ~IsData(q[i])) => DataOf(q) = <<>>
  <1> DEFINE P(q) == \A i \in 1 .. Len(q) : ~IsData(q[i])
             G    == {q \in Seq(Chunk) : P(q) => DataOf(q) = <<>>}
  <1>1. <<>> \in G
    BY DataOfEmpty
  <1>2. ASSUME NEW q \in Seq(Chunk), NEW c \in Chunk, q \in G
        PROVE  Append(q, c) \in G
    <2>0. Append(q, c) \in Seq(Chunk)
      OBVIOUS
    <2> SUFFICES ASSUME P(Append(q, c)) PROVE DataOf(Append(q, c)) = <<>>
      <3> HIDE DEF P
      <3> QED
        BY <2>0
    <2>1. P(q)
      OBVIOUS
    <2>2. ~IsData(c)
      OBVIOUS
    <2> HIDE DEF P
    <2> QED
      BY <1>2, <2>1, <2>2, DataOfAppend
  <1>3. Seq(Chunk) \subseteq G
    <2> HIDE DEF G
    <2> QED
      BY <1>1, <1>2, SeqInd
  <1> QED
    BY <1>3

-----------------------------------------------------------------------------
(* One read.                                                               *)

\* What is delivered, then the accumulator, then the queue is the same before
\* and after a record is read and folded in: push_chunk and its callers move
\* pieces on, and do nothing else with them.
LEMMA ReadConserves ==
  ASSUME NEW d \in Seq(Seq(Piece)), NEW b \in Seq(Piece), NEW q \in Seq(Chunk), q # <<>>
  PROVE  LET c  == Head(q)
             s  == PushChunk(b, c)
             dd == IF s.step = "Complete" THEN Append(d, Payload(b, c)) ELSE d
         IN  FlattenSeq(dd) \o s.buf \o DataOf(Tail(q)) = FlattenSeq(d) \o b \o DataOf(q)
  <1> DEFINE c  == Head(q)
             s  == PushChunk(b, c)
             dd == IF s.step = "Complete" THEN Append(d, Payload(b, c)) ELSE d
             F  == FlattenSeq(d)
             D  == DataOf(Tail(q))
  <1>1. c \in Chunk /\ Tail(q) \in Seq(Chunk)
    OBVIOUS
  <1>2. F \in Seq(Piece) /\ D \in Seq(Piece)
    BY <1>1, FlattenType, DataOfType
  <1>3. DataOf(q) = IF IsData(c) THEN <<c.piece>> \o D ELSE D
    BY DataOfHead
  <1>4. CASE ~IsData(c)
    <2>1. s.step = "Notification" /\ s.buf = b
      BY <1>4, PushChunkCases
    <2>2. dd = d
      BY <2>1
    <2> HIDE DEF dd, s, D
    <2> QED
      BY <1>3, <1>4, <2>1, <2>2 DEF dd, s, D
  <1>5. CASE IsData(c) /\ "MSG_EOR" \in c.flags
    <2>1. s.step = "Complete" /\ s.buf = <<>>
      BY <1>5, PushChunkCases
    <2>2. c.piece \in Piece
      BY <1>1, <1>5, PieceOfData
    <2>3. dd = Append(d, Append(b, c.piece))
      BY <2>1 DEF Payload
    <2>4. FlattenSeq(dd) = F \o Append(b, c.piece)
      <3>1. Append(b, c.piece) \in Seq(Piece)
        BY <2>2, AppendType
      <3> QED
        BY <2>3, <3>1, FlattenAppend, Zenon
    <2>5. (F \o Append(b, c.piece)) \o <<>> \o D = (F \o b) \o (<<c.piece>> \o D)
      <3> HIDE DEF F, D, c
      <3>1. (F \o Append(b, c.piece)) \o <<>> = F \o Append(b, c.piece)
        BY <1>2, <2>2
      <3> DEFINE x == c.piece
      <3> HIDE DEF x
      <3>2. x \in Piece
        BY <2>2 DEF x
      <3>3. (F \o Append(b, x)) \o D = (F \o b) \o (<<x>> \o D)
        BY <1>2, <3>2, MoveOver
      <3> QED
        BY <3>1, <3>3, Zenon DEF x
    <2> HIDE DEF dd, s, D, F, c
    <2>6. FlattenSeq(dd) \o s.buf \o D = F \o b \o DataOf(q)
      BY <1>3, <1>5, <2>1, <2>4, <2>5
    <2> QED
      BY <2>6 DEF dd, s, D, F, c
  <1>6. CASE IsData(c) /\ "MSG_EOR" \notin c.flags
    <2>1. s.step = "More" /\ s.buf = Append(b, c.piece)
      BY <1>6, PushChunkCases
    <2>2. c.piece \in Piece
      BY <1>1, <1>6, PieceOfData
    <2>3. dd = d
      BY <2>1
    <2>4. F \o Append(b, c.piece) \o D = (F \o b) \o (<<c.piece>> \o D)
      <3> HIDE DEF F, D, c
      <3> DEFINE x == c.piece
      <3> HIDE DEF x
      <3>2. x \in Piece
        BY <2>2 DEF x
      <3>3. (F \o Append(b, x)) \o D = (F \o b) \o (<<x>> \o D)
        BY <1>2, <3>2, MoveOver
      <3> QED
        BY <3>3, Zenon DEF x
    <2> HIDE DEF dd, s, D, F, c
    <2>5. FlattenSeq(dd) \o s.buf \o D = F \o b \o DataOf(q)
      BY <1>3, <1>6, <2>1, <2>3, <2>4 DEF F
    <2> QED
      BY <2>5 DEF dd, s, D, F, c
  <1> QED
    BY <1>4, <1>5, <1>6

-----------------------------------------------------------------------------
(* Messages in a stream of pieces.                                         *)

\* q is the next piece of the message p belongs to.
Continues(p, q) ==
  ~p.last /\ q.assoc = p.assoc /\ q.msg = p.msg /\ q.part = p.part + 1

\* In the stream st a message is followed to its end, unless its pieces are in
\* Gone: then another one may begin.
Chained(st, Gone) ==
  /\ st # <<>> => st[1].part = 1
  /\ \A i \in 1 .. Len(st) - 1 :
       \/ Continues(st[i], st[i + 1])
       \/ st[i + 1].part = 1 /\ (st[i].last \/ st[i] \in Gone)

\* Gone goes by whole messages.
ByMessage(Gone) ==
  \A p, q \in Piece : p.assoc = q.assoc /\ p.msg = q.msg /\ p \in Gone => q \in Gone

\* p is one whole message behind pieces of messages that are gone.
Intact(p, Gone) ==
  \E n \in 0 .. Len(p) - 1 :
    /\ Whole(SubSeq(p, n + 1, Len(p)))
    /\ \A i \in 1 .. n : p[i] \in Gone

\* A chained stretch that begins with a beginning and whose only last piece is
\* at its end holds one whole message, with what is gone in front.
LEMMA ChainedIsIntact ==
  ASSUME NEW p \in Seq(Piece), NEW Gone, ByMessage(Gone), p # <<>>, Chained(p, Gone),
         p[Len(p)].last,
         \A i \in 1 .. Len(p) - 1 : ~p[i].last
  PROVE  Intact(p, Gone)
  <1> DEFINE N == Len(p)
             Run(n, j) == /\ \A i \in n + 1 .. j : /\ p[i].assoc = p[j].assoc
                                                  /\ p[i].msg = p[j].msg
                                                  /\ p[i].part = i - n
                          /\ \A i \in 1 .. n : p[i] \in Gone
             G == {0} \cup {j \in 1 .. N : \E n \in 0 .. j - 1 : Run(n, j)}
  <1>1. N \in Nat \ {0} /\ \A i \in 1 .. N : p[i] \in Piece
    OBVIOUS
  <1>2. \A i \in 1 .. N : p[i].part \in Nat
    BY <1>1 DEF Piece
  <1> HIDE DEF N
  <1>3. ASSUME NEW j \in 1 .. N, j - 1 \in G
        PROVE  j \in G
    <2>1. CASE j = 1
      <3>1. p[1].part = 1
        BY DEF Chained
      <3>2. Run(0, 1)
        BY <3>1
      <3> QED
        BY <1>1, <2>1, <3>2
    <2>2. CASE j # 1
      <3>1. j - 1 \in 1 .. N /\ j - 1 # 0 /\ j - 1 \in 1 .. N - 1 /\ (j - 1) + 1 = j
        BY <1>1, <2>2
      <3>2. PICK n \in 0 .. j - 1 - 1 : Run(n, j - 1)
        BY <1>3, <3>1
      <3>3. ~p[j - 1].last
        BY <3>1 DEF N
      <3>4. \/ Continues(p[j - 1], p[j])
            \/ p[j].part = 1 /\ (p[j - 1].last \/ p[j - 1] \in Gone)
        BY <3>1 DEF Chained, N
      <3>5. CASE Continues(p[j - 1], p[j])
        <4>1. n \in 0 .. j - 1 /\ n + 1 <= j - 1
          BY <3>1, <3>2
        <4>2. p[j - 1].part = j - 1 - n
          BY <3>1, <3>2, <4>1
        <4>3. p[j].part = j - n /\ p[j].msg = p[j - 1].msg /\ p[j].assoc = p[j - 1].assoc
          BY <3>1, <3>5, <4>1, <4>2 DEF Continues
        <4>4. ASSUME NEW i \in n + 1 .. j
              PROVE  p[i].assoc = p[j].assoc /\ p[i].msg = p[j].msg /\ p[i].part = i - n
          <5>1. CASE i = j
            BY <4>3, <5>1
          <5>2. CASE i # j
            <6>1. i \in n + 1 .. j - 1
              BY <4>1, <5>2
            <6> QED
              BY <3>2, <4>3, <6>1
          <5> QED
            BY <5>1, <5>2
        <4>5. Run(n, j)
          BY <3>2, <4>4
        <4> QED
          BY <4>1, <4>5
      <3>6. CASE p[j].part = 1 /\ p[j - 1] \in Gone
        <4>1. ASSUME NEW i \in 1 .. j - 1
              PROVE  p[i] \in Gone
          <5>1. CASE i <= n
            BY <3>2, <5>1
          <5>2. CASE ~(i <= n)
            <6>1. i \in n + 1 .. j - 1
              BY <3>2, <5>2
            <6>2. p[i].assoc = p[j - 1].assoc /\ p[i].msg = p[j - 1].msg
              BY <3>2, <6>1
            <6>3. p[i] \in Piece /\ p[j - 1] \in Piece
              BY <1>1, <3>1
            <6> QED
              BY <3>6, <6>2, <6>3 DEF ByMessage
          <5> QED
            BY <5>1, <5>2
        <4>2. Run(j - 1, j)
          BY <3>6, <4>1
        <4>3. j - 1 \in 0 .. j - 1
          BY <3>1
        <4> HIDE DEF Run
        <4> QED
          BY <4>2, <4>3
      <3> QED
        BY <3>3, <3>4, <3>5, <3>6
    <2> QED
      BY <2>1, <2>2
  <1>4. 0 .. N \subseteq G
    <2>1. 0 \in G
      OBVIOUS
    <2> HIDE DEF G
    <2> QED
      BY <1>1, <1>3, <2>1, UpTo
  <1>5. PICK n \in 0 .. N - 1 : Run(n, N)
    <2>1. N \in 0 .. N /\ N # 0
      BY <1>1
    <2> QED
      BY <1>4, <2>1
  <1> DEFINE w == SubSeq(p, n + 1, N)
  <1>6. Len(w) = N - n /\ \A i \in 1 .. N - n : w[i] = p[n + i]
    BY <1>1 DEF N
  <1>7. n + 1 \in n + 1 .. N /\ 1 \in 1 .. N - n
    BY <1>1
  <1> HIDE DEF w
  <1>8. ASSUME NEW i \in 1 .. Len(w)
        PROVE  /\ w[i].assoc = w[1].assoc
               /\ w[i].msg = w[1].msg
               /\ w[i].part = i
               /\ w[i].last = (i = Len(w))
    <2>1. n + i \in n + 1 .. N /\ w[i] = p[n + i] /\ w[1] = p[n + 1] /\ (n + i) - n = i
      BY <1>1, <1>6, <1>7
    <2>2. w[i].assoc = w[1].assoc /\ w[i].msg = w[1].msg /\ w[i].part = i
      BY <1>5, <1>7, <2>1
    <2>3. CASE i = Len(w)
      <3>1. n + i = N
        BY <1>1, <1>6, <2>3
      <3>2. w[i] \in Piece /\ w[i].last
        <4>1. w[i] = p[N]
          BY <2>1, <3>1
        <4>2. p[N] \in Piece
          BY <1>1 DEF N
        <4> QED
          BY <4>1, <4>2 DEF N
      <3>3. w[i].last \in BOOLEAN
        BY <3>2 DEF Piece
      <3> QED
        BY <2>2, <2>3, <3>2, <3>3
    <2>4. CASE i # Len(w)
      <3>1. n + i \in 1 .. N - 1
        BY <1>1, <1>6, <2>4
      <3>2. w[i] \in Piece /\ ~w[i].last
        BY <1>1, <2>1, <3>1 DEF N
      <3>3. w[i].last \in BOOLEAN
        BY <3>2 DEF Piece
      <3> QED
        BY <2>2, <2>4, <3>2, <3>3
    <2> QED
      BY <2>3, <2>4
  <1>9. w # <<>>
    BY <1>1, <1>6
  <1>10. Whole(w)
    BY <1>8, <1>9 DEF Whole
  <1> QED
    BY <1>5, <1>10 DEF Intact, N, w

-----------------------------------------------------------------------------
(* Where a read cuts the stream.                                           *)

\* A data record has MSG_EOR exactly if its piece is the last of its message.
Flagged == {c \in Chunk : IsData(c) => ("MSG_EOR" \in c.flags <=> c.piece.last)}

\* What was delivered ends with the end of a message, and the accumulator
\* holds no end.
CutAtEnds(d, b) ==
  /\ FlattenSeq(d) # <<>> => FlattenSeq(d)[Len(FlattenSeq(d))].last
  /\ \A i \in 1 .. Len(b) : ~b[i].last

\* Where the pieces of the accumulator and of the record are in the stream.
LEMMA Positions ==
  ASSUME NEW f \in Seq(Piece), NEW b \in Seq(Piece), NEW x \in Piece, NEW d \in Seq(Piece)
  PROVE  LET st == (f \o b) \o (<<x>> \o d) IN
         /\ st \in Seq(Piece)
         /\ Len(st) = Len(f) + Len(b) + 1 + Len(d)
         /\ \A i \in 1 .. Len(f) : st[i] = f[i]
         /\ \A i \in 1 .. Len(b) + 1 : st[Len(f) + i] = Append(b, x)[i]
  <1> DEFINE fb == f \o b
             xd == <<x>> \o d
             st == fb \o xd
  <1>1. /\ fb \in Seq(Piece) /\ Len(fb) = Len(f) + Len(b)
        /\ \A i \in 1 .. Len(f) : fb[i] = f[i]
        /\ \A i \in 1 .. Len(b) : fb[Len(f) + i] = b[i]
    OBVIOUS
  <1>2. xd \in Seq(Piece) /\ Len(xd) = 1 + Len(d) /\ xd[1] = x
    OBVIOUS
  <1> HIDE DEF fb, xd
  <1>3. /\ st \in Seq(Piece) /\ Len(st) = Len(fb) + Len(xd)
        /\ \A i \in 1 .. Len(fb) : st[i] = fb[i]
        /\ st[Len(fb) + 1] = xd[1]
    <2>1. fb \in Seq(Piece) /\ xd \in Seq(Piece)
      BY <1>1, <1>2
    <2>2. Len(fb) \in Nat /\ Len(xd) \in Nat /\ Len(xd) >= 1
      <3>1. Len(fb) \in Nat /\ Len(xd) \in Nat /\ Len(d) \in Nat
        BY <2>1
      <3> QED
        BY <1>2, <3>1
    <2>3. st \in Seq(Piece)
      BY <2>1
    <2>4. Len(st) = Len(fb) + Len(xd)
      BY <2>1
    <2>5. \A i \in 1 .. Len(fb) : st[i] = fb[i]
      BY <2>1
    <2>6. st[Len(fb) + 1] = xd[1]
      BY <2>1, <2>2
    <2> QED
      BY <2>3, <2>4, <2>5, <2>6
  <1>4. /\ Len(Append(b, x)) = Len(b) + 1
        /\ \A i \in 1 .. Len(b) : Append(b, x)[i] = b[i]
        /\ Append(b, x)[Len(b) + 1] = x
    OBVIOUS
  <1>5. Len(f) \in Nat /\ Len(b) \in Nat /\ Len(d) \in Nat
    OBVIOUS
  <1> HIDE DEF st
  <1>6. \A i \in 1 .. Len(f) : st[i] = f[i]
    BY <1>1, <1>3, <1>5
  <1>7. ASSUME NEW i \in 1 .. Len(b) + 1
        PROVE  st[Len(f) + i] = Append(b, x)[i]
    <2>1. CASE i = Len(b) + 1
      BY <1>1, <1>2, <1>3, <1>4, <1>5, <2>1
    <2>2. CASE i # Len(b) + 1
      <3>1. i \in 1 .. Len(b) /\ Len(f) + i \in 1 .. Len(fb)
        BY <1>1, <1>5, <2>2
      <3> QED
        BY <1>1, <1>3, <1>4, <3>1
    <2> QED
      BY <2>1, <2>2
  <1> QED
    BY <1>1, <1>2, <1>3, <1>5, <1>6, <1>7 DEF st, fb, xd

\* A read that completes a message hands over an intact one, if the stream is
\* chained and was cut at the ends of messages so far.
LEMMA ReadIsIntact ==
  ASSUME NEW d \in Seq(Seq(Piece)), NEW b \in Seq(Piece), NEW q \in Seq(Chunk), q # <<>>,
         NEW Gone, ByMessage(Gone),
         Head(q) \in Flagged, IsData(Head(q)), "MSG_EOR" \in Head(q).flags,
         CutAtEnds(d, b),
         Chained(FlattenSeq(d) \o b \o DataOf(q), Gone)
  PROVE  /\ Payload(b, Head(q)) \in Seq(Piece)
         /\ Intact(Payload(b, Head(q)), Gone)
  <1> DEFINE x  == Head(q).piece
             F  == FlattenSeq(d)
             D  == DataOf(Tail(q))
             p  == Append(b, x)
             st == (F \o b) \o (<<x>> \o D)
             M  == Len(F)
  <1>1. Head(q) \in Chunk /\ Tail(q) \in Seq(Chunk)
    OBVIOUS
  <1>2. x \in Piece /\ x.last
    BY <1>1, PieceOfData DEF Flagged
  <1>3. F \in Seq(Piece) /\ D \in Seq(Piece)
    BY <1>1, FlattenType, DataOfType
  <1>4. F \o b \o DataOf(q) = st
    BY DataOfHead
  <1>5. Chained(st, Gone)
    BY <1>4
  <1>6. /\ F # <<>> => F[Len(F)].last
        /\ \A i \in 1 .. Len(b) : ~b[i].last
    BY DEF CutAtEnds
  <1>7. Payload(b, Head(q)) = p
    BY DEF Payload
  <1> HIDE DEF x, F, D
  <1>8. /\ st \in Seq(Piece)
        /\ Len(st) = Len(F) + Len(b) + 1 + Len(D)
        /\ \A i \in 1 .. Len(F) : st[i] = F[i]
        /\ \A i \in 1 .. Len(b) + 1 : st[Len(F) + i] = p[i]
    BY <1>2, <1>3, Positions
  <1>9. /\ p \in Seq(Piece) /\ Len(p) = Len(b) + 1 /\ p # <<>>
        /\ p[Len(p)] = x
        /\ \A i \in 1 .. Len(p) - 1 : p[i] = b[i] /\ i \in 1 .. Len(b)
    BY <1>2
  <1>10. /\ Len(F) \in Nat /\ Len(D) \in Nat /\ Len(b) \in Nat
         /\ F # <<>> => Len(F) \in 1 .. Len(F)
         /\ F = <<>> => Len(F) = 0
    BY <1>3
  <1>16. Len(st) \in Nat /\ (st # <<>>) /\ Len(st) >= 1
    BY <1>8, <1>10
  <1> HIDE DEF st, p
  <1>11. p[1].part = 1
    <2>1. CASE F = <<>>
      <3>1. st[1] = p[1]
        BY <1>8, <1>10, <2>1
      <3> QED
        BY <1>5, <1>16, <3>1 DEF Chained
    <2>2. CASE F # <<>>
      <3>1. M \in 1 .. Len(st) - 1 /\ st[M].last /\ st[M + 1] = p[1]
        <4>1. M \in 1 .. Len(F) /\ M \in Nat /\ 1 \in 1 .. Len(b) + 1
          BY <1>10, <2>2
        <4>2. M \in 1 .. Len(st) - 1
          BY <1>8, <1>10, <4>1
        <4>3. st[M] = F[M] /\ st[M + 1] = p[1]
          BY <1>8, <4>1, Zenon
        <4> QED
          BY <1>6, <2>2, <4>2, <4>3, Zenon
      <3> QED
        BY <1>5, <3>1 DEF Chained, Continues
    <2> QED
      BY <2>1, <2>2
  <1>12. ASSUME NEW i \in 1 .. Len(p) - 1
         PROVE  \/ Continues(p[i], p[i + 1])
                \/ p[i + 1].part = 1 /\ (p[i].last \/ p[i] \in Gone)
    <2>1. /\ M + i \in 1 .. Len(st) - 1
          /\ st[M + i] = p[i]
          /\ st[(M + i) + 1] = p[i + 1]
      <3>1. i \in 1 .. Len(b) + 1 /\ i + 1 \in 1 .. Len(b) + 1 /\ M + (i + 1) = (M + i) + 1
        BY <1>9, <1>10
      <3>2. st[M + i] = p[i] /\ st[M + (i + 1)] = p[i + 1]
        BY <1>8, <3>1
      <3>3. M + i \in 1 .. Len(st) - 1
        BY <1>8, <1>10, <3>1
      <3> QED
        BY <3>1, <3>2, <3>3, Zenon
    <2> HIDE DEF M
    <2>2. \/ Continues(st[M + i], st[(M + i) + 1])
          \/ st[(M + i) + 1].part = 1 /\ (st[M + i].last \/ st[M + i] \in Gone)
      BY <1>5, <2>1 DEF Chained
    <2> QED
      BY <2>1, <2>2
  <1>13. Chained(p, Gone)
    BY <1>11, <1>12 DEF Chained
  <1>14. p[Len(p)].last /\ \A i \in 1 .. Len(p) - 1 : ~p[i].last
    BY <1>2, <1>6, <1>9
  <1>15. Intact(p, Gone)
    BY <1>9, <1>13, <1>14, ChainedIsIntact
  <1> QED
    BY <1>7, <1>9, <1>15

\* A read keeps cutting at the ends of messages.
LEMMA ReadCutsAtEnds ==
  ASSUME NEW d \in Seq(Seq(Piece)), NEW b \in Seq(Piece), NEW c \in Flagged,
         CutAtEnds(d, b)
  PROVE  LET s  == PushChunk(b, c)
             dd == IF s.step = "Complete" THEN Append(d, Payload(b, c)) ELSE d
         IN  CutAtEnds(dd, s.buf)
  <1> DEFINE s  == PushChunk(b, c)
             dd == IF s.step = "Complete" THEN Append(d, Payload(b, c)) ELSE d
             F  == FlattenSeq(d)
  <1>1. c \in Chunk
    BY DEF Flagged
  <1>2. CASE ~IsData(c)
    <2>1. s.step = "Notification" /\ s.buf = b
      BY <1>2, PushChunkCases
    <2> QED
      BY <2>1
  <1>3. CASE IsData(c) /\ "MSG_EOR" \in c.flags
    <2> DEFINE x == c.piece
               p == Append(b, x)
    <2>1. s.step = "Complete" /\ s.buf = <<>>
      BY <1>3, PushChunkCases
    <2>2. x \in Piece /\ x.last
      BY <1>1, <1>3, PieceOfData DEF Flagged
    <2>3. dd = Append(d, p)
      BY <2>1 DEF Payload
    <2> HIDE DEF dd, s, x
    <2>4. p \in Seq(Piece) /\ p # <<>> /\ p[Len(p)] = x /\ Len(p) \in Nat \ {0}
      <3>1. p \in Seq(Piece) /\ Len(p) = Len(b) + 1 /\ p[Len(b) + 1] = x
        BY <2>2
      <3>2. Len(b) \in Nat
        OBVIOUS
      <3>3. p # <<>>
        BY <2>2
      <3> QED
        BY <3>1, <3>2, <3>3
    <2>5. FlattenSeq(dd) = F \o p /\ F \in Seq(Piece)
      BY <2>3, <2>4, FlattenAppend, FlattenType
    <2> HIDE DEF F, p
    <2>6. (F \o p)[Len(F \o p)] = p[Len(p)]
      BY <2>4, <2>5
    <2>7. CutAtEnds(dd, <<>>)
      BY <2>2, <2>4, <2>5, <2>6 DEF CutAtEnds
    <2> QED
      BY <2>1, <2>7 DEF dd, s
  <1>4. CASE IsData(c) /\ "MSG_EOR" \notin c.flags
    <2>1. s.step = "More" /\ s.buf = Append(b, c.piece)
      BY <1>4, PushChunkCases
    <2>2. c.piece \in Piece /\ ~c.piece.last
      BY <1>1, <1>4, PieceOfData DEF Flagged
    <2>3. \A i \in 1 .. Len(Append(b, c.piece)) : ~Append(b, c.piece)[i].last
      <3> DEFINE x == c.piece
      <3> HIDE DEF x
      <3>1. x \in Piece /\ ~x.last
        BY <2>2 DEF x
      <3>2. \A i \in 1 .. Len(Append(b, x)) :
              (i \in 1 .. Len(b) /\ Append(b, x)[i] = b[i]) \/ Append(b, x)[i] = x
        BY <3>1
      <3>3. \A i \in 1 .. Len(b) : ~b[i].last
        BY DEF CutAtEnds
      <3>4. \A i \in 1 .. Len(Append(b, x)) : ~Append(b, x)[i].last
        BY <3>1, <3>2, <3>3
      <3> QED
        BY <3>4 DEF x
    <2> QED
      BY <2>1, <2>3 DEF CutAtEnds
  <1> QED
    BY <1>2, <1>3, <1>4

-----------------------------------------------------------------------------
(* Parts of a queue.                                                       *)

\* Appending to the last of two sequences.
LEMMA ConcatAppend ==
  \A f \in Seq(Piece), d \in Seq(Piece), x \in Piece : f \o Append(d, x) = Append(f \o d, x)
  OBVIOUS

\* The pieces of a part of the queue are a part of its pieces.
LEMMA DataOfOnly ==
  ASSUME NEW TC, NEW TP,
         \A c \in Chunk : IsData(c) => (c \in TC <=> c.piece \in TP)
  PROVE  \A q \in Seq(Chunk) : DataOf(Only(q, TC)) = Only(DataOf(q), TP)
  <1> DEFINE G == {q \in Seq(Chunk) : DataOf(Only(q, TC)) = Only(DataOf(q), TP)}
  <1>1. <<>> \in G
    <2>1. Only(<<>>, TC) = <<>> /\ Only(<<>>, TP) = <<>> /\ <<>> \in Seq(Chunk)
      BY OnlyEmpty
    <2> QED
      BY <2>1, DataOfEmpty
  <1>2. ASSUME NEW q \in Seq(Chunk), NEW c \in Chunk, q \in G
        PROVE  Append(q, c) \in G
    <2> DEFINE k == Only(q, TC)
               d == DataOf(q)
    <2>1. DataOf(k) = Only(d, TP)
      BY <1>2
    <2>2. k \in Seq(Chunk)
      <3>1. k \in Seq(Chunk \cap TC)
        BY OnlyType
      <3> HIDE DEF k
      <3> QED
        BY <3>1
    <2>3. d \in Seq(Piece) /\ Append(q, c) \in Seq(Chunk)
      BY DataOfType, AppendType
    <2>4. Only(Append(q, c), TC) = IF c \in TC THEN Append(k, c) ELSE k
      BY OnlyAppend
    <2>5. DataOf(Append(q, c)) = IF IsData(c) THEN Append(d, c.piece) ELSE d
      BY DataOfAppend
    <2>6. DataOf(Append(k, c)) = IF IsData(c) THEN Append(DataOf(k), c.piece) ELSE DataOf(k)
      BY <2>2, DataOfAppend
    <2>7. IsData(c) => Only(Append(d, c.piece), TP)
                       = IF c.piece \in TP THEN Append(Only(d, TP), c.piece) ELSE Only(d, TP)
      <3> DEFINE x == c.piece
      <3>1. IsData(c) => x \in Piece
        BY PieceOfData
      <3>2. x \in Piece => Only(Append(d, x), TP)
                           = IF x \in TP THEN Append(Only(d, TP), x) ELSE Only(d, TP)
        <4> HIDE DEF x, d
        <4> QED
          BY <2>3, OnlyAppend
      <3> QED
        BY <3>1, <3>2
    <2> HIDE DEF k, d
    <2>8. DataOf(Only(Append(q, c), TC)) = Only(DataOf(Append(q, c)), TP)
      BY <2>1, <2>4, <2>5, <2>6, <2>7
    <2> QED
      BY <2>3, <2>8
  <1> HIDE DEF G
  <1>3. Seq(Chunk) \subseteq G
    BY <1>1, <1>2, SeqInd
  <1> QED
    BY <1>3 DEF G

-----------------------------------------------------------------------------
(* How a stream grows.                                                     *)

\* The piece a stream ends with.
Tip(st) == st[Len(st)]

\* A new message may begin at the end of the stream ...
Startable(st, Gone) == st = <<>> \/ Tip(st).last \/ Tip(st) \in Gone

\* ... and x may come next.
Linkable(st, x, Gone) ==
  \/ x.part = 1 /\ Startable(st, Gone)
  \/ st # <<>> /\ Continues(Tip(st), x)

\* One more element, in the terms of the others.
LEMMA AppendAt ==
  ASSUME NEW S, NEW s \in Seq(S), NEW x \in S
  PROVE  /\ Append(s, x) \in Seq(S) /\ Append(s, x) # <<>>
         /\ Len(s) \in Nat /\ Len(Append(s, x)) = Len(s) + 1
         /\ \A i \in 1 .. Len(s) : Append(s, x)[i] = s[i]
         /\ Append(s, x)[Len(s) + 1] = x
         /\ Tip(Append(s, x)) = x
  BY DEF Tip

\* The same for pieces: the tip of a longer sequence is what was appended.
LEMMA AppendTip ==
  \A s \in Seq(Piece), x \in Piece : Append(s, x) # <<>> /\ Tip(Append(s, x)) = x
  BY AppendAt

\* A stream that is not empty has a last piece.
LEMMA TipType ==
  ASSUME NEW S, NEW s \in Seq(S), s # <<>>
  PROVE  Tip(s) \in S /\ Len(s) \in Nat \ {0} /\ Len(s) \in 1 .. Len(s)
  BY DEF Tip

\* A chained stream stays one exactly if what is appended links up.
LEMMA ChainedAppend ==
  ASSUME NEW st \in Seq(Piece), NEW x \in Piece, NEW Gone
  PROVE  Chained(Append(st, x), Gone) <=> Chained(st, Gone) /\ Linkable(st, x, Gone)
  <1> DEFINE t == Append(st, x)
             N == Len(st)
  <1>1. /\ t # <<>> /\ N \in Nat /\ Len(t) = N + 1
        /\ \A i \in 1 .. N : t[i] = st[i]
        /\ t[N + 1] = x
    BY AppendAt
  <1>2. (st # <<>>) <=> N # 0
    OBVIOUS
  <1> HIDE DEF t, N
  <1>3. ASSUME Chained(t, Gone)
        PROVE  Chained(st, Gone) /\ Linkable(st, x, Gone)
    <2>1. CASE N = 0
      BY <1>1, <1>2, <1>3, <2>1 DEF Chained, Linkable, Startable, N
    <2>2. CASE N # 0
      <3>1. N \in 1 .. Len(t) - 1 /\ t[N] = Tip(st) /\ 1 \in 1 .. N
        BY <1>1, <2>2 DEF Tip, N
      <3>2. Linkable(st, x, Gone)
        BY <1>1, <1>2, <1>3, <2>2, <3>1 DEF Chained, Linkable, Startable
      <3>3. st[1].part = 1
        BY <1>1, <1>3, <3>1 DEF Chained
      <3>4. ASSUME NEW i \in 1 .. N - 1
            PROVE  \/ Continues(st[i], st[i + 1])
                   \/ st[i + 1].part = 1 /\ (st[i].last \/ st[i] \in Gone)
        <4>1. i \in 1 .. Len(t) - 1 /\ t[i] = st[i] /\ t[i + 1] = st[i + 1]
          BY <1>1
        <4> QED
          BY <1>3, <4>1 DEF Chained
      <3> QED
        BY <3>2, <3>3, <3>4 DEF Chained, N
    <2> QED
      BY <2>1, <2>2
  <1>4. ASSUME Chained(st, Gone), Linkable(st, x, Gone)
        PROVE  Chained(t, Gone)
    <2>1. t[1].part = 1
      <3>1. CASE N = 0
        BY <1>1, <1>2, <1>4, <3>1 DEF Linkable
      <3>2. CASE N # 0
        <4>1. 1 \in 1 .. N
          BY <1>1, <3>2
        <4> QED
          BY <1>1, <1>2, <1>4, <3>2, <4>1 DEF Chained
      <3> QED
        BY <3>1, <3>2
    <2>2. ASSUME NEW i \in 1 .. Len(t) - 1
          PROVE  \/ Continues(t[i], t[i + 1])
                 \/ t[i + 1].part = 1 /\ (t[i].last \/ t[i] \in Gone)
      <3>1. CASE i = N
        <4>1. t[i] = Tip(st) /\ t[i + 1] = x /\ N # 0
          BY <1>1, <3>1 DEF Tip, N
        <4> QED
          BY <1>2, <1>4, <4>1 DEF Linkable, Startable
      <3>2. CASE i # N
        <4>1. i \in 1 .. N - 1 /\ t[i] = st[i] /\ t[i + 1] = st[i + 1]
          BY <1>1, <3>2
        <4> QED
          BY <1>4, <4>1 DEF Chained, N
      <3> QED
        BY <3>1, <3>2
    <2> QED
      BY <2>1, <2>2 DEF Chained
  <1> QED
    BY <1>3, <1>4 DEF t

\* The more is gone, the more is chained.
LEMMA ChainedMore ==
  ASSUME NEW st, NEW Gone, NEW Gone2, Gone \subseteq Gone2, Chained(st, Gone)
  PROVE  Chained(st, Gone2)
  BY DEF Chained

-----------------------------------------------------------------------------
(* What one peer sends.  C are the messages it will not finish.            *)

\* The pieces of association id, messages in order, an end only at the end of
\* a message that was not cut.
Ordered(s, id, C) ==
  /\ \A i \in 1 .. Len(s) : s[i].assoc = id
  /\ \A i, j \in 1 .. Len(s) :
       i < j => s[i].msg < s[j].msg \/ (s[i].msg = s[j].msg /\ ~s[i].last)
  /\ \A i \in 1 .. Len(s) : s[i].last => s[i].msg \notin C
  /\ \A m \in C : s # <<>> /\ m <= Tip(s).msg

\* The last message is not at its end and will go on.
OpenIn(s, C) == s # <<>> /\ ~Tip(s).last /\ Tip(s).msg \notin C

\* x is the next piece of the message under way or the first of the next one.
Follows(s, x, id, C) ==
  /\ x.assoc = id
  /\ IF OpenIn(s, C) THEN x.msg = Tip(s).msg /\ x.part = Tip(s).part + 1
     ELSE x.part = 1 /\ (s # <<>> => x.msg = Tip(s).msg + 1)

\* The next piece keeps the order and belongs to no message that was cut.
LEMMA OrderedAppend ==
  ASSUME NEW s \in Seq(Piece), NEW x \in Piece, NEW id, NEW C \in SUBSET Nat,
         Ordered(s, id, C), Follows(s, x, id, C)
  PROVE  Ordered(Append(s, x), id, C) /\ x.msg \notin C
  <1> DEFINE t == Append(s, x)
             N == Len(s)
  <1>1. /\ t # <<>> /\ N \in Nat /\ Len(t) = N + 1
        /\ \A i \in 1 .. N : t[i] = s[i]
        /\ t[N + 1] = x /\ Tip(t) = x
    BY AppendAt
  <1>2. \A i \in 1 .. N : s[i] \in Piece
    OBVIOUS
  <1>3. x.msg \in Nat /\ \A i \in 1 .. N : s[i].msg \in Nat
    BY <1>2 DEF Piece
  <1>4. (s # <<>>) <=> N # 0
    OBVIOUS
  <1>5. s # <<>> => Tip(s).msg \in Nat /\ Tip(s) = s[N] /\ N \in 1 .. N
    BY <1>1, <1>3, <1>4 DEF Tip
  <1> HIDE DEF t, N
  <1>6. x.msg \notin C /\ \A m \in C : m <= x.msg
    <2>1. CASE OpenIn(s, C)
      BY <2>1, <1>3 DEF Follows, OpenIn, Ordered
    <2>2. CASE ~OpenIn(s, C)
      <3>1. ASSUME NEW m \in C
            PROVE  m < x.msg
        <4>1. s # <<>> /\ m <= Tip(s).msg
          BY DEF Ordered
        <4>2. x.msg = Tip(s).msg + 1 /\ m \in Nat
          BY <2>2, <4>1 DEF Follows
        <4> QED
          BY <1>5, <4>1, <4>2
      <3>2. \A m \in C : m \in Nat
        OBVIOUS
      <3> DEFINE y == x.msg
      <3>3. y \in Nat /\ \A m \in C : m < y
        BY <1>3, <3>1
      <3> HIDE DEF y
      <3>4. \A m \in C : m <= y
        BY <3>2, <3>3
      <3>5. ~(y < y)
        BY <3>3
      <3>6. y \notin C
        BY <3>3, <3>5, Zenon
      <3> QED
        BY <3>4, <3>6 DEF y
    <2> QED
      BY <2>1, <2>2
  <1>7. ASSUME NEW i \in 1 .. N
        PROVE  s[i].msg < x.msg \/ (s[i].msg = x.msg /\ ~s[i].last)
    <2>1. s # <<>>
      BY <1>1, <1>4
    <2>2. s[i].msg < Tip(s).msg \/ (s[i].msg = Tip(s).msg /\ (~s[i].last \/ i = N))
      <3>1. CASE i = N
        BY <1>5, <2>1, <3>1
      <3>2. CASE i # N
        BY <1>1, <1>5, <2>1, <3>2 DEF Ordered, N
      <3> QED
        BY <3>1, <3>2
    <2>3. CASE OpenIn(s, C)
      BY <1>3, <1>5, <2>1, <2>2, <2>3 DEF Follows, OpenIn
    <2>4. CASE ~OpenIn(s, C)
      BY <1>3, <1>5, <2>1, <2>2, <2>4 DEF Follows
    <2> QED
      BY <2>3, <2>4
  <1>8. \A i \in 1 .. Len(t) : t[i].assoc = id
    <2>1. \A i \in 1 .. Len(t) : i = N + 1 \/ i \in 1 .. N
      BY <1>1
    <2> QED
      BY <1>1, <2>1 DEF Follows, Ordered, N
  <1>9. ASSUME NEW i \in 1 .. Len(t), NEW j \in 1 .. Len(t), i < j
        PROVE  t[i].msg < t[j].msg \/ (t[i].msg = t[j].msg /\ ~t[i].last)
    <2>1. i \in 1 .. N /\ t[i] = s[i]
      BY <1>1, <1>9
    <2>2. CASE j = N + 1
      BY <1>1, <1>7, <2>1, <2>2
    <2>3. CASE j # N + 1
      <3>1. j \in 1 .. N /\ t[j] = s[j]
        BY <1>1, <2>3
      <3> QED
        BY <1>9, <2>1, <3>1 DEF Ordered, N
    <2> QED
      BY <2>2, <2>3
  <1>10. \A i \in 1 .. Len(t) : t[i].last => t[i].msg \notin C
    <2>1. \A i \in 1 .. Len(t) : i = N + 1 \/ i \in 1 .. N
      BY <1>1
    <2> QED
      BY <1>1, <1>6, <2>1 DEF Ordered, N
  <1> QED
    BY <1>1, <1>6, <1>8, <1>9, <1>10 DEF Ordered, t

\* The next piece links up with what the peer sent before.
LEMMA FollowsLinks ==
  ASSUME NEW s \in Seq(Piece), NEW x \in Piece, NEW id, NEW C, NEW Gone,
         Ordered(s, id, C), Follows(s, x, id, C),
         \A p \in Piece : p.assoc = id /\ p.msg \in C => p \in Gone
  PROVE  Linkable(s, x, Gone)
  <1>1. CASE s = <<>>
    BY <1>1 DEF Follows, OpenIn, Linkable, Startable
  <1>2. CASE s # <<>>
    <2>1. Tip(s) \in Piece /\ Tip(s).assoc = id
      BY <1>2, TipType DEF Ordered, Tip
    <2> QED
      BY <1>2, <2>1 DEF Follows, OpenIn, Linkable, Startable, Continues
  <1> QED
    BY <1>1, <1>2

\* The message under way may be cut.
LEMMA OrderedCut ==
  ASSUME NEW s \in Seq(Piece), NEW id, NEW C, Ordered(s, id, C), OpenIn(s, C)
  PROVE  Ordered(s, id, C \cup {Tip(s).msg})
  <1>1. s # <<>> /\ ~Tip(s).last
    BY DEF OpenIn
  <1>2. Tip(s) \in Piece /\ Len(s) \in 1 .. Len(s)
    BY <1>1, TipType
  <1>3. Tip(s).msg \in Nat
    BY <1>2 DEF Piece
  <1>4. ASSUME NEW i \in 1 .. Len(s), s[i].last
        PROVE  s[i].msg # Tip(s).msg
    <2>1. i # Len(s)
      BY <1>1, <1>4 DEF Tip
    <2>2. i < Len(s)
      BY <1>2, <2>1
    <2>3. s[i].msg < Tip(s).msg
      BY <1>2, <1>4, <2>2 DEF Ordered, Tip
    <2>4. s[i] \in Piece
      OBVIOUS
    <2>5. s[i].msg \in Nat
      BY <2>4 DEF Piece
    <2> QED
      BY <1>3, <2>3, <2>5
  <1> QED
    BY <1>1, <1>3, <1>4 DEF Ordered

-----------------------------------------------------------------------------
(* How a stream is thinned out: the pieces of one association are taken    *)
(* from its end part.                                                      *)

\* o is what is left of the stream s without association id.
Thinned(s, o, id, Gone) ==
  /\ Chained(o, Gone)
  /\ s = <<>> => o = <<>>
  /\ s # <<>> /\ Tip(s).assoc = id => Startable(o, Gone)
  /\ s # <<>> /\ Tip(s).assoc # id => o # <<>> /\ Tip(o) = Tip(s)

\* A stream without the pieces of an association that is gone is chained: the
\* association's pieces came in stretches between whole messages.
LEMMA ThinnedOut ==
  ASSUME NEW f \in Seq(Piece), NEW id, NEW Gone, NEW Gone2, Gone \subseteq Gone2,
         \A p \in Piece : p.assoc = id => p \in Gone2
  PROVE  \A d \in Seq(Piece) :
           Chained(f \o d, Gone) => Thinned(f \o d, f \o Only(d, {p \in Piece : p.assoc # id}), id, Gone2)
  <1> DEFINE T == {p \in Piece : p.assoc # id}
             G == {d \in Seq(Piece) :
                    Chained(f \o d, Gone) => Thinned(f \o d, f \o Only(d, T), id, Gone2)}
  <1>1. <<>> \in G
    <2>1. Only(<<>>, T) = <<>> /\ f \o <<>> = f /\ <<>> \in Seq(Piece)
      BY OnlyEmpty
    <2> HIDE DEF T
    <2>2. ASSUME Chained(f, Gone)
          PROVE  Thinned(f, f, id, Gone2)
      <3>1. f # <<>> => Tip(f) \in Piece
        BY TipType
      <3> QED
        BY <2>2, <3>1, ChainedMore DEF Thinned, Startable
    <2> QED
      BY <2>1, <2>2
  <1>2. ASSUME NEW d \in Seq(Piece), NEW x \in Piece, d \in G
        PROVE  Append(d, x) \in G
    <2> DEFINE s == f \o d
               k == Only(d, T)
               o == f \o k
    <2>1. k \in Seq(Piece)
      <3>1. k \in Seq(Piece \cap T)
        BY OnlyType
      <3> HIDE DEF k, T
      <3> QED
        BY <3>1
    <2>2. s \in Seq(Piece) /\ o \in Seq(Piece) /\ Append(d, x) \in Seq(Piece)
      BY <2>1, ConcatType, AppendType
    <2>3. f \o Append(d, x) = Append(s, x) /\ f \o Append(k, x) = Append(o, x)
      BY <2>1, ConcatAppend
    <2>4. Only(Append(d, x), T) = IF x.assoc # id THEN Append(k, x) ELSE k
      BY OnlyAppend
    <2>5. Chained(s, Gone) => Thinned(s, o, id, Gone2)
      BY <1>2
    <2> HIDE DEF s, o, k, T
    <2>6. ASSUME Chained(Append(s, x), Gone)
          PROVE  Thinned(Append(s, x), IF x.assoc # id THEN Append(o, x) ELSE o, id, Gone2)
      <3>1. Chained(s, Gone) /\ Linkable(s, x, Gone)
        BY <2>2, <2>6, ChainedAppend
      <3>2. Thinned(s, o, id, Gone2)
        BY <2>5, <3>1
      <3>3. /\ Append(s, x) # <<>> /\ Tip(Append(s, x)) = x
            /\ Append(o, x) # <<>> /\ Tip(Append(o, x)) = x
        <4>1. Append(s, x) # <<>> /\ Tip(Append(s, x)) = x
          BY <2>2, AppendTip, Zenon
        <4>2. Append(o, x) # <<>> /\ Tip(Append(o, x)) = x
          BY <2>2, AppendTip, Zenon
        <4> QED
          BY <4>1, <4>2
      <3>4. CASE x.assoc # id
        <4>1. Linkable(o, x, Gone2)
          BY <3>1, <3>2, <3>4 DEF Thinned, Linkable, Startable, Continues
        <4>2. Chained(Append(o, x), Gone2)
          BY <2>2, <3>2, <4>1, ChainedAppend DEF Thinned
        <4> QED
          BY <3>3, <3>4, <4>2 DEF Thinned
      <3>5. CASE x.assoc = id
        <4>1. Startable(o, Gone2)
          BY <3>1, <3>2, <3>5 DEF Thinned, Linkable, Startable, Continues
        <4> QED
          BY <3>2, <3>3, <3>5, <4>1 DEF Thinned
      <3> QED
        BY <3>4, <3>5
    <2>7. Chained(f \o Append(d, x), Gone)
            => Thinned(f \o Append(d, x), f \o Only(Append(d, x), T), id, Gone2)
      BY <2>3, <2>4, <2>6 DEF o
    <2> QED
      BY <2>2, <2>7
  <1> HIDE DEF G
  <1>3. Seq(Piece) \subseteq G
    BY <1>1, <1>2, SeqInd
  <1> QED
    BY <1>3 DEF G

=============================================================================
