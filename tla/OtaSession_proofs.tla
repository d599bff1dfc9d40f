-------------------------- MODULE OtaSession_proofs --------------------------
(***************************************************************************)
(* What the upload tool and the update server together guarantee, for any  *)
(* size of image, chunk, reply and flash: the honest tool never overruns   *)
(* the server or earns a protocol error, and what it tells its user of the *)
(* car is true.                                                            *)
(***************************************************************************)
EXTENDS OtaSession, Upload_proofs, SequenceTheorems

\* Replies on their way or not used yet.
Pending == Len(down) + Len(buffered)

\* The car waits for the next chunk.
Asks == up_state = "UP_DATA" /\ handler = "none" /\ toCar = 0 /\ buf_len = 0

\* The receiver is for the image of the tool, which fits its slot.
ForImage ==
  Receiving => rx.num_blocks = NUM_BLOCKS /\ NUM_BLOCKS * OTA_FLASH_PAGE <= rx.slot_size

\* The tool between its runs, and before it is connected.
ToolInv ==
  /\ pc \in Over => conn = "none" /\ ~mine /\ Pending = 0
  /\ pc = "connecting" => ~taken /\ buffered = <<>>
  /\ conn = "none" => Pending = 0

\* One reply at a time, and only while the car waits for what follows it.
TurnInv ==
  /\ mine => ~taken
  /\ mine /\ Pending > 0 => Pending = REPLY_SIZE /\ Asks /\ pc = "waiting"
  /\ mine /\ pc = "connecting" => up_state = "UP_HEADER" /\ buf_len = 0 /\ toCar = 0

\* What is on its way to the car is the rest of what it waits for.
DataInv ==
  toCar > 0 /\ client =>
    /\ buf_len + toCar = Need
    /\ \/ up_state = "UP_HEADER" /\ sent = 0
       \/ /\ up_state = "UP_DATA" /\ handler = "none" /\ sent > 0
          /\ rx.next_block = (sent - 1) * CHUNK_BLOCKS

\* The blocks written are those of the chunks received.
BlocksInv ==
  /\ mine /\ pc = "waiting" =>
       /\ up_state = "UP_HEADER" => toCar > 0
       /\ up_state = "UP_STOPPING" => sent = 0 /\ rx.next_block = 0 /\ toCar = 0
       /\ up_state = "UP_DATA" /\ handler = "none" /\ toCar = 0 =>
            buf_len = 0 /\ rx.next_block = sent * CHUNK_BLOCKS
  /\ handler = "on_chunk" =>
       /\ sent > 0 /\ toCar = 0
       /\ rx.next_block = sent * CHUNK_BLOCKS - left
       /\ (sent - 1) * CHUNK_BLOCKS < NUM_BLOCKS

\* What replies there may be.
Said == IF taken THEN {"DONE"} ELSE Replies \ {"DONE"}

\* DONE is said of an image that was taken, and of such an image nothing else.
VerdictInv ==
  /\ taken => sent = Chunks
  /\ down \in Seq(Said) /\ buffered \in Seq(Said)
  /\ VerdictTrue

\* The inductive invariant.
SessionInv ==
  /\ UploadInv /\ STypeOK
  /\ ForImage /\ ToolInv /\ TurnInv /\ DataInv /\ BlocksInv /\ VerdictInv

-----------------------------------------------------------------------------
(* What the parts of a step do. *)

\* The sizes are numbers.
LEMMA SessionSizes ==
  /\ NUM_BLOCKS \in Nat \ {0} /\ NUM_BLOCKS \in Words /\ REPLY_SIZE \in Nat \ {0}
  /\ HEADER_SIZE \in Nat \ {0} /\ CHUNK_SIZE \in Nat \ {0} /\ CHUNK_BLOCKS \in Nat \ {0}
  /\ Chunks \in Nat
<1>1. /\ NUM_BLOCKS \in Nat \ {0} /\ NUM_BLOCKS \in Words /\ REPLY_SIZE \in Nat \ {0}
      /\ HEADER_SIZE \in Nat \ {0} /\ CHUNK_SIZE \in Nat \ {0} /\ CHUNK_BLOCKS \in Nat \ {0}
  BY SessionAssumption, UploadAssumption, Numbers DEF Words
<1> DEFINE a == NUM_BLOCKS + CHUNK_BLOCKS - 1
           q == a \div CHUNK_BLOCKS
<1>2. a \in Nat
  BY <1>1
<1>3. q \in Int /\ a % CHUNK_BLOCKS \in 0 .. CHUNK_BLOCKS - 1
      /\ a = CHUNK_BLOCKS * q + (a % CHUNK_BLOCKS)
  BY <1>1, <1>2, DivMod
<1> DEFINE r == a % CHUNK_BLOCKS
<1> HIDE DEF a, q, r
<1>4. q >= 0
  <2> SUFFICES ASSUME q <= -1 PROVE FALSE
    BY <1>3
  <2>1. CHUNK_BLOCKS * q <= -CHUNK_BLOCKS
    BY <1>1, <1>3
  <2>2. r \in 0 .. CHUNK_BLOCKS - 1 /\ a = CHUNK_BLOCKS * q + r
    BY <1>3 DEF r
  <2> QED BY <1>1, <1>2, <1>3, <2>1, <2>2
<1> QED BY <1>1, <1>3, <1>4 DEF Chunks, q, a

\* What the tool sends is what a PC can send.
LEMMA PcHeaderType == PcHeader \in Header
BY SessionSizes DEF PcHeader, Header, Families

\* The last chunk is the one with which the blocks are all there.
LEMMA LastChunk ==
  ASSUME NEW s \in Nat, NEW l \in 0 .. CHUNK_BLOCKS,
         (s - 1) * CHUNK_BLOCKS < NUM_BLOCKS, NUM_BLOCKS = s * CHUNK_BLOCKS - l
  PROVE  s = Chunks
<1> DEFINE a == NUM_BLOCKS + CHUNK_BLOCKS - 1
           p == s * CHUNK_BLOCKS
           r == a - p
<1>1. NUM_BLOCKS \in Nat /\ CHUNK_BLOCKS \in Nat \ {0} /\ p \in Nat
  BY SessionSizes
<1>2. (s - 1) * CHUNK_BLOCKS = p - CHUNK_BLOCKS
  BY <1>1
<1>3. p = CHUNK_BLOCKS * s
  BY <1>1
<1>4. p - CHUNK_BLOCKS < NUM_BLOCKS /\ NUM_BLOCKS = p - l
  BY <1>2
<1> HIDE DEF p
<1>5. r \in 0 .. CHUNK_BLOCKS - 1 /\ a = p + r /\ a \in Int
  BY <1>1, <1>4
<1> HIDE DEF a, r
<1>6. a \div CHUNK_BLOCKS = s
  BY <1>1, <1>3, <1>5, DivModUnique
<1> QED BY <1>6 DEF Chunks, a

\* There is one.
LEMMA ChunksPositive == Chunks # 0
<1> SUFFICES ASSUME Chunks = 0 PROVE FALSE
  OBVIOUS
<1> DEFINE a == NUM_BLOCKS + CHUNK_BLOCKS - 1
           r == a % CHUNK_BLOCKS
<1>1. a \in Int
  BY SessionSizes
<1>2. r \in 0 .. CHUNK_BLOCKS - 1 /\ a = CHUNK_BLOCKS * 0 + r
  BY <1>1, SessionSizes, DivMod DEF Chunks
<1> HIDE DEF r
<1> QED BY <1>2, SessionSizes

\* A reply is all there or not at all, and goes nowhere but to the tool that
\* has the connection.
LEMMA SaysReply ==
  ASSUME NEW S, down \in Seq(S), NEW reply \in S, Says(reply)
  PROVE  /\ down' \in Seq(S)
         /\ Len(down') \in {Len(down), Len(down) + REPLY_SIZE}
         /\ ~mine => down' = down
<1> DEFINE whole == [i \in 1 .. REPLY_SIZE |-> reply]
<1>1. REPLY_SIZE \in Nat
  BY SessionSizes
<1>2. whole \in Seq(S) /\ Len(whole) = REPLY_SIZE
  <2>1. whole \in [1 .. REPLY_SIZE -> S]
    OBVIOUS
  <2>2. whole \in Seq(S)
    BY <1>1, <2>1, SeqDef
  <2>3. DOMAIN whole = 1 .. REPLY_SIZE
    OBVIOUS
  <2> HIDE DEF whole
  <2>4. Len(whole) \in Nat /\ 1 .. Len(whole) = 1 .. REPLY_SIZE
    BY <2>2, <2>3, LenProperties
  <2> QED BY <1>1, <2>2, <2>4
<1>3. down \o whole \in Seq(S) /\ Len(down \o whole) = Len(down) + REPLY_SIZE
  BY <1>2, ConcatProperties
<1>4. down' = down \/ (mine /\ down' = down \o whole)
  BY DEF Says
<1> HIDE DEF whole
<1> QED BY <1>3, <1>4

\* Both ends of what is said hold numbers of pieces.
LEMMA Lengths ==
  ASSUME STypeOK
  PROVE  /\ Len(down) \in Nat /\ Len(buffered) \in Nat /\ Pending \in Nat
         /\ Pending = 0 => down = <<>> /\ buffered = <<>>
<1>1. down \in Seq(Replies) /\ buffered \in Seq(Replies)
  BY DEF STypeOK
<1>2. Len(down) \in Nat /\ Len(buffered) \in Nat
  BY <1>1, LenProperties
<1>3. Len(down) = 0 => down = <<>>
  BY <1>1, EmptySeq
<1>4. Len(buffered) = 0 => buffered = <<>>
  BY <1>1, EmptySeq
<1> QED BY <1>2, <1>3, <1>4 DEF Pending

\* Nothing has been said.
LEMMA Silence ==
  ASSUME NEW d, NEW b, d = <<>>, b = <<>>
  PROVE  /\ \A S : d \in Seq(S) /\ b \in Seq(S)
         /\ Len(d) + Len(b) = 0 /\ Len(d) = 0 /\ Len(b) = 0
<1>1. \A S : <<>> \in Seq(S) /\ Len(<<>>) = 0
  BY EmptySeq
<1> QED BY <1>1

\* What is said is said of replies.
LEMMA SaidReplies == Said \subseteq Replies /\ Said' \subseteq Replies
BY DEF Said, Replies

\* The tool has the connection: what was said and what may be said.
LEMMA Turn ==
  ASSUME SessionInv, mine
  PROVE  /\ ~taken /\ Said = Replies \ {"DONE"} /\ client /\ conn = "open"
         /\ Pending \in {0, REPLY_SIZE}
         /\ Pending > 0 => Asks /\ pc = "waiting"
         /\ pc \in {"connecting", "waiting"}
<1>1. Pending \in Nat
  BY Lengths DEF SessionInv
<1>2. pc \in {"connecting", "waiting"}
  BY DEF SessionInv, STypeOK, ToolInv
<1> QED BY <1>1, <1>2 DEF SessionInv, TurnInv, STypeOK, Said

\* However the car ends a connection, the tool gets at most one more reply,
\* and the car forgets what was on its way.
LEMMA CarHangsUp ==
  ASSUME SessionInv, UploadInv', ForImage', NEW reply \in Replies \ {"DONE"}, HangsUp(reply),
         handler' = "none", UNCHANGED <<toolVars, taken>>
  PROVE  SessionInv'
<1>1. /\ mine' = FALSE /\ toCar' = 0 /\ sent' = sent /\ pc' = pc /\ buffered' = buffered
      /\ taken' = taken /\ Says(reply)
      /\ conn' \in IF mine THEN {"fin", "rst"} ELSE {conn}
  BY DEF HangsUp, toolVars
<1>2. STypeOK /\ ToolInv /\ VerdictInv
  BY DEF SessionInv
<1>3. Said' = Said
  BY <1>1 DEF Said
<1>4. down' \in Seq(Said) /\ (~mine => down' = down)
  <2>1. CASE mine
    <3>1. reply \in Said
      BY <2>1, Turn
    <3> QED BY <1>1, <1>2, <2>1, <3>1, SaysReply DEF VerdictInv
  <2>2. CASE ~mine
    BY <1>1, <1>2, <2>2 DEF VerdictInv, Says
  <2> QED BY <2>1, <2>2
<1>5. Pending' <= 2 * REPLY_SIZE
  <2>1. CASE mine
    <3>1. Len(down') \in {Len(down), Len(down) + REPLY_SIZE}
      <4>1. reply \in Said
        BY <2>1, Turn
      <4> QED BY <1>1, <1>2, <4>1, SaysReply DEF VerdictInv
    <3>2. Pending \in {0, REPLY_SIZE}
      BY <2>1, Turn
    <3> QED BY <1>1, <1>2, <3>1, <3>2, Lengths, SessionSizes DEF Pending
  <2>2. CASE ~mine
    BY <1>1, <1>2, <1>4, <2>2 DEF Pending, STypeOK
  <2> QED BY <2>1, <2>2
<1>6. STypeOK'
  <2>1. down' \in Seq(Replies) /\ buffered' \in Seq(Replies)
    BY <1>1, <1>2, <1>4, SaidReplies, SeqMonotonic DEF STypeOK
  <2>2. toCar' \in 0 .. HEADER_SIZE + CHUNK_SIZE
    BY <1>1, Sizes
  <2>3. conn' \in {"none", "open", "fin", "rst"}
    BY <1>1, <1>2 DEF STypeOK
  <2>4. Len(down') + Len(buffered') <= 2 * REPLY_SIZE
    BY <1>5 DEF Pending
  <2>5. /\ pc' \in Over \cup {"connecting", "waiting"}
        /\ mine' \in BOOLEAN /\ taken' \in BOOLEAN
        /\ sent' \in 0 .. (NUM_BLOCKS + CHUNK_BLOCKS - 1) \div CHUNK_BLOCKS
    BY <1>1, <1>2 DEF STypeOK
  <2> QED BY <1>1, <2>1, <2>2, <2>3, <2>4, <2>5 DEF STypeOK
<1>7. ToolInv'
  BY <1>1, <1>2, <1>4, Turn DEF ToolInv, Pending
<1>8. VerdictInv'
  BY <1>1, <1>2, <1>3, <1>4 DEF VerdictInv, VerdictTrue
<1> QED BY <1>1, <1>6, <1>7, <1>8 DEF SessionInv, TurnInv, DataInv, BlocksInv

\* What changes neither the receiver nor starts a new one keeps what is said
\* of it.
LEMMA SameImage ==
  ASSUME SessionInv, rx' = rx, Receiving' => Receiving
  PROVE  ForImage'
BY DEF SessionInv, ForImage

\* Without a word said or read, the talk is as it was.
LEMMA SameTalk ==
  ASSUME SessionInv, UNCHANGED <<pc, conn, mine, sent, down, buffered, taken>>,
         toCar' \in 0 .. HEADER_SIZE + CHUNK_SIZE, mine => client'
  PROVE  STypeOK' /\ ToolInv' /\ VerdictInv' /\ Pending' = Pending
<1>1. Pending' = Pending /\ Said' = Said
  BY DEF Pending, Said
<1>2. STypeOK'
  BY DEF SessionInv, STypeOK
<1>3. ToolInv' /\ VerdictInv'
  BY <1>1 DEF SessionInv, ToolInv, VerdictInv, VerdictTrue
<1> QED BY <1>1, <1>2, <1>3

\* The car replies and keeps the connection.
LEMMA CarSays ==
  ASSUME SessionInv, NEW reply \in Replies \ {"DONE"}, Says(reply),
         mine => Pending = 0 /\ client',
         UNCHANGED <<pc, conn, mine, sent, toCar, buffered, taken>>
  PROVE  STypeOK' /\ ToolInv' /\ VerdictInv' /\ (mine => Pending' \in {0, REPLY_SIZE})
<1>1. CASE ~mine
  <2>1. down' = down
    BY <1>1 DEF Says
  <2>2. toCar' \in 0 .. HEADER_SIZE + CHUNK_SIZE
    BY DEF SessionInv, STypeOK
  <2> QED BY <1>1, <2>1, <2>2, SameTalk
<1>2. CASE mine
  <2>1. STypeOK /\ ToolInv /\ VerdictInv
    BY DEF SessionInv
  <2>2. reply \in Said /\ Said' = Said /\ client /\ conn = "open" /\ pc \in {"connecting", "waiting"}
    BY <1>2, Turn DEF Said
  <2>3. down' \in Seq(Said) /\ Len(down') \in {Len(down), Len(down) + REPLY_SIZE}
    BY <2>1, <2>2, SaysReply DEF VerdictInv
  <2>4. Pending' \in {0, REPLY_SIZE}
    <3>1. Len(down) \in Nat /\ Len(buffered) \in Nat /\ Len(down) + Len(buffered) = 0
      BY <1>2, <2>1, Lengths DEF Pending
    <3>2. Len(down') \in {0, REPLY_SIZE} /\ Len(buffered) = 0
      BY <2>3, <3>1, SessionSizes
    <3> QED BY <3>2, SessionSizes DEF Pending
  <2>5. STypeOK'
    <3>1. down' \in Seq(Replies) /\ buffered' \in Seq(Replies)
      BY <2>1, <2>3, SaidReplies, SeqMonotonic DEF STypeOK
    <3>2. Len(down') + Len(buffered') <= 2 * REPLY_SIZE
      BY <2>4, SessionSizes DEF Pending
    <3>3. client'
      BY <1>2
    <3> QED BY <2>1, <3>1, <3>2, <3>3 DEF STypeOK
  <2>6. ToolInv'
    BY <2>1, <2>2 DEF ToolInv, Over
  <2>7. VerdictInv'
    BY <2>1, <2>2, <2>3 DEF VerdictInv, VerdictTrue
  <2> QED BY <2>4, <2>5, <2>6, <2>7
<1> QED BY <1>1, <1>2

-----------------------------------------------------------------------------
(* The tool. *)

\* main() of the tool starts.
LEMMA PcStartInv ==
  ASSUME SessionInv, PcStart
  PROVE  SessionInv'
<1>1. /\ pc \in Over /\ pc' = "connecting" /\ taken' = FALSE
      /\ UNCHANGED <<vars, conn, mine, sent, toCar, down, buffered>>
  BY DEF PcStart, netVars
<1>2. UNCHANGED <<up_state, client, buf_len, rx, handler, left>>
  BY <1>1 DEF vars, serverVars, chunkVars
<1>3. conn = "none" /\ ~mine /\ down = <<>> /\ buffered = <<>>
  BY <1>1, Lengths DEF SessionInv, ToolInv
<1>4. UploadInv'
  BY <1>1, StutterInv DEF SessionInv
<1>5. ForImage'
  BY <1>2, SameImage DEF Receiving
<1>6. STypeOK'
  BY <1>1, <1>2 DEF SessionInv, STypeOK
<1>7. ToolInv' /\ VerdictInv'
  <2>1. Pending' = 0 /\ down' \in Seq(Said') /\ buffered' \in Seq(Said')
    BY <1>1, <1>3, Silence DEF Pending
  <2> QED BY <1>1, <1>3, <2>1 DEF ToolInv, VerdictInv, VerdictTrue, Over
<1>8. DataInv' /\ BlocksInv' /\ TurnInv'
  BY <1>1, <1>2, <1>3 DEF SessionInv, DataInv, BlocksInv, TurnInv, Need
<1> QED BY <1>4, <1>5, <1>6, <1>7, <1>8 DEF SessionInv

\* The tool is connected and sends its header; the car has nothing of it yet.
LEMMA PcConnectedInv ==
  ASSUME SessionInv, PcConnected
  PROVE  SessionInv'
<1>1. /\ pc = "connecting" /\ conn \in {"open", "fin"} /\ pc' = "waiting"
      /\ UNCHANGED <<vars, conn, mine, down, buffered, taken>>
  BY DEF PcConnected
<1>2. UNCHANGED <<up_state, client, buf_len, rx, handler, left>>
  BY <1>1 DEF vars, serverVars, chunkVars
<1>3. IF mine THEN sent' = 0 /\ toCar' = HEADER_SIZE ELSE UNCHANGED <<sent, toCar>>
  BY DEF PcConnected, PcSends
<1>4. ~taken /\ buffered = <<>>
  BY <1>1 DEF SessionInv, ToolInv
<1>5. UploadInv'
  BY <1>1, StutterInv DEF SessionInv
<1>6. ForImage'
  BY <1>2, SameImage DEF Receiving
<1>7. mine => Pending = 0 /\ up_state = "UP_HEADER" /\ buf_len = 0 /\ handler # "on_chunk"
  <2>1. mine => up_state = "UP_HEADER" /\ buf_len = 0
    BY <1>1 DEF SessionInv, TurnInv
  <2>2. mine => Pending = 0
    BY <1>1, Turn, SessionSizes
  <2> QED BY <2>1, <2>2 DEF SessionInv, UploadInv, CarFollowsUpload
<1>8. Pending' = Pending /\ Said' = Said
  BY <1>1 DEF Pending, Said
<1>9. STypeOK'
  <2>1. sent' \in 0 .. Chunks /\ toCar' \in 0 .. HEADER_SIZE + CHUNK_SIZE
    BY <1>3, SessionSizes DEF SessionInv, STypeOK, Chunks
  <2> QED BY <1>1, <1>2, <2>1 DEF SessionInv, STypeOK, Chunks
<1>10. ToolInv' /\ VerdictInv' /\ TurnInv'
  BY <1>1, <1>4, <1>7, <1>8
     DEF SessionInv, ToolInv, VerdictInv, VerdictTrue, TurnInv, Over
<1>11. DataInv' /\ BlocksInv'
  <2>1. CASE mine
    <3>1. up_state' = "UP_HEADER" /\ buf_len' = 0 /\ sent' = 0 /\ toCar' = HEADER_SIZE
          /\ handler' # "on_chunk"
      BY <1>2, <1>3, <1>7, <2>1
    <3>2. HEADER_SIZE > 0 /\ 0 + HEADER_SIZE = HEADER_SIZE
      BY SessionSizes
    <3> QED BY <3>1, <3>2 DEF DataInv, BlocksInv, Need
  <2>2. CASE ~mine
    BY <1>1, <1>2, <1>3, <2>2 DEF SessionInv, DataInv, BlocksInv, Need
  <2> QED BY <2>1, <2>2
<1> QED BY <1>5, <1>6, <1>9, <1>10, <1>11 DEF SessionInv

\* A part of what was said arrives.
LEMMA PcDataInv ==
  ASSUME SessionInv, PcData
  PROVE  SessionInv'
<1>1. /\ pc = "waiting"
      /\ UNCHANGED <<vars, pc, conn, mine, sent, toCar, taken>>
  BY DEF PcData
<1>2. PICK k \in 1 .. Len(down) :
        /\ buffered' = buffered \o SubSeq(down, 1, k)
        /\ down' = SubSeq(down, k + 1, Len(down))
  BY DEF PcData
<1>3. UNCHANGED <<up_state, client, buf_len, rx, handler, left>>
  BY <1>1 DEF vars, serverVars, chunkVars
<1>4. Len(down) \in Nat /\ Len(buffered) \in Nat
  BY Lengths DEF SessionInv
<1>5. \A S : down \in Seq(S) /\ buffered \in Seq(S) =>
        /\ down' \in Seq(S) /\ buffered' \in Seq(S)
        /\ Len(down') = Len(down) - k /\ Len(buffered') = Len(buffered) + k
  <2> SUFFICES ASSUME NEW S, down \in Seq(S), buffered \in Seq(S)
               PROVE  /\ down' \in Seq(S) /\ buffered' \in Seq(S)
                      /\ Len(down') = Len(down) - k /\ Len(buffered') = Len(buffered) + k
    OBVIOUS
  <2>1. k \in Int /\ 1 <= k /\ k <= Len(down)
    BY <1>4
  <2>2. \A i \in 1 .. Len(down) : down[i] \in S
    BY ElementOfSeq
  <2>3. SubSeq(down, 1, k) \in Seq(S) /\ Len(SubSeq(down, 1, k)) = k
    <3>1. \A i \in 1 .. k : down[i] \in S
      BY <1>4, <2>1, <2>2
    <3>2. SubSeq(down, 1, k) \in Seq(S) /\ Len(SubSeq(down, 1, k)) = IF 1 <= k THEN k - 1 + 1 ELSE 0
      BY <2>1, <3>1, SubSeqProperties
    <3> QED BY <2>1, <3>2
  <2>4. SubSeq(down, k + 1, Len(down)) \in Seq(S)
        /\ Len(SubSeq(down, k + 1, Len(down))) = Len(down) - k
    <3>1. \A i \in k + 1 .. Len(down) : down[i] \in S
      BY <1>4, <2>1, <2>2
    <3>2. k + 1 \in Int /\ Len(down) \in Int
      BY <1>4, <2>1
    <3>3. /\ SubSeq(down, k + 1, Len(down)) \in Seq(S)
          /\ Len(SubSeq(down, k + 1, Len(down))) =
               IF k + 1 <= Len(down) THEN Len(down) - (k + 1) + 1 ELSE 0
      BY <3>1, <3>2, SubSeqProperties
    <3> QED BY <1>4, <2>1, <3>3
  <2> QED BY <1>2, <2>3, <2>4, ConcatProperties
<1>6. Pending' = Pending
  <2>1. down \in Seq(Replies) /\ buffered \in Seq(Replies)
    BY DEF SessionInv, STypeOK
  <2>2. Len(down') = Len(down) - k /\ Len(buffered') = Len(buffered) + k /\ k \in Int
    BY <1>4, <1>5, <2>1
  <2> QED BY <1>4, <2>2 DEF Pending
<1>7. UploadInv'
  BY <1>1, StutterInv DEF SessionInv
<1>8. ForImage'
  BY <1>3, SameImage DEF Receiving
<1>9. STypeOK'
  <2>1. down' \in Seq(Replies) /\ buffered' \in Seq(Replies)
    BY <1>5 DEF SessionInv, STypeOK
  <2>2. Len(down') + Len(buffered') <= 2 * REPLY_SIZE
    BY <1>6 DEF Pending, SessionInv, STypeOK
  <2> QED BY <1>1, <1>3, <2>1, <2>2 DEF SessionInv, STypeOK
<1>10. ToolInv'
  BY <1>1, <1>6 DEF SessionInv, ToolInv, Over
<1>11. VerdictInv'
  <2>1. Said' = Said
    BY <1>1 DEF Said
  <2> QED BY <1>1, <1>5, <2>1 DEF SessionInv, VerdictInv, VerdictTrue
<1>12. TurnInv' /\ DataInv' /\ BlocksInv'
  BY <1>1, <1>3, <1>6 DEF SessionInv, TurnInv, DataInv, BlocksInv, Need, Asks
<1> QED BY <1>7, <1>8, <1>9, <1>10, <1>11, <1>12 DEF SessionInv

\* main() of the tool ends.
LEMMA PcExitInv ==
  ASSUME SessionInv, NEW outcome \in Over, PcExit(outcome),
         outcome = "success" => taken, outcome = "refused" => ~taken
  PROVE  SessionInv'
<1>1. /\ pc' = outcome /\ conn' = "none" /\ mine' = FALSE /\ down' = <<>> /\ buffered' = <<>>
      /\ UNCHANGED <<vars, sent, toCar, taken>>
  BY DEF PcExit
<1>2. UNCHANGED <<up_state, client, buf_len, rx, handler, left>>
  BY <1>1 DEF vars, serverVars, chunkVars
<1>3. Pending' = 0 /\ \A S : down' \in Seq(S) /\ buffered' \in Seq(S)
  BY <1>1, Silence DEF Pending
<1>4. UploadInv'
  BY <1>1, StutterInv DEF SessionInv
<1>5. ForImage'
  BY <1>2, SameImage DEF Receiving
<1>6. STypeOK'
  <2>1. Len(down') + Len(buffered') <= 2 * REPLY_SIZE
    BY <1>3, SessionSizes DEF Pending
  <2> QED BY <1>1, <1>3, <2>1 DEF SessionInv, STypeOK
<1>7. ToolInv' /\ VerdictInv' /\ TurnInv'
  BY <1>1, <1>3 DEF SessionInv, ToolInv, VerdictInv, VerdictTrue, TurnInv, Over
<1>8. DataInv' /\ BlocksInv'
  BY <1>1, <1>2 DEF SessionInv, DataInv, BlocksInv, Need
<1> QED BY <1>4, <1>5, <1>6, <1>7, <1>8 DEF SessionInv

\* The tool uses a reply: it ends with a true verdict, or sends the next chunk
\* to a car that waits for it.
LEMMA PcReplyInv ==
  ASSUME SessionInv, PcReply
  PROVE  SessionInv'
<1>1. pc = "waiting" /\ Len(buffered) >= REPLY_SIZE
  BY DEF PcReply
<1>2. buffered[1] \in Said
  <2>1. buffered \in Seq(Said) /\ Len(buffered) \in Nat
    BY Lengths DEF SessionInv, VerdictInv
  <2>2. 1 \in 1 .. Len(buffered)
    BY <1>1, <2>1, SessionSizes
  <2> QED BY <2>1, <2>2, ElementOfSeq
<1>3. CASE ~expect(buffered[1])
  <2>1. PcExit("refused")
    BY <1>3 DEF PcReply
  <2>2. ~taken
    <3> SUFFICES ASSUME taken PROVE FALSE
      OBVIOUS
    <3>1. buffered[1] = "DONE" /\ sent = Chunks
      BY <1>2 DEF Said, SessionInv, VerdictInv
    <3> QED BY <1>3, <3>1, ChunksPositive DEF expect, Want
  <2> QED BY <2>1, <2>2, PcExitInv DEF Over
<1>4. CASE expect(buffered[1]) /\ sent = Chunks
  <2>1. PcExit("success")
    BY <1>4 DEF PcReply
  <2>2. taken
    <3>1. Chunks = 0 \/ buffered[1] = "DONE"
      BY <1>4 DEF expect, Want
    <3> QED BY <1>2, <3>1, ChunksPositive DEF Said
  <2> QED BY <2>1, <2>2, PcExitInv DEF Over
<1>5. CASE expect(buffered[1]) /\ sent # Chunks
  <2>1. /\ buffered' = SubSeq(buffered, REPLY_SIZE + 1, Len(buffered))
        /\ PcSends(sent + 1, CHUNK_SIZE)
        /\ UNCHANGED <<vars, pc, conn, mine, down, taken>>
    BY <1>5 DEF PcReply
  <2>2. UNCHANGED <<up_state, client, buf_len, rx, handler, left>>
    BY <2>1 DEF vars, serverVars, chunkVars
  <2>3. Len(down) \in Nat /\ Len(buffered) \in Nat
    BY Lengths DEF SessionInv
  <2>4. \A S : buffered \in Seq(S) =>
          buffered' \in Seq(S) /\ Len(buffered') = Len(buffered) - REPLY_SIZE
    <3> SUFFICES ASSUME NEW S, buffered \in Seq(S)
                 PROVE  buffered' \in Seq(S) /\ Len(buffered') = Len(buffered) - REPLY_SIZE
      OBVIOUS
    <3>1. \A i \in REPLY_SIZE + 1 .. Len(buffered) : buffered[i] \in S
      <4>1. \A i \in 1 .. Len(buffered) : buffered[i] \in S
        BY ElementOfSeq
      <4> QED BY <2>3, <4>1, SessionSizes
    <3>2. REPLY_SIZE + 1 \in Int /\ Len(buffered) \in Int
      BY <2>3, SessionSizes
    <3>3. /\ buffered' \in Seq(S)
          /\ Len(buffered') = IF REPLY_SIZE + 1 <= Len(buffered)
                              THEN Len(buffered) - (REPLY_SIZE + 1) + 1 ELSE 0
      BY <2>1, <3>1, <3>2, SubSeqProperties
    <3> QED BY <1>1, <2>3, <3>3, SessionSizes
  <2>5. Pending' = Pending - REPLY_SIZE
    <3>1. Len(buffered') = Len(buffered) - REPLY_SIZE
      BY <2>4 DEF SessionInv, STypeOK
    <3> QED BY <2>1, <2>3, <3>1, SessionSizes DEF Pending
  <2>6. Pending >= REPLY_SIZE /\ Pending \in Nat
    BY <1>1, <2>3, SessionSizes DEF Pending
  <2>7. mine => Asks /\ Pending' = 0 /\ sent' = sent + 1 /\ toCar' = CHUNK_SIZE
                /\ rx.next_block = sent * CHUNK_BLOCKS
    <3>1. mine => Asks /\ Pending = REPLY_SIZE
      BY <2>6, Turn, SessionSizes
    <3> QED BY <1>1, <2>1, <2>5, <3>1, SessionSizes
            DEF PcSends, SessionInv, BlocksInv, Asks
  <2>8. ~mine => UNCHANGED <<sent, toCar>>
    BY <2>1 DEF PcSends
  <2>9. sent \in 0 .. Chunks /\ sent' \in 0 .. Chunks
    <3>1. sent \in 0 .. Chunks
      BY DEF SessionInv, STypeOK, Chunks
    <3> QED BY <1>5, <2>7, <2>8, <3>1, SessionSizes
  <2>10. UploadInv'
    BY <2>1, StutterInv DEF SessionInv
  <2>11. ForImage'
    BY <2>2, SameImage DEF Receiving
  <2>12. STypeOK'
    <3>1. toCar' \in 0 .. HEADER_SIZE + CHUNK_SIZE
      <4>1. CASE mine
        BY <2>7, <4>1, SessionSizes
      <4>2. CASE ~mine
        BY <2>8, <4>2 DEF SessionInv, STypeOK
      <4> QED BY <4>1, <4>2
    <3>2. buffered' \in Seq(Replies)
      BY <2>4 DEF SessionInv, STypeOK
    <3>3. Len(down') + Len(buffered') <= 2 * REPLY_SIZE
      <4>1. Pending <= 2 * REPLY_SIZE
        BY DEF Pending, SessionInv, STypeOK
      <4>2. Pending' <= 2 * REPLY_SIZE
        BY <2>5, <2>6, <4>1, SessionSizes
      <4> QED BY <4>2 DEF Pending
    <3> QED BY <2>1, <2>2, <2>9, <3>1, <3>2, <3>3 DEF SessionInv, STypeOK, Chunks
  <2>13. ToolInv'
    <3>1. conn # "none"
      BY <2>6, SessionSizes DEF SessionInv, ToolInv
    <3> QED BY <1>1, <2>1, <3>1 DEF ToolInv, Over
  <2>14. VerdictInv'
    <3>1. ~taken
      <4> SUFFICES ASSUME taken PROVE FALSE
        OBVIOUS
      <4> QED BY <1>5 DEF SessionInv, VerdictInv
    <3>2. Said' = Said
      BY <2>1 DEF Said
    <3> QED BY <1>1, <2>1, <2>4, <3>1, <3>2 DEF SessionInv, VerdictInv, VerdictTrue
  <2>15. TurnInv' /\ DataInv' /\ BlocksInv'
    <3>1. CASE mine
      <4>1. /\ up_state' = "UP_DATA" /\ handler' = "none" /\ buf_len' = 0
            /\ toCar' = CHUNK_SIZE /\ Pending' = 0 /\ pc' = "waiting" /\ ~taken'
            /\ sent' = sent + 1 /\ rx'.next_block = sent * CHUNK_BLOCKS
        BY <1>1, <2>1, <2>2, <2>7, <3>1, Turn DEF Asks
      <4>2. CHUNK_SIZE > 0 /\ 0 + CHUNK_SIZE = CHUNK_SIZE
        BY SessionSizes
      <4>3. sent + 1 > 0 /\ (sent + 1) - 1 = sent
        BY <2>9, SessionSizes
      <4>4. TurnInv'
        BY <4>1 DEF TurnInv
      <4>5. DataInv'
        BY <4>1, <4>2, <4>3 DEF DataInv, Need
      <4>6. BlocksInv'
        BY <4>1, <4>2 DEF BlocksInv
      <4> QED BY <4>4, <4>5, <4>6
    <3>2. CASE ~mine
      BY <1>1, <2>1, <2>2, <2>8, <3>2 DEF SessionInv, TurnInv, DataInv, BlocksInv, Need
    <3> QED BY <3>1, <3>2
  <2> QED BY <2>10, <2>11, <2>12, <2>13, <2>14, <2>15 DEF SessionInv
<1> QED BY <1>3, <1>4, <1>5

-----------------------------------------------------------------------------
(* The car. *)

\* The connection is made, or refused.
LEMMA SAcceptInv ==
  ASSUME SessionInv, SAccept
  PROVE  SessionInv'
<1>1. /\ pc = "connecting" /\ conn = "none" /\ OnAccept
      /\ UNCHANGED <<pc, buffered, sent, down, taken, rx, handler, left>>
  BY DEF SAccept, OnAccept, toolVars, chunkVars
<1>2. ~mine /\ Pending = 0 /\ ~taken /\ handler = "none"
  <2>1. STypeOK /\ ToolInv
    BY DEF SessionInv
  <2> QED BY <1>1, <2>1 DEF STypeOK, ToolInv, OnAccept, Running
<1>3. UploadInv'
  BY <1>1, OnAcceptInv DEF SessionInv
<1>4. ForImage'
  BY <1>1, SameImage DEF OnAccept, Receiving, serverVars, set_state
<1>5. Pending' = Pending /\ Said' = Said
  BY <1>1 DEF Pending, Said
<1>6. CASE client \/ up_state # "UP_IDLE"
  <2>1. callback'.aborted /\ UNCHANGED serverVars
    BY <1>6 DEF SAccept, OnAccept, Returned
  <2>2. conn' = "rst" /\ UNCHANGED <<mine, toCar>>
    BY <2>1 DEF SAccept
  <2>3. UNCHANGED <<up_state, client, buf_len>>
    BY <2>1 DEF serverVars
  <2>4. STypeOK'
    BY <1>1, <1>2, <2>2 DEF SessionInv, STypeOK
  <2>5. ToolInv' /\ VerdictInv' /\ TurnInv'
    BY <1>1, <1>2, <1>5, <2>2
       DEF SessionInv, ToolInv, VerdictInv, VerdictTrue, TurnInv, Over
  <2>6. DataInv' /\ BlocksInv'
    BY <1>1, <1>2, <2>2, <2>3 DEF SessionInv, DataInv, BlocksInv, Need
  <2> QED BY <1>3, <1>4, <2>4, <2>5, <2>6 DEF SessionInv
<1>7. CASE ~(client \/ up_state # "UP_IDLE")
  <2>1. /\ client' = TRUE /\ buf_len' = 0 /\ up_state' = "UP_HEADER"
        /\ ~callback'.aborted
    BY <1>7 DEF SAccept, OnAccept, Returned, set_state
  <2>2. conn' = "open" /\ mine' = TRUE /\ toCar' = 0
    BY <2>1 DEF SAccept
  <2>3. STypeOK'
    BY <1>1, <2>1, <2>2, SessionSizes DEF SessionInv, STypeOK
  <2>4. ToolInv' /\ VerdictInv'
    BY <1>1, <1>2, <1>5, <2>2 DEF SessionInv, ToolInv, VerdictInv, VerdictTrue, Over
  <2>5. TurnInv' /\ DataInv' /\ BlocksInv'
    BY <1>1, <1>2, <1>5, <2>1, <2>2 DEF TurnInv, DataInv, BlocksInv
  <2> QED BY <1>3, <1>4, <2>3, <2>4, <2>5 DEF SessionInv
<1> QED BY <1>6, <1>7

\* A header is taken: all of it has arrived, and the receiver is for the
\* image.
LEMMA HeaderTaken ==
  ASSUME SessionInv, NEW n \in 1 .. toCar, NEW target \in DOMAIN Partitions,
         Receives, RecvHeader(n, PcHeader, target), client'
  PROVE  /\ up_state' = "UP_STOPPING" /\ client' = client /\ handler' = "none"
         /\ rx'.num_blocks = NUM_BLOCKS /\ NUM_BLOCKS * OTA_FLASH_PAGE <= rx'.slot_size
         /\ rx'.next_block = 0
         /\ n = toCar /\ sent = 0
<1> DEFINE init == ota_rx_init(PcHeader, SlotStart(target), SlotSize(target))
<1>1. ~FailedCallback
  BY FailedFrees
<1>2. /\ up_state = "UP_HEADER" /\ buf_len + n = Need /\ init.status = "OTA_OK" /\ rx' = init.rx
      /\ up_state' = "UP_STOPPING" /\ client' = client /\ handler' = "none"
  <2>1. up_state = "UP_HEADER" /\ buf_len + n = Need /\ handler' = handler /\ handler = "none"
    BY DEF RecvHeader, chunkVars, Receives, Running
  <2>2. /\ ota_header_parse(PcHeader) = "OTA_OK" /\ find_slot(target) = "OTA_OK"
        /\ init.status = "OTA_OK"
    BY <1>1 DEF RecvHeader
  <2>3. rx' = init.rx /\ set_state("UP_STOPPING") /\ client' = client
    BY <2>2 DEF RecvHeader
  <2> HIDE DEF init
  <2>4. up_state' = "UP_STOPPING"
    BY <2>3 DEF set_state
  <2>5. handler' = "none"
    BY <2>1
  <2>6. rx' = init.rx
    BY <2>3
  <2>7. client' = client
    BY <2>3
  <2> QED BY <2>1, <2>2, <2>4, <2>5, <2>6, <2>7
<1>3. ~(PcHeader.num_blocks * OTA_FLASH_PAGE > SlotSize(target))
  BY <1>2 DEF ota_rx_init
<1>4. init.rx = [slot_start |-> SlotStart(target), slot_size |-> SlotSize(target),
                 family |-> FAMILY, num_blocks |-> NUM_BLOCKS, next_block |-> 0,
                 next_addr |-> OTA_XIP_BASE, erased_end |-> SlotStart(target)]
  BY <1>3 DEF ota_rx_init, RxZero, PcHeader
<1>5. NUM_BLOCKS * OTA_FLASH_PAGE <= SlotSize(target)
  <2> DEFINE a == NUM_BLOCKS * OTA_FLASH_PAGE
             b == SlotSize(target)
  <2>1. a \in Int /\ b \in Int
    BY SessionSizes, Numbers, PartitionSlot DEF Words
  <2>2. ~(a > b)
    BY <1>3 DEF PcHeader
  <2> HIDE DEF a, b
  <2> QED BY <2>1, <2>2 DEF a, b
<1>6. n = toCar /\ sent = 0
  <2>1. toCar \in Nat /\ buf_len \in Nat /\ n \in Nat /\ toCar > 0
    BY SessionSizes DEF SessionInv, STypeOK, UploadInv, TypeOK
  <2>2. buf_len + toCar = Need /\ sent = 0
    BY <1>2, <2>1 DEF SessionInv, DataInv, Receives
  <2>3. Need \in Nat
    BY Sizes
  <2> QED BY <1>2, <2>1, <2>2, <2>3
<1>7. rx'.num_blocks = NUM_BLOCKS /\ rx'.slot_size = SlotSize(target) /\ rx'.next_block = 0
  <2> HIDE DEF init
  <2>1. rx' = init.rx
    BY <1>2
  <2>2. init.rx.num_blocks = NUM_BLOCKS /\ init.rx.slot_size = SlotSize(target)
        /\ init.rx.next_block = 0
    BY <1>4
  <2> QED BY <2>1, <2>2
<1>8. NUM_BLOCKS * OTA_FLASH_PAGE <= rx'.slot_size
  BY <1>5, <1>7
<1> HIDE DEF init
<1> QED BY <1>2, <1>6, <1>7, <1>8

\* on_recv() of data of the tool
LEMMA SRecvInv ==
  ASSUME SessionInv, SRecv
  PROVE  SessionInv'
<1>1. Receives /\ client /\ handler = "none"
      /\ UNCHANGED <<pc, buffered, taken>> /\ UNCHANGED <<toolVars, taken>>
  BY DEF SRecv, Receives, Running, toolVars
<1>2. PICK n \in 1 .. toCar :
        \/ RecvTooMuch(n) /\ HangsUp("error")
        \/ /\ RecvPart(n) \/ RecvChunk(n)
           /\ toCar' = toCar - n
           /\ UNCHANGED <<conn, mine, sent, down>>
        \/ \E target \in DOMAIN Partitions \ {boot_partition} :
             /\ RecvHeader(n, PcHeader, target)
             /\ IF client'
                THEN toCar' = toCar - n /\ UNCHANGED <<conn, mine, sent, down>>
                ELSE HangsUp("error")
  BY DEF SRecv
<1>3. /\ toCar \in Nat /\ buf_len \in Nat /\ n \in Nat /\ n >= 1 /\ n <= toCar
      /\ toCar <= HEADER_SIZE + CHUNK_SIZE /\ Need \in Nat /\ left \in Nat /\ sent \in Nat
  <2>1. toCar \in 0 .. HEADER_SIZE + CHUNK_SIZE /\ buf_len \in 0 .. CHUNK_SIZE
        /\ left \in 0 .. CHUNK_BLOCKS /\ sent \in 0 .. Chunks
    BY DEF SessionInv, STypeOK, UploadInv, TypeOK, Chunks
  <2>2. toCar \in Nat /\ buf_len \in Nat /\ left \in Nat /\ sent \in Nat /\ Need \in Nat
    BY <2>1, Sizes, SessionSizes
  <2> QED BY <2>1, <2>2, SessionSizes
<1>4. /\ buf_len + toCar = Need
      /\ \/ up_state = "UP_HEADER" /\ sent = 0
         \/ up_state = "UP_DATA" /\ sent > 0 /\ rx.next_block = (sent - 1) * CHUNK_BLOCKS
  BY <1>1, <1>3 DEF SessionInv, DataInv
<1>5. mine => Pending = 0 /\ pc = "waiting"
  <2>1. ~Asks
    BY <1>3 DEF Asks
  <2>2. mine /\ pc = "connecting" => toCar = 0
    BY DEF SessionInv, TurnInv
  <2> QED BY <1>3, <2>1, <2>2, Turn, SessionSizes
<1>6. "error" \in Replies \ {"DONE"}
  BY DEF Replies
<1>7. toCar - n \in 0 .. HEADER_SIZE + CHUNK_SIZE
  BY <1>3, SessionSizes
<1>8. CASE RecvTooMuch(n) /\ HangsUp("error")
  \* It does not happen: there is no more than the car waits for.
  BY <1>3, <1>4, <1>8 DEF RecvTooMuch
<1>9. CASE RecvPart(n) /\ toCar' = toCar - n /\ UNCHANGED <<conn, mine, sent, down>>
  <2>1. /\ buf_len' = buf_len + n /\ UNCHANGED <<up_state, client, rx, handler, left>>
        /\ buf_len + n < Need
    BY <1>9 DEF RecvPart, chunkVars
  <2>2. UploadInv'
    BY <1>1, <1>3, <1>9, RecvPartInv DEF SessionInv
  <2>3. ForImage'
    BY <2>1, SameImage DEF Receiving
  <2>4. STypeOK' /\ ToolInv' /\ VerdictInv' /\ Pending' = Pending
    BY <1>1, <1>7, <1>9, <2>1, SameTalk
  <2>5. toCar' > 0 /\ buf_len' + toCar' = buf_len + toCar /\ Need' = Need
    <3>1. Need' = Need
      BY <2>1 DEF Need
    <3> QED BY <1>3, <1>4, <1>9, <2>1, <3>1
  <2>6. TurnInv' /\ DataInv' /\ BlocksInv'
    BY <1>1, <1>3, <1>4, <1>5, <1>9, <2>1, <2>4, <2>5, Turn DEF TurnInv, DataInv, BlocksInv
  <2> QED BY <2>2, <2>3, <2>4, <2>6 DEF SessionInv
<1>10. CASE RecvChunk(n) /\ toCar' = toCar - n /\ UNCHANGED <<conn, mine, sent, down>>
  <2>1. /\ handler' = "on_chunk" /\ left' = CHUNK_BLOCKS /\ UNCHANGED <<up_state, client, rx>>
        /\ up_state = "UP_DATA" /\ buf_len + n = Need
    BY <1>10 DEF RecvChunk
  <2>2. UploadInv'
    BY <1>1, <1>3, <1>10, RecvChunkInv DEF SessionInv
  <2>3. ForImage'
    BY <2>1, SameImage DEF Receiving
  <2>4. STypeOK' /\ ToolInv' /\ VerdictInv' /\ Pending' = Pending
    BY <1>1, <1>7, <1>10, <2>1, SameTalk
  <2>5. toCar' = 0
    BY <1>3, <1>4, <1>10, <2>1
  <2>6. rx.next_block = sent * CHUNK_BLOCKS - CHUNK_BLOCKS
        /\ (sent - 1) * CHUNK_BLOCKS < NUM_BLOCKS /\ sent > 0
    <3>1. Placed /\ TypeOK /\ ~ota_rx_done(rx) /\ rx.num_blocks = NUM_BLOCKS
      BY <1>1, <2>1 DEF SessionInv, UploadInv, Receiving, ForImage
    <3>2. rx.next_block < NUM_BLOCKS
      BY <3>1, ImageSize
    <3>3. rx.next_block = (sent - 1) * CHUNK_BLOCKS /\ sent > 0
      BY <1>4, <2>1
    <3>4. (sent - 1) * CHUNK_BLOCKS = sent * CHUNK_BLOCKS - CHUNK_BLOCKS
      BY <1>3, SessionSizes
    <3> QED BY <3>2, <3>3, <3>4
  <2>7. TurnInv' /\ DataInv' /\ BlocksInv'
    BY <1>1, <1>5, <1>10, <2>1, <2>4, <2>5, <2>6, Turn DEF TurnInv, DataInv, BlocksInv
  <2> QED BY <2>2, <2>3, <2>4, <2>7 DEF SessionInv
<1>11. ASSUME NEW target \in DOMAIN Partitions \ {boot_partition},
              RecvHeader(n, PcHeader, target),
              IF client'
              THEN toCar' = toCar - n /\ UNCHANGED <<conn, mine, sent, down>>
              ELSE HangsUp("error")
       PROVE  SessionInv'
  <2>1. UploadInv'
    BY <1>1, <1>3, <1>11, PcHeaderType, RecvHeaderInv DEF SessionInv
  <2>2. handler' = "none"
    BY <1>1, <1>11 DEF RecvHeader, chunkVars
  <2>3. CASE ~client'
    <3>1. ~Receiving'
      BY <2>3, <1>1, <1>11, FailedFrees DEF RecvHeader, Receiving, Returned
    <3>2. ForImage'
      BY <3>1 DEF ForImage
    <3> QED BY <1>1, <1>6, <1>11, <2>1, <2>2, <2>3, <3>2, CarHangsUp
  <2>4. CASE client'
    <3>1. toCar' = toCar - n /\ UNCHANGED <<conn, mine, sent, down>>
      BY <1>11, <2>4
    <3>2. /\ up_state' = "UP_STOPPING" /\ client' = client
          /\ rx'.num_blocks = NUM_BLOCKS /\ NUM_BLOCKS * OTA_FLASH_PAGE <= rx'.slot_size
          /\ rx'.next_block = 0 /\ n = toCar /\ sent = 0
      BY <1>1, <1>11, <2>4, HeaderTaken
    <3>3. toCar' = 0
      BY <1>3, <3>1, <3>2
    <3>4. ForImage'
      BY <3>2 DEF ForImage
    <3>5. STypeOK' /\ ToolInv' /\ VerdictInv' /\ Pending' = Pending
      BY <1>1, <1>7, <2>4, <3>1, SameTalk
    <3>6. TurnInv' /\ DataInv' /\ BlocksInv'
      BY <1>1, <1>5, <2>2, <3>1, <3>2, <3>3, <3>5, Turn DEF TurnInv, DataInv, BlocksInv
    <3> QED BY <2>1, <3>4, <3>5, <3>6 DEF SessionInv
  <2> QED BY <2>3, <2>4
<1> QED BY <1>2, <1>8, <1>9, <1>10, <1>11

\* on_recv() at the end of an earlier run
LEMMA SClosedInv ==
  ASSUME SessionInv, SClosed
  PROVE  SessionInv'
<1>1. /\ ~mine /\ toCar = 0 /\ handler = "none" /\ OnRecvClosed
      /\ UNCHANGED <<pc, conn, mine, sent, toCar, down, buffered, taken, rx, handler>>
  BY DEF SClosed, OnRecvClosed, Running, toolVars, netVars, chunkVars
<1>2. UploadInv'
  BY <1>1, OnRecvClosedInv DEF SessionInv
<1>3. ForImage'
  BY <1>1, SameImage DEF OnRecvClosed, Receiving, set_state
<1>4. toCar' \in 0 .. HEADER_SIZE + CHUNK_SIZE
  BY <1>1 DEF SessionInv, STypeOK
<1>5. STypeOK' /\ ToolInv' /\ VerdictInv'
  BY <1>1, <1>4, SameTalk
<1> QED BY <1>1, <1>2, <1>3, <1>5 DEF SessionInv, TurnInv, DataInv, BlocksInv

\* The car loses its connection, by an error or a restart.
LEMMA CarGone ==
  ASSUME SessionInv, UploadInv', ~Receiving', handler' = "none",
         mine' = FALSE, toCar' = 0, UNCHANGED <<pc, sent, down, buffered, taken>>,
         conn' \in {conn} \cup IF mine THEN {"open", "rst"} ELSE {}
  PROVE  SessionInv'
<1>1. ForImage'
  BY DEF ForImage
<1>2. Pending' = Pending /\ Said' = Said
  BY DEF Pending, Said
<1>3. conn' # conn => mine
  OBVIOUS
<1>4. STypeOK'
  <2>1. conn' \in {"none", "open", "fin", "rst"}
    BY DEF SessionInv, STypeOK
  <2>2. toCar' \in 0 .. HEADER_SIZE + CHUNK_SIZE
    BY Sizes
  <2> QED BY <2>1, <2>2 DEF SessionInv, STypeOK
<1>5. ToolInv' /\ VerdictInv'
  <2>1. conn' = "none" => conn = "none"
    OBVIOUS
  <2>2. pc \in Over => conn' = "none"
    BY <1>3 DEF SessionInv, ToolInv
  <2> QED BY <1>2, <2>1, <2>2 DEF SessionInv, ToolInv, VerdictInv, VerdictTrue
<1> QED BY <1>1, <1>4, <1>5 DEF SessionInv, TurnInv, DataInv, BlocksInv

\* on_tcp_err()
LEMMA SBrokenInv ==
  ASSUME SessionInv, SBroken
  PROVE  SessionInv'
<1>1. UploadInv' /\ handler' = "none"
  BY OnTcpErrInv DEF SBroken, OnTcpErr, Running, chunkVars, SessionInv
<1>2. ~Receiving'
  <2>1. ~client'
    BY DEF SBroken, OnTcpErr
  <2>2. up_state' # "UP_REBOOT"
    <3>1. client => up_state \in {"UP_HEADER", "UP_STOPPING", "UP_DATA"}
      BY DEF SessionInv, UploadInv, CarFollowsUpload
    <3> QED BY <3>1 DEF SBroken, OnTcpErr, set_state
  <2> QED BY <1>1, <2>1, <2>2 DEF UploadInv, CarFollowsUpload, Receiving
<1> QED BY <1>1, <1>2, CarGone DEF SBroken, toolVars

\* The car restarts.
LEMMA SRestartInv ==
  ASSUME SessionInv, SRestart
  PROVE  SessionInv'
<1>1. UploadInv' /\ handler' = "none" /\ ~Receiving'
  BY FreshStart DEF SRestart, Restart, Receiving
<1> QED BY <1>1, CarGone DEF SRestart, toolVars

\* The next block of the chunk is the one the car expects, and one that a PC
\* can send.
LEMMA NextBlockType ==
  ASSUME SessionInv, handler = "on_chunk", ~ota_rx_done(rx)
  PROVE  NextBlock \in Block
<1> DEFINE k == (sent - 1) * CHUNK_BLOCKS + CHUNK_BLOCKS - left
           P == OTA_FLASH_PAGE
<1>1. /\ sent \in Nat /\ left \in Nat /\ rx.next_block = sent * CHUNK_BLOCKS - left
      /\ Placed /\ TypeOK /\ rx.num_blocks = NUM_BLOCKS
      /\ NUM_BLOCKS * P <= rx.slot_size
  <2>1. up_state = "UP_DATA"
    BY DEF SessionInv, UploadInv, CarFollowsUpload
  <2>2. sent \in 0 .. Chunks /\ left \in 0 .. CHUNK_BLOCKS
    BY DEF SessionInv, STypeOK, UploadInv, TypeOK, Chunks
  <2> QED BY <2>1, <2>2, SessionSizes
          DEF SessionInv, BlocksInv, UploadInv, Receiving, ForImage
<1>2. k = rx.next_block
  <2>1. (sent - 1) * CHUNK_BLOCKS = sent * CHUNK_BLOCKS - CHUNK_BLOCKS /\ sent * CHUNK_BLOCKS \in Int
    BY <1>1, SessionSizes
  <2> DEFINE s == sent * CHUNK_BLOCKS
             t == (sent - 1) * CHUNK_BLOCKS
  <2>2. t = s - CHUNK_BLOCKS /\ s \in Int /\ rx.next_block = s - left
    BY <1>1, <2>1
  <2>3. k = t + CHUNK_BLOCKS - left
    OBVIOUS
  <2> HIDE DEF s, t, k
  <2> QED BY <1>1, <2>2, <2>3, SessionSizes
<1>3. k \in Nat /\ k < NUM_BLOCKS
  BY <1>1, <1>2, ImageSize
<1> HIDE DEF k
<1>4. PICK i \in DOMAIN Partitions : ForSlot(rx, i)
  BY <1>1 DEF Placed
<1>5. OTA_XIP_BASE + rx.slot_size < WORD /\ rx.slot_size \in Nat
  BY <1>1, <1>4, PartitionSlot, RxFields DEF ForSlot, TypeOK
<1>6. k * P \in Nat /\ k * P <= NUM_BLOCKS * P
  <2>1. P \in Nat
    BY Numbers
  <2> HIDE DEF P
  <2>2. (NUM_BLOCKS - k) * P >= 0
    BY <1>3, <2>1, SessionSizes
  <2> QED BY <1>3, <2>1, <2>2, SessionSizes
<1>7. k \in Words /\ OTA_XIP_BASE + k * P \in Words
  <2> DEFINE a == k * P
             b == NUM_BLOCKS * P
  <2>1. a \in Nat /\ a <= b /\ b <= rx.slot_size /\ b \in Int
    BY <1>1, <1>6, SessionSizes, Numbers
  <2>2. NUM_BLOCKS \in 0 .. WORD - 1
    BY SessionSizes DEF Words
  <2> HIDE DEF a, b
  <2>3. OTA_XIP_BASE + a \in 0 .. WORD - 1
    BY <1>5, <2>1, Numbers
  <2>4. k \in 0 .. WORD - 1
    BY <1>3, <2>2, Numbers, SessionSizes
  <2> QED BY <2>3, <2>4 DEF Words, a
<1>8. NextBlock = PcBlock(k)
  BY DEF NextBlock, k
<1> QED BY <1>7, <1>8, SessionSizes DEF PcBlock, Block, Families

\* on_chunk(): one block of the chunk
LEMMA SChunkBlockInv ==
  ASSUME SessionInv, SChunkBlock
  PROVE  SessionInv'
<1>1. /\ handler = "on_chunk" /\ left > 0 /\ ~ota_rx_done(rx) /\ NextBlock \in Block
      /\ UNCHANGED <<off, boot_partition>> /\ UNCHANGED <<toolVars, taken>>
  BY NextBlockType DEF SChunkBlock
<1>2. up_state = "UP_DATA" /\ client /\ Placed /\ TypeOK
  BY <1>1 DEF SessionInv, UploadInv, CarFollowsUpload, Receiving
<1>3. CASE ChunkFails(NextBlock) /\ HangsUp("error")
  <2>1. UploadInv'
    BY <1>1, <1>3, ChunkFailsInv DEF SessionInv
  <2>2. handler' = "none" /\ ~Receiving'
    BY <1>3, FailedFrees DEF ChunkFails, LeaveChunk, Receiving
  <2>3. ForImage' /\ "error" \in Replies \ {"DONE"}
    BY <2>2 DEF ForImage, Replies
  <2> QED BY <1>1, <1>3, <2>1, <2>2, <2>3, CarHangsUp
<1>4. CASE ChunkWrites(NextBlock) /\ UNCHANGED netVars
  <2>1. /\ UNCHANGED <<serverVars, handler, netVars, toolVars, taken>>
        /\ rx' = ota_rx_next(rx, NextBlock) /\ left' = left - 1
        /\ flash' = Written(ota_write(rx, NextBlock))
        /\ BlockStatus(rx, NextBlock) = "OTA_OK"
    BY <1>1, <1>4 DEF ChunkWrites
  <2>2. UNCHANGED <<up_state, client, buf_len, pc, conn, mine, sent, toCar, down, buffered, taken>>
    BY <2>1 DEF serverVars, netVars, toolVars
  <2>3. UploadInv'
    BY <1>1, <1>4, ChunkWritesInv DEF SessionInv
  <2>4. /\ rx'.num_blocks = rx.num_blocks /\ rx'.slot_size = rx.slot_size
        /\ rx'.next_block = rx.next_block + 1
    <3>1. rx \in Rx /\ RxInv(rx) /\ FlashInv(rx) /\ flash \in [Pages -> PageStates]
      BY <1>2 DEF TypeOK, Placed
    <3>2. PICK i \in DOMAIN Partitions : ForSlot(rx, i)
      BY <1>2 DEF Placed
    <3> QED BY <1>1, <2>1, <3>1, <3>2, BlockPages DEF ForSlot
  <2>5. ForImage'
    BY <1>2, <2>4 DEF SessionInv, ForImage, Receiving
  <2>6. STypeOK' /\ ToolInv' /\ VerdictInv' /\ Pending' = Pending
    <3>1. toCar' \in 0 .. HEADER_SIZE + CHUNK_SIZE /\ client'
      BY <1>2, <2>2 DEF SessionInv, STypeOK
    <3> QED BY <2>2, <3>1, SameTalk
  <2>7. sent > 0 /\ toCar = 0 /\ rx.next_block = sent * CHUNK_BLOCKS - left
        /\ (sent - 1) * CHUNK_BLOCKS < NUM_BLOCKS
    BY <1>1 DEF SessionInv, BlocksInv
  <2>8. rx'.next_block = sent * CHUNK_BLOCKS - left'
    <3> DEFINE s == sent * CHUNK_BLOCKS
    <3>1. s \in Int /\ left \in Int
      <4>1. sent \in 0 .. Chunks /\ left \in 0 .. CHUNK_BLOCKS
        BY DEF SessionInv, STypeOK, UploadInv, TypeOK, Chunks
      <4> QED BY <4>1, SessionSizes
    <3>2. rx.next_block = s - left
      BY <2>7
    <3> HIDE DEF s
    <3>3. rx'.next_block = s - left'
      BY <2>1, <2>4, <3>1, <3>2
    <3> QED BY <3>3 DEF s
  <2>9. TurnInv' /\ DataInv' /\ BlocksInv'
    <3>1. mine => Pending = 0 /\ pc = "waiting" /\ ~taken
      BY <1>1, <1>2, Turn, SessionSizes DEF Asks, SessionInv, TurnInv
    <3> QED BY <1>1, <1>2, <2>1, <2>2, <2>6, <2>7, <2>8, <3>1
            DEF TurnInv, DataInv, BlocksInv
  <2> QED BY <2>3, <2>5, <2>6, <2>9 DEF SessionInv
<1> QED BY <1>3, <1>4 DEF SChunkBlock

\* on_chunk() after its loop: the reply is ACK for a chunk of which more is to
\* follow, and DONE for an image that is all there.
LEMMA SChunkEndsInv ==
  ASSUME SessionInv, SChunkEnds
  PROVE  SessionInv'
<1>1. ChunkEnds /\ handler = "on_chunk" /\ UNCHANGED <<pc, buffered>>
      /\ UNCHANGED <<rx, flash, boot_partition>> /\ handler' = "none" /\ buf_len' = 0
  BY DEF SChunkEnds, ChunkEnds, toolVars, LeaveChunk
<1>2. up_state = "UP_DATA" /\ client /\ Placed /\ TypeOK /\ rx.num_blocks = NUM_BLOCKS
  BY <1>1 DEF SessionInv, UploadInv, CarFollowsUpload, Receiving, ForImage
<1>3. UploadInv'
  BY <1>1, ChunkEndsInv DEF SessionInv
<1>4. ForImage'
  BY <1>1, <1>2, SameImage DEF Receiving
<1>5. /\ sent > 0 /\ toCar = 0 /\ rx.next_block = sent * CHUNK_BLOCKS - left
      /\ (sent - 1) * CHUNK_BLOCKS < NUM_BLOCKS
      /\ sent \in Nat /\ left \in 0 .. CHUNK_BLOCKS
  <2>1. sent \in 0 .. Chunks /\ left \in 0 .. CHUNK_BLOCKS
    BY DEF SessionInv, STypeOK, UploadInv, TypeOK, Chunks
  <2> QED BY <1>1, <2>1, SessionSizes DEF SessionInv, BlocksInv
<1>6. mine => Pending = 0 /\ pc = "waiting" /\ ~taken /\ down = <<>> /\ buffered = <<>>
  <2>1. mine => Pending = 0 /\ pc = "waiting" /\ ~taken
    BY <1>1, <1>2, Turn, SessionSizes DEF Asks, SessionInv, TurnInv
  <2> QED BY <2>1, Lengths DEF SessionInv
<1>7. CASE ota_rx_done(rx)
  <2>1. /\ up_state' = "UP_REBOOT" /\ HangsUp("DONE")
        /\ taken' = (taken \/ (mine /\ Cardinality(NewPages) = NUM_BLOCKS))
    BY <1>1, <1>7 DEF SChunkEnds, ChunkEnds, set_state
  <2>2. rx.next_block = NUM_BLOCKS /\ Cardinality(NewPages) = NUM_BLOCKS
    BY <1>2, <1>7, ImageSize
  <2>3. /\ mine' = FALSE /\ toCar' = 0 /\ sent' = sent /\ Says("DONE")
        /\ conn' \in IF mine THEN {"fin", "rst"} ELSE {conn}
        /\ taken' = (taken \/ mine)
    BY <2>1, <2>2 DEF HangsUp
  <2>4. CASE ~mine
    <3>1. /\ down' = down /\ conn' = conn /\ mine' = mine
          /\ taken' = taken
      BY <2>3, <2>4 DEF Says, SessionInv, STypeOK
    <3>2. toCar' \in 0 .. HEADER_SIZE + CHUNK_SIZE
      BY <2>3, Sizes
    <3>3. STypeOK' /\ ToolInv' /\ VerdictInv'
      BY <1>1, <2>3, <2>4, <3>1, <3>2, SameTalk
    <3>4. TurnInv' /\ DataInv' /\ BlocksInv'
      BY <1>1, <2>3 DEF TurnInv, DataInv, BlocksInv
    <3> QED BY <1>3, <1>4, <3>3, <3>4 DEF SessionInv
  <2>5. CASE mine
    <3>1. taken' = TRUE /\ Said' = {"DONE"}
      BY <2>3, <2>5 DEF Said
    <3>2. sent = Chunks
      BY <1>5, <2>2, LastChunk
    <3>3. down' \in Seq({"DONE"}) /\ buffered' \in Seq({"DONE"}) /\ Pending' \in {0, REPLY_SIZE}
      <4>1. down \in Seq({"DONE"}) /\ buffered \in Seq({"DONE"}) /\ Len(down) = 0 /\ Len(buffered) = 0
        BY <1>6, <2>5, Silence
      <4>2. down' \in Seq({"DONE"}) /\ Len(down') \in {0, REPLY_SIZE}
        BY <2>3, <4>1, SaysReply, SessionSizes
      <4> QED BY <1>1, <4>1, <4>2, SessionSizes DEF Pending
    <3>4. STypeOK'
      <4>1. down' \in Seq(Replies) /\ buffered' \in Seq(Replies)
        BY <3>3, SeqMonotonic, {"DONE"} \subseteq Replies DEF Replies
      <4>2. Len(down') + Len(buffered') <= 2 * REPLY_SIZE
        BY <3>3, SessionSizes DEF Pending
      <4>3. toCar' \in 0 .. HEADER_SIZE + CHUNK_SIZE
        BY <2>3, Sizes
      <4>4. conn' \in {"none", "open", "fin", "rst"}
        BY <2>3, <2>5
      <4> QED BY <1>1, <2>3, <3>1, <4>1, <4>2, <4>3, <4>4 DEF SessionInv, STypeOK
    <3>5. ToolInv' /\ VerdictInv'
      BY <1>1, <1>6, <2>3, <2>5, <3>1, <3>2, <3>3 DEF ToolInv, VerdictInv, VerdictTrue, Over, Chunks
    <3>6. TurnInv' /\ DataInv' /\ BlocksInv'
      BY <1>1, <2>3 DEF TurnInv, DataInv, BlocksInv
    <3> QED BY <1>3, <1>4, <3>4, <3>5, <3>6 DEF SessionInv
  <2> QED BY <2>4, <2>5
<1>8. CASE ~ota_rx_done(rx)
  <2>1. /\ up_state' = "UP_DATA" /\ client' = client /\ left = 0
        /\ Says("ACK!") /\ UNCHANGED <<conn, mine, sent, toCar, taken>>
    BY <1>1, <1>2, <1>8 DEF SChunkEnds, ChunkEnds
  <2>2. rx.next_block = sent * CHUNK_BLOCKS
    <3> DEFINE s == sent * CHUNK_BLOCKS
    <3>1. s \in Int /\ rx.next_block = s - left
      BY <1>5, SessionSizes
    <3> HIDE DEF s
    <3>2. rx.next_block = s
      BY <2>1, <3>1
    <3> QED BY <3>2 DEF s
  <2>3. "ACK!" \in Replies \ {"DONE"}
    BY DEF Replies
  <2>4. STypeOK' /\ ToolInv' /\ VerdictInv' /\ (mine => Pending' \in {0, REPLY_SIZE})
    BY <1>1, <1>2, <1>6, <2>1, <2>3, CarSays
  <2>5. TurnInv' /\ DataInv' /\ BlocksInv'
    BY <1>1, <1>2, <1>5, <1>6, <2>1, <2>2, <2>4, SessionSizes
       DEF TurnInv, DataInv, BlocksInv, Asks
  <2> QED BY <1>3, <1>4, <2>4, <2>5 DEF SessionInv
<1> QED BY <1>7, <1>8

\* upload_tick(): the car has stopped and says that it is ready, or the upload
\* stalled and ends.
LEMMA STickInv ==
  ASSUME SessionInv, STick
  PROVE  SessionInv'
<1>1. /\ OnTick /\ handler = "none" /\ handler' = "none"
      /\ UNCHANGED <<pc, buffered, taken>> /\ UNCHANGED <<toolVars, taken>>
      /\ UNCHANGED <<rx, left, flash, boot_partition>>
  BY DEF STick, OnTick, Running, toolVars, chunkVars
<1>2. UploadInv'
  BY <1>1, OnTickInv DEF SessionInv
<1>3. CASE Settle
  <2>1. /\ up_state = "UP_STOPPING" /\ up_state' = "UP_DATA" /\ buf_len' = 0 /\ client' = client
    BY <1>3 DEF Settle, set_state
  <2>2. Says("RDY!") /\ UNCHANGED <<conn, mine, sent, toCar>>
    BY <2>1 DEF STick
  <2>3. ForImage'
    BY <1>1, <2>1, SameImage DEF Receiving
  <2>4. mine => client' /\ Pending = 0 /\ pc = "waiting" /\ ~taken /\ sent = 0 /\ toCar = 0
                /\ rx.next_block = 0
    <3>1. mine => client /\ ~taken /\ pc \in {"connecting", "waiting"} /\ Pending \in {0, REPLY_SIZE}
      BY Turn
    <3>2. mine => Pending = 0
      BY <2>1, <3>1, Turn, SessionSizes DEF Asks
    <3>3. mine => pc = "waiting"
      BY <2>1, <3>1 DEF SessionInv, TurnInv
    <3> QED BY <2>1, <3>1, <3>2, <3>3 DEF SessionInv, BlocksInv
  <2>5. client /\ toCar = 0
    <3>1. client
      BY <2>1 DEF SessionInv, UploadInv, CarFollowsUpload
    <3>2. toCar \in Nat
      BY SessionSizes DEF SessionInv, STypeOK
    <3> QED BY <2>1, <3>1, <3>2 DEF SessionInv, DataInv
  <2>6. "RDY!" \in Replies \ {"DONE"}
    BY DEF Replies
  <2>7. STypeOK' /\ ToolInv' /\ VerdictInv' /\ (mine => Pending' \in {0, REPLY_SIZE})
    BY <1>1, <2>2, <2>4, <2>6, CarSays
  <2>8. 0 * CHUNK_BLOCKS = 0
    BY SessionSizes
  <2>9. TurnInv' /\ DataInv' /\ BlocksInv'
    BY <1>1, <2>1, <2>2, <2>4, <2>5, <2>7, <2>8, SessionSizes
       DEF TurnInv, DataInv, BlocksInv, Asks
  <2> QED BY <1>2, <2>3, <2>7, <2>9 DEF SessionInv
<1>4. CASE Stall
  <2>1. /\ up_state \in {"UP_HEADER", "UP_DATA"} /\ up_state' = "UP_IDLE" /\ client' = FALSE
    BY <1>4 DEF Stall, fail, close_client, set_state
  <2>2. client
    BY <1>1, <2>1 DEF SessionInv, UploadInv, CarFollowsUpload
  <2>3. HangsUp("error")
    BY <2>1, <2>2 DEF STick
  <2>4. ForImage' /\ "error" \in Replies \ {"DONE"}
    BY <2>1 DEF ForImage, Receiving, Replies
  <2> QED BY <1>1, <1>2, <2>3, <2>4, CarHangsUp
<1>5. CASE Reboot \/ Wait
  <2>1. UNCHANGED <<up_state, client, buf_len>>
    BY <1>5 DEF Reboot, Wait, serverVars
  <2>2. UNCHANGED <<conn, mine, sent, toCar, down>>
    BY <2>1 DEF STick, netVars
  <2>3. ForImage'
    BY <1>1, <2>1, SameImage DEF Receiving
  <2>4. toCar' \in 0 .. HEADER_SIZE + CHUNK_SIZE /\ (mine => client')
    BY <2>1, <2>2 DEF SessionInv, STypeOK
  <2>5. STypeOK' /\ ToolInv' /\ VerdictInv' /\ Pending' = Pending
    BY <1>1, <2>2, <2>4, SameTalk
  <2>6. TurnInv' /\ DataInv' /\ BlocksInv'
    BY <1>1, <2>1, <2>2, <2>5 DEF SessionInv, TurnInv, DataInv, BlocksInv, Need, Asks
  <2> QED BY <1>2, <2>3, <2>5, <2>6 DEF SessionInv
<1> QED BY <1>1, <1>3, <1>4, <1>5 DEF OnTick

\* Nothing happens.
LEMMA SStutterInv ==
  ASSUME SessionInv, UNCHANGED svars
  PROVE  SessionInv'
<1>1. UNCHANGED <<vars, pc, conn, mine, sent, toCar, down, buffered, taken>>
  BY DEF svars, toolVars, netVars
<1>2. UNCHANGED <<up_state, client, buf_len, rx, handler, left>>
  BY <1>1 DEF vars, serverVars, chunkVars
<1>3. UploadInv'
  BY <1>1, StutterInv DEF SessionInv
<1>4. ForImage'
  BY <1>2, SameImage DEF Receiving
<1>5. toCar' \in 0 .. HEADER_SIZE + CHUNK_SIZE /\ (mine => client')
  BY <1>1, <1>2 DEF SessionInv, STypeOK
<1>6. STypeOK' /\ ToolInv' /\ VerdictInv' /\ Pending' = Pending
  BY <1>1, <1>5, SameTalk
<1>7. TurnInv' /\ DataInv' /\ BlocksInv'
  BY <1>1, <1>2, <1>6 DEF SessionInv, TurnInv, DataInv, BlocksInv, Need, Asks
<1> QED BY <1>3, <1>4, <1>6, <1>7 DEF SessionInv

-----------------------------------------------------------------------------
\* The tool and the car start with nothing said.
LEMMA SessionStart == SInit => SessionInv
<1> SUFFICES ASSUME SInit PROVE SessionInv
  OBVIOUS
<1>1. /\ pc = "idle" /\ conn = "none" /\ mine = FALSE /\ sent = 0 /\ toCar = 0
      /\ down = <<>> /\ buffered = <<>> /\ taken = FALSE /\ Init
  BY DEF SInit
<1>2. UploadInv /\ handler = "none" /\ ~client /\ ~Receiving
  BY <1>1, FreshStart DEF Init, Receiving
<1>3. /\ \A S : down \in Seq(S) /\ buffered \in Seq(S)
      /\ Len(down) + Len(buffered) = 0 /\ Pending = 0
  BY <1>1, Silence DEF Pending
<1>4. STypeOK
  <2>1. 0 \in 0 .. Chunks /\ 0 \in 0 .. HEADER_SIZE + CHUNK_SIZE /\ 0 <= 2 * REPLY_SIZE
    BY SessionSizes
  <2>2. /\ pc \in Over \cup {"connecting", "waiting"} /\ conn \in {"none", "open", "fin", "rst"}
        /\ mine \in BOOLEAN /\ taken \in BOOLEAN /\ ~mine
    BY <1>1 DEF Over
  <2>3. down \in Seq(Replies) /\ buffered \in Seq(Replies)
    BY <1>3
  <2>4. Len(down) + Len(buffered) <= 2 * REPLY_SIZE
    BY <1>3, <2>1
  <2>5. sent \in 0 .. Chunks /\ toCar \in 0 .. HEADER_SIZE + CHUNK_SIZE
    BY <1>1, <2>1
  <2> QED BY <2>2, <2>3, <2>4, <2>5 DEF STypeOK, Chunks
<1>5. ForImage /\ ToolInv /\ VerdictInv
  BY <1>1, <1>2, <1>3 DEF ForImage, ToolInv, VerdictInv, VerdictTrue
<1>6. TurnInv /\ DataInv /\ BlocksInv
  BY <1>1, <1>2 DEF TurnInv, DataInv, BlocksInv
<1> QED BY <1>2, <1>4, <1>5, <1>6 DEF SessionInv

\* Every step of the tool, the network and the car keeps the invariant.
LEMMA SessionNext ==
  ASSUME SessionInv, [SNext]_svars
  PROVE  SessionInv'
<1>1. CASE PcClosed \/ PcTimeout
  <2>1. PcExit("failed")
    BY <1>1 DEF PcClosed, PcTimeout
  <2> QED BY <2>1, PcExitInv DEF Over
<1> QED BY <1>1, PcStartInv, PcConnectedInv, PcDataInv, PcReplyInv, SAcceptInv, SRecvInv,
           SChunkBlockInv, SChunkEndsInv, STickInv, SClosedInv, SBrokenInv, SRestartInv,
           SStutterInv DEF SNext, Tool, Server

\* Every step of the tool, the network and the car is a step of the update,
\* or none.
LEMMA SessionMaps ==
  ASSUME SessionInv, SessionInv', [SNext]_svars
  PROVE  [Update!Next]_(Update!vars)
<1>1. UploadInv /\ UploadInv'
  BY DEF SessionInv
<1>2. CASE Tool \/ PcTimeout \/ UNCHANGED svars
  <2>1. UNCHANGED vars
    BY <1>2 DEF Tool, PcStart, PcConnected, PcData, PcReply, PcClosed, PcTimeout, PcExit, svars
  <2> QED BY <1>1, <2>1, StepMaps
<1>3. CASE SAccept \/ SChunkEnds \/ STick \/ SClosed \/ SBroken \/ SRestart
  <2>1. OnAccept \/ ChunkEnds \/ OnTick \/ OnRecvClosed \/ OnTcpErr \/ Restart
    BY <1>3 DEF SAccept, SChunkEnds, STick, SClosed, SBroken, SRestart
  <2> QED BY <1>1, <2>1, StepMaps DEF Next
<1>4. CASE SRecv
  <2>1. PICK n \in 1 .. toCar :
          \/ RecvTooMuch(n) \/ RecvPart(n) \/ RecvChunk(n)
          \/ \E target \in DOMAIN Partitions : RecvHeader(n, PcHeader, target)
    BY <1>4 DEF SRecv
  <2>2. toCar \in 0 .. HEADER_SIZE + CHUNK_SIZE
    BY DEF SessionInv, STypeOK
  <2>3. n \in 1 .. HEADER_SIZE + CHUNK_SIZE
    BY <2>2, SessionSizes
  <2>4. Receives
    BY <1>4 DEF SRecv, Receives
  <2> QED BY <1>1, <2>1, <2>3, <2>4, PcHeaderType, RecvMaps DEF Update!vars
<1>5. CASE SChunkBlock
  <2>1. /\ handler = "on_chunk" /\ left > 0 /\ ~ota_rx_done(rx)
        /\ UNCHANGED <<off, boot_partition>>
        /\ ChunkFails(NextBlock) \/ ChunkWrites(NextBlock)
    BY <1>5 DEF SChunkBlock
  <2>2. NextBlock \in Block
    BY <2>1, NextBlockType
  <2> QED BY <1>1, <2>1, <2>2, BlockMaps
<1> QED BY <1>2, <1>3, <1>4, <1>5 DEF SNext, Server

\* The two ends of a session are never further apart than one message: what
\* is on its way is what the other waits for.
THEOREM SessionInvariant == SSpec => []SessionInv
BY SessionStart, SessionNext, PTL DEF SSpec

\* The types of both ends; never more than two replies wait for the tool, and
\* only a connection that the car holds is the tool's.
THEOREM SessionTypes == SSpec => []STypeOK
<1>1. SessionInv => STypeOK
  BY DEF SessionInv
<1> QED BY <1>1, SessionInvariant, PTL

\* Whatever the size of the image and however TCP cuts it, an honest tool
\* never sends more than the buffer of ota.c has room for, nor when the server
\* does not wait for it: not by the data of an earlier run either.
THEOREM SessionLockStep == SSpec => []LockStep
<1>1. SessionInv => LockStep
  <2> SUFFICES ASSUME SessionInv, toCar > 0, client
               PROVE  up_state \in {"UP_HEADER", "UP_DATA"} /\ buf_len + toCar <= Need
    BY DEF LockStep
  <2>1. Need \in Nat
    BY Sizes
  <2> QED BY <2>1 DEF SessionInv, DataInv
<1> QED BY <1>1, SessionInvariant, PTL

\* Success is told of an image that the car took whole from this run, and a
\* refusal of one that it did not, whatever was lost or cut short.
THEOREM SessionVerdict == SSpec => []VerdictTrue
<1>1. SessionInv => VerdictTrue
  BY DEF SessionInv, VerdictInv
<1> QED BY <1>1, SessionInvariant, PTL

\* A session of the tool is an update to the rest of the car: whatever tool,
\* network and faults do, the car sees nothing that UpdateSession does not
\* promise.
THEOREM SessionImplementsUpdate == SSpec => UpdateSpec
<1>1. SInit => Update!Init
  BY StartMaps DEF SInit
<1>2. SessionInv /\ SessionInv' /\ [SNext]_svars => [Update!Next]_(Update!vars)
  BY SessionMaps
<1> QED BY <1>1, <1>2, SessionInvariant, PTL DEF SSpec, UpdateSpec, Update!Spec

\* A session, too, leaves the running image alone and an image in the slot
\* that is whole before the car reboots.
THEOREM SessionImageIntact == SSpec => [](ImageIntact /\ RunningImageUntouched)
<1>1. SessionInv => ImageIntact /\ RunningImageUntouched
  BY UploadInvImplies DEF SessionInv
<1> QED BY <1>1, SessionInvariant, PTL
=============================================================================
