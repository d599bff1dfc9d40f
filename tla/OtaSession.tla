----------------------------- MODULE OtaSession -----------------------------
(***************************************************************************)
(* An update from both ends: the upload tool, firmware/tools/ota.mjs, run  *)
(* again and again against the update server (module Upload) over TCP.     *)
(*                                                                         *)
(* The tool is honest: a good header, the blocks of one image in order, a  *)
(* chunk only after the reply to the one before.  TCP delivers in order    *)
(* and in pieces; either end may hang up, replies may never be written,    *)
(* the connection may break without a word, the tool may run into its      *)
(* timeout at any time.  The car may still hold the connection of an       *)
(* earlier run.  The car has a partition table, and the boot ROM offers    *)
(* the slot that is not running: the other cases are in module Upload.     *)
(***************************************************************************)
EXTENDS Upload, Sequences

CONSTANTS
  NUM_BLOCKS,           \* blocks of the image
  REPLY_SIZE            \* pieces a reply (OTA_REPLY_SIZE) may be split into

ASSUME SessionAssumption == NUM_BLOCKS \in Words \ {0} /\ REPLY_SIZE \in Nat \ {0}

VARIABLES
  pc,                   \* where main() of the tool is
  conn,                 \* the tool's connection as the tool will find it, once it
                        \* has read what is on its way
  mine,                 \* the car's connection is that of this run of the tool
  sent,                 \* the latest data on the car's connection: 0 is the
                        \* header, c the c-th chunk
  toCar,                \* pieces of it that the car has not received
  down,                 \* pieces of replies on their way to the tool
  buffered,             \* pieces the tool has received and not used
  taken                 \* the car took the whole image from this run

toolVars == <<pc, buffered>>
netVars == <<conn, mine, sent, toCar, down>>
svars == <<vars, toolVars, netVars, taken>>

Replies == {"RDY!", "ACK!", "DONE", "error"}

\* refused: the car replied with something else; failed: anything else that
\* main() ends with.
Over == {"idle", "success", "refused", "failed"}

STypeOK ==
  /\ pc \in Over \cup {"connecting", "waiting"}
  /\ conn \in {"none", "open", "fin", "rst"}
  /\ mine \in BOOLEAN /\ taken \in BOOLEAN
  /\ sent \in 0 .. (NUM_BLOCKS + CHUNK_BLOCKS - 1) \div CHUNK_BLOCKS
  /\ toCar \in 0 .. HEADER_SIZE + CHUNK_SIZE
  /\ down \in Seq(Replies) /\ buffered \in Seq(Replies)
  /\ Len(down) + Len(buffered) <= 2 * REPLY_SIZE
  /\ mine => client /\ conn = "open"

SInit ==
  /\ Init /\ boot_partition # -1
  /\ pc = "idle" /\ conn = "none" /\ mine = FALSE /\ sent = 0 /\ toCar = 0
  /\ down = <<>> /\ buffered = <<>> /\ taken = FALSE

-----------------------------------------------------------------------------
\* The tool.  makeHeader() and loadUf2(): what it sends.
PcHeader == [magic |-> TRUE, token |-> TRUE, family |-> FAMILY, num_blocks |-> NUM_BLOCKS]
PcBlock(i) == [valid |-> TRUE, family |-> FAMILY, block_no |-> i, num_blocks |-> NUM_BLOCKS,
               target |-> OTA_XIP_BASE + i * OTA_FLASH_PAGE]
Chunks == (NUM_BLOCKS + CHUNK_BLOCKS - 1) \div CHUNK_BLOCKS

PcStart ==
  /\ pc \in Over
  /\ pc' = "connecting" /\ taken' = FALSE
  /\ UNCHANGED <<vars, netVars, buffered>>

\* sock.write(): what is not on the car's connection gets nowhere.
PcSends(c, size) ==
  IF mine THEN sent' = c /\ toCar' = size ELSE UNCHANGED <<sent, toCar>>

PcConnected ==
  /\ pc = "connecting" /\ conn \in {"open", "fin"}
  /\ pc' = "waiting"
  /\ PcSends(0, HEADER_SIZE)
  /\ UNCHANGED <<vars, conn, mine, down, buffered, taken>>

\* sock.on("data"): TCP cuts replies where it likes.
PcData ==
  /\ pc = "waiting"
  /\ \E k \in 1 .. Len(down) :
       /\ buffered' = buffered \o SubSeq(down, 1, k)
       /\ down' = SubSeq(down, k + 1, Len(down))
  /\ UNCHANGED <<vars, pc, conn, mine, sent, toCar, taken>>

\* Faulty variant: what was read stays for the next run.
PcExit_keeps_buffer(outcome) ==
  /\ pc' = outcome
  /\ conn' = "none" /\ mine' = FALSE /\ down' = <<>>
  /\ UNCHANGED <<vars, sent, toCar, taken, buffered>>

\* main() ends and its connection with it; what is on its way to the car may
\* still arrive.
PcExit(outcome) ==
  /\ pc' = outcome
  /\ conn' = "none" /\ mine' = FALSE /\ down' = <<>> /\ buffered' = <<>>
  /\ UNCHANGED <<vars, sent, toCar, taken>>

Want == IF sent = 0 THEN "RDY!" ELSE IF sent = Chunks THEN "DONE" ELSE "ACK!"

\* Faulty variant: any reply but an error of the car's will do.
expect_anything(reply) == TRUE

expect(reply) == reply = Want

\* pump() and expect(): a whole reply is there.
PcReply ==
  /\ pc = "waiting" /\ Len(buffered) >= REPLY_SIZE
  /\ IF ~expect(buffered[1]) THEN PcExit("refused")
     ELSE IF sent = Chunks THEN PcExit("success")
     ELSE /\ buffered' = SubSeq(buffered, REPLY_SIZE + 1, Len(buffered))
          /\ PcSends(sent + 1, CHUNK_SIZE)
          /\ UNCHANGED <<vars, pc, conn, mine, down, taken>>

\* fail(): the connection was closed or reset.  A reply that is there is used
\* first; a reset may overtake one that is not.
PcClosed ==
  /\ pc \in {"connecting", "waiting"} /\ Len(buffered) < REPLY_SIZE
  /\ conn = "rst" \/ (conn = "fin" /\ down = <<>>)
  /\ PcExit("failed")

\* fail(): no connection or no reply in time, or a broken network.
PcTimeout ==
  /\ pc \in {"connecting", "waiting"} /\ Len(buffered) < REPLY_SIZE
  /\ PcExit("failed")

-----------------------------------------------------------------------------
\* The car.  send_reply(): tcp_write() may fail, and nobody looks.
Says(reply) ==
  down' \in {down} \cup IF mine THEN {down \o [i \in 1 .. REPLY_SIZE |-> reply]} ELSE {}

\* A last reply, then close_client().
HangsUp(reply) ==
  /\ Says(reply)
  /\ conn' \in IF mine THEN {"fin", "rst"} ELSE {conn}
  /\ mine' = FALSE /\ toCar' = 0
  /\ UNCHANGED sent

\* The handshake is over, or a refused connection gets a reset.
SAccept ==
  /\ pc = "connecting" /\ conn = "none"
  /\ OnAccept
  /\ IF callback'.aborted
     THEN conn' = "rst" /\ UNCHANGED <<mine, toCar>>
     ELSE conn' = "open" /\ mine' = TRUE /\ toCar' = 0
  /\ UNCHANGED <<toolVars, sent, down, taken>>

\* on_recv() with n pieces of what was sent.
SRecv ==
  /\ Running /\ client
  /\ idle' = 0
  /\ \E n \in 1 .. toCar :
       \/ RecvTooMuch(n) /\ HangsUp("error")
       \/ /\ RecvPart(n) \/ RecvChunk(n)
          /\ toCar' = toCar - n
          /\ UNCHANGED <<conn, mine, sent, down>>
       \/ \E target \in DOMAIN Partitions \ {boot_partition} :
            /\ RecvHeader(n, PcHeader, target)
            /\ IF client'
               THEN toCar' = toCar - n /\ UNCHANGED <<conn, mine, sent, down>>
               ELSE HangsUp("error")
  /\ UNCHANGED <<off, boot_partition, toolVars, taken>>

\* The end of an earlier run reaches the car, behind its data.
SClosed ==
  /\ ~mine /\ toCar = 0
  /\ OnRecvClosed
  /\ UNCHANGED <<toolVars, netVars, taken>>

\* The car loses the connection; the tool may hear of it or not.
SBroken ==
  /\ OnTcpErr
  /\ conn' \in IF mine THEN {"open", "rst"} ELSE {conn}
  /\ mine' = FALSE /\ toCar' = 0
  /\ UNCHANGED <<toolVars, sent, down, taken>>

\* The next block of the chunk that was sent.
NextBlock == PcBlock((sent - 1) * CHUNK_BLOCKS + CHUNK_BLOCKS - left)

SChunkBlock ==
  /\ handler = "on_chunk" /\ left > 0 /\ ~ota_rx_done(rx)
  /\ \/ ChunkFails(NextBlock) /\ HangsUp("error")
     \/ ChunkWrites(NextBlock) /\ UNCHANGED netVars
  /\ UNCHANGED <<off, boot_partition, toolVars, taken>>

SChunkEnds ==
  /\ ChunkEnds
  /\ IF up_state' = "UP_REBOOT"
     THEN HangsUp("DONE") /\ taken' = (taken \/ (mine /\ Cardinality(NewPages) = NUM_BLOCKS))
     ELSE Says("ACK!") /\ UNCHANGED <<conn, mine, sent, toCar, taken>>
  /\ UNCHANGED toolVars

STick ==
  /\ OnTick
  /\ IF up_state = "UP_STOPPING" /\ up_state' = "UP_DATA"
     THEN Says("RDY!") /\ UNCHANGED <<conn, mine, sent, toCar>>
     ELSE IF client /\ ~client' THEN HangsUp("error")
     ELSE UNCHANGED netVars
  /\ UNCHANGED <<toolVars, taken>>

\* The car restarts and forgets its connections.
SRestart ==
  /\ Restart /\ boot_partition' # -1
  /\ mine' = FALSE /\ toCar' = 0
  /\ UNCHANGED <<toolVars, conn, sent, down, taken>>

Tool == PcStart \/ PcConnected \/ PcData \/ PcReply \/ PcClosed
Server == SAccept \/ SRecv \/ SChunkBlock \/ SChunkEnds \/ STick

SNext == Tool \/ PcTimeout \/ Server \/ SClosed \/ SBroken \/ SRestart

\* Nobody is going to answer.
Deserted == pc = "waiting" /\ ~mine /\ down = <<>>

\* The driver runs the tool again; tool, network and run loop go on, and the
\* tool's timeout comes when no answer does.  That the end of a run, or the
\* loss of a connection, reaches the car is not assumed.
SFairness ==
  /\ WF_svars(Tool) /\ WF_svars(Deserted /\ PcTimeout)
  /\ WF_svars(SAccept) /\ WF_svars(SRecv) /\ WF_svars(SChunkBlock \/ SChunkEnds)
  /\ WF_svars(STick) /\ WF_svars(off /\ SRestart)

SSpec == SInit /\ [][SNext]_svars /\ SFairness

-----------------------------------------------------------------------------
\* Data is on its way to the car only when the server waits for it, and never
\* more than fits: an honest tool, however its data is cut, cannot overrun
\* the buffer of ota.c nor earn a protocol error, not by the data of an
\* earlier run either.
LockStep ==
  toCar > 0 /\ client =>
    up_state \in {"UP_HEADER", "UP_DATA"} /\ buf_len + toCar <= Need

\* What the tool tells its user.  Success: the car took the whole image from
\* this run.  A refusal quoted from the car: it did not.  (Any other failure
\* says nothing: DONE may be lost.)
VerdictTrue == (pc = "success" => taken) /\ (pc = "refused" => ~taken)

\* The car waits for the tool, and what it waits for is on its way: the tool
\* has to connect, to use a reply, or its data has to arrive.
UnderWay ==
  pc = "connecting" \/ toCar > 0 \/ down # <<>> \/ Len(buffered) >= REPLY_SIZE

\* Something goes wrong that is not the doing of either program.  A refusal,
\* of a header, of a block or of data that the car did not wait for, is none of
\* these, nor is a car that stalls with nothing under way.
Fault ==
  \* The driver's side gives up on a car that would have answered.
  \/ PcTimeout /\ ~PcClosed /\ ~Deserted
  \* Power, the watchdog; the network; the flash.
  \/ SRestart /\ ~off
  \/ mine /\ SBroken
  \/ mine /\ ~mine' /\ SChunkBlock /\ BlockStatus(rx, NextBlock) = "OTA_OK"
  \* The network or the tool takes longer than the car's timeout.
  \/ mine /\ ~mine' /\ STick /\ UnderWay
  \* tcp_write() fails, or the reset that follows DONE overtakes it.
  \/ mine /\ down' = down /\ (SChunkEnds \/ (STick /\ up_state = "UP_STOPPING" /\ up_state' = "UP_DATA"))
  \/ mine /\ SChunkEnds /\ conn' = "rst"

\* Whatever happened before - runs that were cut short, connections the car
\* still holds, half-written images, restarts - once nothing more goes wrong,
\* running the tool again succeeds.
RetrySucceeds == <>[][~Fault]_svars => []<>(pc = "success")
=============================================================================
