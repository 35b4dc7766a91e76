-------------------------------- MODULE Protocol --------------------------------
(***************************************************************************)
(* The wire protocol (src/network/protocol.cpp): which payloads fit which  *)
(* message, the frame around a payload and the tests of its receiver, and  *)
(* what a HELLO has to say.  Byte order and offsets are left out.  A       *)
(* payload has its size in bytes and its number among those of its sender, *)
(* which also stands for its digest: different payloads have different     *)
(* digests.                                                                *)
(***************************************************************************)
EXTENDS Integers, Sequences

CONSTANT None   \* no value

FrameHeaderSize == 44
MaximumFramePayloadSize == 1024 * 1024
HashSize == 32
BlockHeaderSize == 165
SignedTransactionSize == 161
MaximumBlockLocatorEntries == 32

(* Mutant: seven blocks to a batch. *)
SevenBlocks == 7

MaximumBlocksPerSyncBatch == 4

BlockSize(transactions) ==
  BlockHeaderSize + transactions * SignedTransactionSize

MaximumBlockSize == BlockSize(1000)

LocatorSize(entries) == 8 + 2 + entries * 40 + 2

BatchSize(blocks, transactions) ==
  8 + 1 + 2 + blocks * (4 + BlockSize(transactions))

(***************************************************************************)
(* The messages that the handlers of NodeRuntime build, for blocks of the  *)
(* given numbers of transactions and locators of the given lengths.  The   *)
(* blocks of a batch may differ; the extreme sizes are those of equal ones.*)
(***************************************************************************)
Messages(types, sizes) == [type : types, size : sizes, data : {"data"}]

Built(transactions, entries) ==
  Messages({"template_request"}, {8 + HashSize})
    \cup Messages({"block_template"}, {8 + BlockSize(k) : k \in transactions})
    \cup Messages({"block_submit", "block"}, {BlockSize(k) : k \in transactions})
    \cup Messages({"block_result", "transaction_result"}, {HashSize + 3})
    \cup Messages({"transaction_submit", "transaction"}, {SignedTransactionSize})
    \cup Messages({"get_blocks"}, {LocatorSize(m) : m \in entries})
    \cup Messages({"blocks"}, {BatchSize(n, k) :
                                 n \in 0..MaximumBlocksPerSyncBatch,
                                 k \in transactions})

MessageType ==
  {"hello", "ping", "pong", "template_request", "block_template",
   "block_submit", "block", "block_result", "transaction_submit",
   "transaction", "transaction_result", "get_blocks", "blocks"}

ValidPayloadSize(type, size) ==
  \/ type = "hello" /\ size = 104
  \/ type \in {"ping", "pong"} /\ size = 8
  \/ type = "template_request" /\ size = 8 + HashSize
  \/ type = "block_template"
       /\ size \in 8 + BlockHeaderSize .. 8 + MaximumBlockSize
  \/ type \in {"block_submit", "block"}
       /\ size \in BlockHeaderSize .. MaximumBlockSize
  \/ type \in {"block_result", "transaction_result"} /\ size = HashSize + 3
  \/ type \in {"transaction_submit", "transaction"}
       /\ size = SignedTransactionSize
  \/ type = "get_blocks"
       /\ size \in LocatorSize(1) .. LocatorSize(MaximumBlockLocatorEntries)
  \/ type = "blocks" /\ size \in 11 .. MaximumFramePayloadSize

(***************************************************************************)
(* serialize_frame(): None is its empty result.  A frame carries the magic *)
(* of the sender's chain; a frame that is not whole ends in its payload.   *)
(***************************************************************************)
SerializeFrame(type, size, payload, chain) ==
  IF size > MaximumFramePayloadSize \/ ~ValidPayloadSize(type, size)
    THEN None
    ELSE [magic |-> chain, version |-> 1, type |-> type, length |-> size,
          checksum |-> payload.number, payload |-> payload, size |-> size,
          whole |-> TRUE]

(* deserialize_frame_header(), in the order of its tests. *)
HeaderError(frame, chain) ==
  IF frame.magic # chain THEN "invalid network magic"
  ELSE IF frame.version # 1 THEN "unsupported wire version"
  ELSE IF frame.type \notin MessageType THEN "unknown message type"
  ELSE IF frame.length > MaximumFramePayloadSize THEN "oversized payload"
  ELSE IF ~ValidPayloadSize(frame.type, frame.length) THEN "invalid payload size"
  ELSE "none"

(***************************************************************************)
(* validate_frame_payload() on as many bytes as the header announces: the  *)
(* payload of the frame when that is its size, else other bytes, whose     *)
(* digest is not the announced one.                                        *)
(***************************************************************************)
PayloadError(header, frame) ==
  IF header.length # frame.size \/ header.checksum # frame.payload.number
    THEN "invalid checksum" ELSE "none"

(***************************************************************************)
(* deserialize_hello() and the tests of handle_hello(): the version range, *)
(* the network, the services and a common version.  Every HELLO of this    *)
(* program offers version 1 alone; other ranges are those of later ones.   *)
(***************************************************************************)
HelloError(hello, mine) ==
  IF hello.minimum = 0 \/ hello.minimum > hello.maximum THEN "invalid range"
  ELSE IF hello.chain # mine.chain THEN "peer network identity mismatch"
  ELSE IF hello.services = {} THEN "no supported service"
  ELSE IF hello.minimum > 1 \/ hello.maximum < 1 THEN "no common protocol version"
  ELSE "none"

=============================================================================
