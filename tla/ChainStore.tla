------------------------------ MODULE ChainStore ------------------------------
(***************************************************************************)
(* bbc::storage::ChainStore (src/storage/chain_store.cpp): the block file  *)
(* that is authoritative, the SQLite index that is derived from it, and    *)
(* the Blockchain in memory, through appends, failures, crashes of the     *)
(* process and restarts (NodeRuntime::initialize opens or creates it).     *)
(*                                                                         *)
(* A process crash keeps what was handed to the operating system; SQLite   *)
(* is external, a transaction takes effect as a whole or not at all.       *)
(***************************************************************************)
EXTENDS BlockTree

CONSTANT MaxRecords   \* bound on the records of blocks.dat

ASSUME StoreAssumption == MaxRecords \in Nat

VARIABLES
  reliable,  \* whether resize_file() works whenever it is called (constant)
  exists,    \* blocks.dat exists
  file,      \* its records: a block, and whether the record is torn
  database,  \* chain.db: the [chain, records] it was derived from
  store,     \* blockchain_ and records_ (kept as history while down)
  next,      \* next_store of an append whose record has been flushed
  pc         \* "down", "creating", "idle" or "written"

vars == <<reliable, exists, file, database, store, next, pc>>

NoStore == [chain |-> [stored |-> << >>, nodes |-> << >>, active |-> << >>],
            records |-> << >>]

Whole(b) == [block |-> b, torn |-> FALSE]
Torn(b)  == [block |-> b, torn |-> TRUE]

Init ==
  /\ reliable \in BOOLEAN
  /\ exists = FALSE
  /\ file = << >>
  /\ database = NoStore
  /\ store = NoStore
  /\ next = NoStore
  /\ pc = "down"

-----------------------------------------------------------------------------
(***************************************************************************)
(* open(): the scan.  A torn record fails its size, header or checksum     *)
(* check, the first record must be Genesis, and every other block must be  *)
(* accepted by append().                                                   *)
(***************************************************************************)
ReplayRecord(replay, record, i) ==
  LET appended == AppendBlock(replay.chain, record.block)
  IN  IF replay.error # "none" THEN replay
      ELSE IF record.torn
           THEN [error |-> "invalid_record", chain |-> replay.chain]
      ELSE IF i = 1
           THEN [error |-> IF record.block = GenesisBlock THEN "none"
                           ELSE "invalid_genesis_record",
                 chain |-> replay.chain]
      ELSE IF appended.result.error # "none"
           THEN [error |-> "invalid_chain", chain |-> replay.chain]
      ELSE [error |-> "none", chain |-> appended.chain]

Replay(records) ==
  LET replay[i \in 0..Len(records)] ==
        IF i = 0 THEN [error |-> IF Len(records) = 0
                                 THEN "invalid_genesis_record" ELSE "none",
                       chain |-> NewBlockchain]
        ELSE ReplayRecord(replay[i - 1], records[i], i)
  IN  replay[Len(records)]

Opened ==
  [chain |-> Replay(file).chain, records |-> [i \in 1..Len(file) |-> i]]

(***************************************************************************)
(* open() of an existing store, or the second half of initialize(): the    *)
(* scan and then the rebuild of the database.  When it fails initialize()  *)
(* removes both files again and open() leaves them.                        *)
(***************************************************************************)
Open ==
  /\ exists
  /\ pc \in {"down", "creating"}
  /\ Replay(file).error = "none"
  /\ database' = Opened
  /\ store' = Opened
  /\ pc' = "idle"
  /\ UNCHANGED <<reliable, exists, file, next>>

OpenFails ==
  /\ exists
  /\ pc' = "down"
  /\ \/ pc = "down" /\ UNCHANGED <<exists, file, database>>
     \/ /\ pc = "creating"
        /\ exists' = FALSE
        /\ file' = << >>
        /\ database' = NoStore
  /\ UNCHANGED <<reliable, store, next>>

(* initialize(): only where neither file exists; Genesis is written first. *)
Initialize ==
  /\ pc = "down"
  /\ ~exists
  /\ database = NoStore
  /\ exists' = TRUE
  /\ \/ file' = <<Whole(GenesisBlock)>> /\ pc' = "creating"
     \/ file' \in {<< >>, <<Torn(GenesisBlock)>>} /\ pc' = "down"
  /\ UNCHANGED <<reliable, database, store, next>>

-----------------------------------------------------------------------------
(* Mutant: the record's place is counted in memory. *)
AppendedByCount(b) ==
  [chain   |-> AppendBlock(store.chain, b).chain,
   records |-> Append(store.records, Len(store.records) + 1)]

(* The next_store of an append that writes its record at the end of the file. *)
Appended(b) ==
  [chain   |-> AppendBlock(store.chain, b).chain,
   records |-> Append(store.records, Len(file) + 1)]

Writable(b) ==
  /\ pc = "idle"
  /\ AppendError(store.chain, b) = "none"
  /\ Len(file) < MaxRecords

(* Mutant: the new store is published before the database is rebuilt. *)
WriteRecordPublishing(b) ==
  /\ Writable(b)
  /\ file' = Append(file, Whole(b))
  /\ next' = Appended(b)
  /\ store' = Appended(b)
  /\ pc' = "written"
  /\ UNCHANGED <<reliable, exists, database>>

(* append(): validation on a copy, then the record is appended and flushed. *)
WriteRecord(b) ==
  /\ Writable(b)
  /\ file' = Append(file, Whole(b))
  /\ next' = Appended(b)
  /\ pc' = "written"
  /\ UNCHANGED <<reliable, exists, database, store>>

(***************************************************************************)
(* The write or the flush fails after some bytes, or all, have reached the *)
(* file; the file is resized to its former size and io_error is returned.  *)
(***************************************************************************)
WriteFails(b) ==
  /\ Writable(b)
  /\ \/ UNCHANGED file
     \/ ~reliable /\ file' \in {Append(file, Torn(b)), Append(file, Whole(b))}
  /\ UNCHANGED <<reliable, exists, database, store, next, pc>>

(* The database is rebuilt; only then the new store is published. *)
Commit ==
  /\ pc = "written"
  /\ database' = next
  /\ store' = next
  /\ pc' = "idle"
  /\ next' = NoStore
  /\ UNCHANGED <<reliable, exists, file>>

(* Mutant: the record of the failed append stays in the file. *)
RebuildFailsKeepingRecord ==
  /\ pc = "written"
  /\ pc' = "idle"
  /\ next' = NoStore
  /\ UNCHANGED <<reliable, exists, file, database, store>>

(* The rebuild fails and is rolled back; the record is taken back. *)
RebuildFails ==
  /\ pc = "written"
  /\ \/ file' = SubSeq(file, 1, Len(file) - 1)
     \/ ~reliable /\ UNCHANGED file
  /\ pc' = "idle"
  /\ next' = NoStore
  /\ UNCHANGED <<reliable, exists, database, store>>

(* The process dies, at rest, before the rebuild, or while it writes. *)
Crash ==
  /\ pc # "down"
  /\ pc' = "down"
  /\ next' = NoStore
  /\ UNCHANGED <<reliable, exists, file, database, store>>

CrashWriting(b) ==
  /\ Writable(b)
  /\ file' = Append(file, Torn(b))
  /\ pc' = "down"
  /\ UNCHANGED <<reliable, exists, database, store, next>>

Next ==
  \/ Initialize
  \/ Open
  \/ OpenFails
  \/ \E b \in Block : WriteRecord(b) \/ WriteFails(b) \/ CrashWriting(b)
  \/ Commit
  \/ RebuildFails
  \/ Crash

Spec == Init /\ [][Next]_vars

-----------------------------------------------------------------------------
(***************************************************************************)
(* The offsets that the database stores are those of the right blocks, and *)
(* so no acknowledged block ever leaves the file: not by a truncation that *)
(* takes back another record, not by a failed one, not by a crash.  At     *)
(* rest the database is derived from exactly what memory publishes: a      *)
(* failed rebuild leaves both behind, a successful one moves both.         *)
(***************************************************************************)
AcknowledgedOnFile ==
  /\ \A i \in 1..Len(store.chain.stored) :
       /\ store.records[i] \in 1..Len(file)
       /\ file[store.records[i]] = Whole(store.chain.stored[i])
  /\ pc = "idle" => database = store

(***************************************************************************)
(* At rest a replay of the file gives the Blockchain in memory, with the   *)
(* same tip, branches and account states, unless resize_file() may fail.   *)
(***************************************************************************)
ReplayIsMemory ==
  reliable /\ pc = "idle" =>
    /\ Replay(file).error = "none"
    /\ Replay(file).chain = store.chain

(***************************************************************************)
(* The store implements DurableLog: its log is the complete records of the *)
(* file, and what memory published is acknowledged.  Nothing is promised   *)
(* where resize_file() may fail: the log stays empty there.                *)
(***************************************************************************)
Blocks(records) == [i \in 1..Len(records) |-> records[i].block]

Durable == INSTANCE DurableLog
  WITH log  <- IF reliable THEN Blocks(SelectSeq(file, LAMBDA r : ~r.torn))
               ELSE << >>,
       view <- IF reliable THEN Len(store.chain.stored) ELSE 0

ImplementsDurableLog == Durable!LogSpec

=============================================================================
