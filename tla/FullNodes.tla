------------------------------- MODULE FullNodes -------------------------------
(***************************************************************************)
(* Several full nodes that relay blocks and transactions and synchronize:  *)
(* the message handlers of NodeRuntime (src/node/control_server.cpp) over  *)
(* the sessions of PeerNetwork (src/network/peer_network.cpp).             *)
(*                                                                         *)
(* A node runs three threads: the network thread, which handles one        *)
(* message at a time, the mining thread, which hands found blocks to       *)
(* handle_block, and the RPC thread, which submits transactions.  What a   *)
(* thread does under state_mutex_ is one step; what it does afterwards     *)
(* with the values it read there is another, and the other threads run in  *)
(* between.                                                                *)
(*                                                                         *)
(* The chain and the mempool of a node are those of BlockTree and Mempool; *)
(* that storing them survives crashes is the subject of ChainStore and     *)
(* DataDirectory.  A message is well formed: it was built by this program. *)
(***************************************************************************)
EXTENDS BlockLocator, Mempool

CONSTANTS
  Node,                        \* the full nodes
  None,                        \* no value
  Settings,                    \* the networks, and what happens in them
  RewardAddress,               \* the address each node mines for
  MaximumBlockTransactions,    \* maximum_transactions_per_block
  MaximumLocatorEntries,       \* maximum_block_locator_entries
  MaximumBlocksPerSyncBatch    \* maximum_blocks_per_sync_batch

ASSUME NetworkAssumption ==
  /\ \A s \in Settings :
       /\ s.targets \subseteq Node \X Node
       /\ \A n \in Node : s.blocks[n] \in Seq(Block) /\ s.found[n] \in Nat
       /\ s.sessions \in Nat /\ s.faults \in Nat
  /\ \A n \in Node : RewardAddress[n] \in Addresses
  /\ MaximumLocatorEntries \in Nat \ {0}
  /\ MaximumBlocksPerSyncBatch \in Nat \ {0}

VARIABLES
  setting,      \* the setting, which never changes
  chain,        \* the Blockchain of each node
  pool,         \* the Mempool of each node
  advertised,   \* the tip that PeerNetwork puts into HELLO (update_tip)
  template,     \* the block a node is mining, None if it is not
  sync,         \* the sync_* members of each node
  session,      \* session[n][m]: n's session with m, None if there is none
  queue,        \* queue[n][m]: frames from n that m has not read
  handler,      \* what a thread has still to do after releasing the lock
  opened,       \* sessions opened so far, per target
  found,        \* blocks found so far, per node
  faults        \* sessions lost and processes ended so far

nodeVars == <<chain, pool, advertised, sync>>
netVars == <<session, opened>>
vars == <<setting, chain, pool, advertised, template, sync, session, queue, handler,
          opened, found, faults>>

Target == setting.targets            \* pairs <<n, m>>: n connects to m
Submissions == setting.submissions   \* the transactions that wallets submit
MaxFound == setting.found            \* bound: blocks found by each node
MaxSessions == setting.sessions      \* bound: sessions per target
MaxFaults == setting.faults          \* bound: lost sessions and restarts

Thread == {"network", "mining", "rpc"}

-----------------------------------------------------------------------------
(* The sync_* members of a node that never synchronized. *)
IdleSync ==
  [state |-> "idle", peer |-> None, pending |-> None, target |-> None,
   cursor |-> None, next |-> 1]

(* A Blockchain that was reopened with these blocks. *)
Reopened(blocks) ==
  LET upto[i \in 0..Len(blocks)] ==
        IF i = 0 THEN NewBlockchain
        ELSE AppendBlock(upto[i - 1], blocks[i]).chain
  IN  upto[Len(blocks)]

Init ==
  /\ setting \in Settings
  /\ chain = [n \in Node |-> Reopened(setting.blocks[n])]
  /\ pool = [n \in Node |-> NewMempool(StateOf(chain[n]))]
  /\ advertised = [n \in Node |-> Tip(chain[n])]
  /\ template = [n \in Node |-> None]
  /\ sync = [n \in Node |-> IdleSync]
  /\ session = [n \in Node |-> [m \in Node |-> None]]
  /\ queue = [n \in Node |-> [m \in Node |-> << >>]]
  /\ handler = [n \in Node |-> [t \in Thread |-> None]]
  /\ opened = [target \in Target |-> 0]
  /\ found = [n \in Node |-> 0]
  /\ faults = 0

-----------------------------------------------------------------------------
(* Sessions and frames *)

(* Both ends of one session are open. *)
Connected(n, m) ==
  /\ session[n][m] # None
  /\ session[m][n] # None
  /\ session[n][m].id = session[m][n].id

(* n has received m's HELLO, so that m is in peers() and is sent to. *)
Handshaken(n, m) == session[n][m] # None /\ session[n][m].hello # None

(* The id by which n knows its session with m. *)
PeerId(n, m) == <<m, session[n][m].id>>

NoFrames == [m \in Node |-> << >>]

(* broadcast(): one frame to every handshaken peer but one. *)
Broadcast(n, frame, excluded) ==
  [m \in Node |-> IF Handshaken(n, m) /\ m # excluded THEN <<frame>> ELSE << >>]

(* send(): one frame to one peer. *)
SendTo(to, frame) == [m \in Node |-> IF m = to THEN <<frame>> ELSE << >>]

(* n reads the frame it got `from` a peer, if any, and writes its frames. *)
Exchange(n, from, frames) ==
  queue' = [s \in Node |-> [r \in Node |->
    IF s = n THEN IF Connected(n, r) THEN queue[n][r] \o frames[r]
                  ELSE queue[n][r]
    ELSE IF s = from /\ r = n THEN Tail(queue[s][r])
    ELSE queue[s][r]]]

(* n's network thread is free and has read a frame of this type from m. *)
Received(n, m, type) ==
  /\ handler[n]["network"] = None
  /\ session[n][m] # None
  /\ queue[m][n] # << >>
  /\ Head(queue[m][n]).type = type

Occupy(n, thread, work) ==
  handler' = [handler EXCEPT ![n][thread] = work]

Release(n, thread) == Occupy(n, thread, None)

(***************************************************************************)
(* A connection is established: both ends start a session and send HELLO   *)
(* with the tip that is advertised at that time.                           *)
(***************************************************************************)
Connect(n, m) ==
  LET id == opened[<<n, m>>] + 1
      Hello(s) == [type |-> "hello", tip |-> advertised[s]]
  IN  /\ opened[<<n, m>>] < MaxSessions
      /\ session[n][m] = None /\ session[m][n] = None
      /\ handler[n]["network"] = None /\ handler[m]["network"] = None
      /\ session' = [session EXCEPT ![n][m] = [id |-> id, hello |-> None],
                                    ![m][n] = [id |-> id, hello |-> None]]
      /\ queue' = [queue EXCEPT ![n][m] = <<Hello(n)>>, ![m][n] = <<Hello(m)>>]
      /\ opened' = [opened EXCEPT ![<<n, m>>] = id]
      /\ UNCHANGED <<setting, nodeVars, template, handler, found, faults>>

(* Session::stop at one end: what it has not read is lost. *)
CloseSession(n, m) ==
  /\ session[n][m] # None
  /\ handler[n]["network"] = None
  /\ session' = [session EXCEPT ![n][m] = None]
  /\ queue' = [queue EXCEPT ![m][n] = << >>]
  /\ UNCHANGED <<setting, nodeVars, template, handler, opened, found>>

(* A failure, a timeout or a control request ends a healthy session, *)
Disconnect(n, m) ==
  /\ Connected(n, m)
  /\ faults < MaxFaults
  /\ faults' = faults + 1
  /\ CloseSession(n, m)

(* and the other end notices. *)
NoticeDisconnect(n, m) ==
  /\ ~Connected(n, m)
  /\ CloseSession(n, m)
  /\ UNCHANGED faults

-----------------------------------------------------------------------------
(* Blocks: handle_block *)

(***************************************************************************)
(* What happens under state_mutex_: the block is appended and, when the    *)
(* active chain changed, the mempool reconciled and the restored           *)
(* transactions relayed (update_mempool_after_chain_change).               *)
(***************************************************************************)
Restorable(n, b) ==
  LET appended == AppendBlock(chain[n], b)
  IN  Restored(StateOf(appended.chain), appended.result.detached)

ApplyBlock(n, b) ==
  LET appended == AppendBlock(chain[n], b)
  IN  /\ chain' = [chain EXCEPT ![n] = appended.chain]
      /\ pool' = IF appended.result.active_chain_changed
                 THEN [pool EXCEPT ![n] = AddAll(Restorable(n, b), @.txs)]
                 ELSE pool

RestoredFrames(n, b) ==
  IF ~AppendBlock(chain[n], b).result.active_chain_changed THEN NoFrames
  ELSE [m \in Node |->
          IF ~Handshaken(n, m) THEN << >>
          ELSE [k \in 1..Len(Restorable(n, b).txs) |->
                  [type |-> "transaction", tx |-> Restorable(n, b).txs[k]]]]

(* What is left to do after the lock, with the tip that was read under it. *)
BlockWork(n, b, from) ==
  LET appended == AppendBlock(chain[n], b)
  IN  [kind |-> "block", block |-> b, from |-> from,
       tip |-> IF appended.result.active_chain_changed
               THEN Tip(appended.chain) ELSE None]

(* A refused block is dropped: nothing is requested, nothing is relayed. *)
HandleBlock(n, thread, b, from) ==
  IF AppendError(chain[n], b) # "none"
  THEN /\ Exchange(n, from, NoFrames)
       /\ UNCHANGED <<chain, pool, handler>>
  ELSE /\ ApplyBlock(n, b)
       /\ Exchange(n, from, RestoredFrames(n, b))
       /\ Occupy(n, thread, BlockWork(n, b, from))

ReceiveBlock(n, m) ==
  /\ Received(n, m, "block")
  /\ HandleBlock(n, "network", Head(queue[m][n]).block, m)
  /\ UNCHANGED <<setting, advertised, template, sync, netVars, found, faults>>

(* update_tip() when the tip changed, and the relay to the other peers. *)
PublishTip(n, tip) ==
  advertised' = IF tip = None THEN advertised
                ELSE [advertised EXCEPT ![n] = tip]

FinishBlock(n, thread) ==
  LET work == handler[n][thread]
  IN  /\ work # None
      /\ work.kind = "block"
      /\ PublishTip(n, work.tip)
      /\ Exchange(n, None, Broadcast(n, [type |-> "block", block |-> work.block],
                                     work.from))
      /\ Release(n, thread)
      /\ UNCHANGED <<setting, chain, pool, template, sync, netVars, found, faults>>

(***************************************************************************)
(* Mining, as far as the network sees it: a candidate is built on the tip  *)
(* of one moment, and found at a later one, when the tip may have changed. *)
(***************************************************************************)
StartMining(n) ==
  LET tip == Tip(chain[n])
  IN  /\ found[n] < MaxFound[n]
      /\ template' = [template EXCEPT ![n] =
           [chain_id |-> tip.chain_id, height |-> tip.height + 1, prev |-> tip,
            time |-> tip.time + 1, reward |-> RewardAddress[n], pow |-> TRUE,
            tag |-> 0, txs |-> Select(pool[n], MaximumBlockTransactions)]]
      /\ UNCHANGED <<setting, nodeVars, netVars, queue, handler, found, faults>>

FindBlock(n) ==
  /\ template[n] # None
  /\ handler[n]["mining"] = None
  /\ HandleBlock(n, "mining", template[n], None)
  /\ template' = [template EXCEPT ![n] = None]
  /\ found' = [found EXCEPT ![n] = @ + 1]
  /\ UNCHANGED <<setting, advertised, sync, netVars, faults>>

-----------------------------------------------------------------------------
(* Transactions: handle_transaction and submit_signed_transaction *)

(* Mutant: a transaction that was refused is relayed all the same. *)
HandleTransactionRelaying(n, thread, tx, from) ==
  /\ Exchange(n, from, NoFrames)
  /\ pool' = IF AddError(pool[n], tx) # "none" THEN pool
             ELSE [pool EXCEPT ![n] = Add(@, tx)]
  /\ Occupy(n, thread, [kind |-> "transaction", tx |-> tx, from |-> from])
  /\ UNCHANGED <<setting, chain, advertised, template, sync, netVars, found, faults>>

HandleTransaction(n, thread, tx, from) ==
  /\ Exchange(n, from, NoFrames)
  /\ IF AddError(pool[n], tx) # "none" THEN UNCHANGED <<pool, handler>>
     ELSE /\ pool' = [pool EXCEPT ![n] = Add(@, tx)]
          /\ Occupy(n, thread, [kind |-> "transaction", tx |-> tx,
                                from |-> from])
  /\ UNCHANGED <<setting, chain, advertised, template, sync, netVars, found, faults>>

ReceiveTransaction(n, m) ==
  /\ Received(n, m, "transaction")
  /\ HandleTransaction(n, "network", Head(queue[m][n]).tx, m)

SubmitTransaction(n, tx) ==
  /\ handler[n]["rpc"] = None
  /\ AddError(pool[n], tx) = "none"
  /\ HandleTransaction(n, "rpc", tx, None)

FinishTransaction(n, thread) ==
  LET work == handler[n][thread]
  IN  /\ work # None
      /\ work.kind = "transaction"
      /\ Exchange(n, None, Broadcast(n, [type |-> "transaction",
                                         tx |-> work.tx], work.from))
      /\ Release(n, thread)
      /\ UNCHANGED <<setting, nodeVars, template, netVars, found, faults>>

-----------------------------------------------------------------------------
(* Synchronization *)

SyncFailed(s) == [s EXCEPT !.state = "failed", !.pending = None]

(***************************************************************************)
(* send_sync_request: the locator is built from the cursor.  The members   *)
(* afterwards, and the frames.                                             *)
(***************************************************************************)
RequestSync(n, c, s) ==
  LET locator == Locator(c, s.cursor, MaximumLocatorEntries)
      asked   == [s EXCEPT !.pending = s.next, !.next = s.next + 1]
  IN  IF locator = << >> THEN [sync |-> SyncFailed(asked), frames |-> NoFrames]
      ELSE [sync   |-> asked,
            frames |-> SendTo(s.peer[1], [type    |-> "get_blocks",
                                          request |-> s.next,
                                          locator |-> locator])]

(* The members when the peer's tip becomes the target. *)
Targeting(n, m, tip, state) ==
  [state |-> state, peer |-> PeerId(n, m), pending |-> None, target |-> tip,
   cursor |-> Tip(chain[n]), next |-> sync[n].next]

(* Mutant: a second request is sent while one is outstanding. *)
MaybeStartSyncAlways(n, m, tip) ==
  IF tip.height <= Tip(chain[n]).height
  THEN [sync |-> sync[n], frames |-> NoFrames]
  ELSE RequestSync(n, chain[n], Targeting(n, m, tip, "syncing"))

(***************************************************************************)
(* maybe_start_sync: a lower peer is left alone, an equal one noted, and a *)
(* higher one asked for blocks unless a request is outstanding.            *)
(***************************************************************************)
MaybeStartSync(n, m, tip) ==
  LET local == Tip(chain[n])
      quiet == [sync |-> sync[n], frames |-> NoFrames]
  IN  IF tip.height < local.height \/ sync[n].pending # None THEN quiet
      ELSE IF tip.height = local.height
           THEN IF tip # local
                THEN [sync   |-> Targeting(n, m, tip, "diverged"),
                      frames |-> NoFrames]
                ELSE IF sync[n].state = "complete" THEN quiet
                ELSE [sync   |-> Targeting(n, m, tip, "up_to_date"),
                      frames |-> NoFrames]
      ELSE IF sync[n].state = "syncing" THEN quiet
      ELSE RequestSync(n, chain[n], Targeting(n, m, tip, "syncing"))

(* HELLO completes the handshake, which starts the synchronization. *)
ReceiveHello(n, m) ==
  LET tip     == Head(queue[m][n]).tip
      started == MaybeStartSync(n, m, tip)
  IN  /\ Received(n, m, "hello")
      /\ session' = [session EXCEPT ![n][m].hello = tip]
      /\ sync' = [sync EXCEPT ![n] = started.sync]
      /\ Exchange(n, m, started.frames)
      /\ UNCHANGED <<setting, chain, pool, advertised, template, handler, opened, found,
                     faults>>

(* Mutant: the entry of Genesis is not compared. *)
MatchesAboveGenesis(blocks, entry) ==
  entry.height \in 1 .. Len(blocks) - 1 /\ blocks[entry.height + 1] = entry.id

(***************************************************************************)
(* handle_get_blocks: the first locator entry that is on the active chain, *)
(* and the active blocks that follow it.                                   *)
(***************************************************************************)
Matches(blocks, entry) ==
  entry.height < Len(blocks) /\ blocks[entry.height + 1] = entry.id

BlocksReply(n, frame) ==
  LET blocks  == ActiveBlocks(chain[n])
      matches == {k \in 1..Len(frame.locator) : Matches(blocks, frame.locator[k])}
      first   == CHOOSE k \in matches : \A j \in matches : k <= j
      last    == frame.locator[first].height + 1 + MaximumBlocksPerSyncBatch
      Reply(status, suffix) == [type |-> "blocks", request |-> frame.request,
                                status |-> status, blocks |-> suffix]
  IN  IF matches = {} THEN Reply("locator_not_found", << >>)
      ELSE Reply("ok", SubSeq(blocks, frame.locator[first].height + 2,
                              IF last < Len(blocks) THEN last ELSE Len(blocks)))

ReceiveGetBlocks(n, m) ==
  /\ Received(n, m, "get_blocks")
  /\ Exchange(n, m, SendTo(m, BlocksReply(n, Head(queue[m][n]))))
  /\ UNCHANGED <<setting, nodeVars, template, netVars, handler, found, faults>>

(***************************************************************************)
(* handle_blocks, first part: only the answer to the outstanding request   *)
(* is used, and only if it says ok.                                        *)
(***************************************************************************)
Expected(n, m, frame) ==
  /\ sync[n].state = "syncing"
  /\ sync[n].peer = PeerId(n, m)
  /\ sync[n].pending = frame.request

ReceiveBlocks(n, m) ==
  LET frame == Head(queue[m][n])
  IN  /\ Received(n, m, "blocks")
      /\ Exchange(n, m, NoFrames)
      /\ IF ~Expected(n, m, frame) THEN UNCHANGED <<sync, handler>>
         ELSE IF frame.status # "ok"
         THEN /\ sync' = [sync EXCEPT ![n] = SyncFailed(@)]
              /\ UNCHANGED handler
         ELSE /\ sync' = [sync EXCEPT ![n].pending = None]
              /\ Occupy(n, "network", [kind |-> "batch", batch |-> frame.blocks,
                                       left |-> frame.blocks, tip |-> None])
      /\ UNCHANGED <<setting, chain, pool, advertised, template, netVars, found,
                     faults>>

(***************************************************************************)
(* One block of the batch: it is appended under the lock unless it is      *)
(* stored already; its tip is published before the next one is taken.      *)
(***************************************************************************)
SyncWork(n) ==
  /\ handler[n]["network"] # None
  /\ handler[n]["network"].kind = "batch"

ApplySyncBlock(n) ==
  LET work  == handler[n]["network"]
      b     == Head(work.left)
      known == Contains(chain[n], b)
  IN  /\ SyncWork(n)
      /\ work.left # << >>
      /\ PublishTip(n, work.tip)
      /\ IF ~known /\ AppendError(chain[n], b) # "none"
         THEN /\ sync' = [sync EXCEPT ![n] = SyncFailed(@)]
              /\ Release(n, "network")
              /\ UNCHANGED <<chain, pool, queue>>
         ELSE /\ Occupy(n, "network",
                   [kind |-> "batch", batch |-> work.batch,
                    left |-> Tail(work.left),
                    tip  |-> IF known THEN None ELSE BlockWork(n, b, None).tip])
              /\ UNCHANGED sync
              /\ IF known THEN UNCHANGED <<chain, pool, queue>>
                 ELSE ApplyBlock(n, b) /\ Exchange(n, None, RestoredFrames(n, b))
      /\ UNCHANGED <<setting, template, netVars, found, faults>>

(* Mutant: the height alone decides. *)
CompleteByHeight(n) == Tip(chain[n]).height = sync[n].target.height

(* The cursor after a batch: its last block, on whatever branch that is. *)
NextCursor(n, batch) ==
  IF batch = << >> THEN sync[n].cursor ELSE batch[Len(batch)]

Complete(n) == Tip(chain[n]) = sync[n].target

(* The batch is done: complete, failed, or the next request. *)
EndSyncBatch(n) ==
  LET work == handler[n]["network"]
      s    == [sync[n] EXCEPT !.cursor = NextCursor(n, work.batch)]
      next == RequestSync(n, chain[n], s)
  IN  /\ SyncWork(n)
      /\ work.left = << >>
      /\ PublishTip(n, work.tip)
      /\ Release(n, "network")
      /\ IF \/ Complete(n)
            \/ Tip(chain[n]).height >= s.target.height
            \/ work.batch = << >>
         THEN /\ sync' = [sync EXCEPT ![n] =
                   IF Complete(n) THEN [s EXCEPT !.state = "complete"]
                   ELSE SyncFailed(s)]
              /\ UNCHANGED queue
         ELSE /\ sync' = [sync EXCEPT ![n] = next.sync]
              /\ Exchange(n, None, next.frames)
      /\ UNCHANGED <<setting, chain, pool, template, netVars, found, faults>>

(***************************************************************************)
(* The process ends at any moment and is started again: the stores are     *)
(* reopened, every other member is new, and its sessions are gone.         *)
(***************************************************************************)
Restart(n) ==
  /\ faults < MaxFaults
  /\ faults' = faults + 1
  /\ pool' = [pool EXCEPT ![n] = Revalidate(@, StateOf(chain[n]))]
  /\ advertised' = [advertised EXCEPT ![n] = Tip(chain[n])]
  /\ template' = [template EXCEPT ![n] = None]
  /\ sync' = [sync EXCEPT ![n] = IdleSync]
  /\ session' = [session EXCEPT ![n] = [m \in Node |-> None]]
  /\ queue' = [s \in Node |-> [queue[s] EXCEPT ![n] = << >>]]
  /\ handler' = [handler EXCEPT ![n] = [t \in Thread |-> None]]
  /\ UNCHANGED <<setting, chain, opened, found>>

-----------------------------------------------------------------------------
(* What the threads of a node do with work they have. *)
Handle(n, m) ==
  \/ ReceiveHello(n, m) \/ ReceiveGetBlocks(n, m) \/ ReceiveBlocks(n, m)
  \/ ReceiveBlock(n, m) \/ ReceiveTransaction(n, m)
  \/ NoticeDisconnect(n, m)

Finish(n) ==
  \/ \E thread \in Thread : FinishBlock(n, thread) \/ FinishTransaction(n, thread)
  \/ ApplySyncBlock(n)
  \/ EndSyncBatch(n)

Next ==
  \/ \E target \in Target : Connect(target[1], target[2])
  \/ \E n, m \in Node : Handle(n, m) \/ Disconnect(n, m)
  \/ \E n \in Node :
       \/ Finish(n)
       \/ StartMining(n)
       \/ FindBlock(n)
       \/ \E tx \in Submissions : SubmitTransaction(n, tx)
       \/ Restart(n)

(***************************************************************************)
(* A node goes on as long as one of its threads has begun something or a   *)
(* frame or a lost session waits to be handled, and a configured peer is   *)
(* tried again (schedule_reconnect).  Nothing forces a block to be found,  *)
(* a transaction to be submitted, or a session to fail.                    *)
(***************************************************************************)
HasWork(n) ==
  \/ \E thread \in Thread : handler[n][thread] # None
  \/ \E m \in Node : /\ session[n][m] # None
                     /\ queue[m][n] # << >> \/ ~Connected(n, m)

Work(n) == Finish(n) \/ \E m \in Node : Handle(n, m)

Fairness ==
  /\ \A n \in Node : []<>~HasWork(n) \/ []<><<Work(n)>>_vars
  /\ WF_vars(\E target \in Target : Connect(target[1], target[2]))

Spec == Init /\ [][Next]_vars /\ Fairness

-----------------------------------------------------------------------------
(* The places of the frames of one type on the way from s to r. *)
UnderWay(s, r, type) == {k \in 1..Len(queue[s][r]) : queue[s][r][k].type = type}

(***************************************************************************)
(* docs/sync-protocol-v1.md: "Only one synchronization request is          *)
(* outstanding per node."  A request or an answer is under way only with   *)
(* the peer and the request id that the node waits for, over reconnects,   *)
(* restarts and several peers, and a node at rest waits exactly while it   *)
(* is syncing.                                                             *)
(***************************************************************************)
OneRequest ==
  \A n \in Node :
    /\ \A m \in Node :
         /\ \A k \in UnderWay(n, m, "get_blocks") : Connected(n, m) =>
              /\ sync[n].peer = PeerId(n, m)
              /\ sync[n].pending = queue[n][m][k].request
         /\ \A k \in UnderWay(m, n, "blocks") :
              /\ sync[n].peer = PeerId(n, m)
              /\ sync[n].pending = queue[m][n][k].request
    /\ handler[n]["network"] = None =>
         (sync[n].state = "syncing" <=> sync[n].pending # None)

(***************************************************************************)
(* A node that reports complete or up_to_date has the target in its block  *)
(* tree, a syncing node has stored the block its locator starts from, and  *)
(* a node has the block that its HELLO names, over restarts too.           *)
(***************************************************************************)
SyncReportsTruth ==
  \A n \in Node :
    /\ sync[n].state \in {"complete", "up_to_date"} =>
         Contains(chain[n], sync[n].target)
    /\ sync[n].state = "syncing" => Contains(chain[n], sync[n].cursor)
    /\ Contains(chain[n], advertised[n])

(* m has a longer chain than n. *)
Ahead(m, n) == Tip(chain[m]).height > Tip(chain[n]).height

Established(n, m) ==
  Connected(n, m) /\ Handshaken(n, m) /\ Handshaken(m, n)

(***************************************************************************)
(* A node with an established session to a node with a longer chain        *)
(* catches up with it: once the last block is found and the last session   *)
(* lost, no node stays behind a peer.                                      *)
(***************************************************************************)
NoneBehind == \A n, m \in Node : Established(n, m) => ~Ahead(m, n)

CatchesUp == <>[]NoneBehind

(* No session is lost, no process ends and no block is found. *)
Undisturbed == MaxFaults = 0 /\ \A n \in Node : MaxFound[n] = 0

(* The same in a network that is undisturbed while it synchronizes. *)
CatchesUpUndisturbed == <>[](Undisturbed => NoneBehind)

Syncing(n, m) ==
  Connected(n, m) /\ sync[n].state = "syncing" /\ sync[n].peer = PeerId(n, m)

(***************************************************************************)
(* docs/transaction-protocol-v1.md: relay is "loop-free".  Once no block   *)
(* is found, no transaction submitted and no session lost any more, the    *)
(* nodes stop sending, whatever the topology, and a synchronization ends,  *)
(* complete or failed, unless its session is lost: batches of known,       *)
(* side-branch or changing blocks never make it go round forever.          *)
(***************************************************************************)
ExchangeEnds ==
  <>[](\A n, m \in Node :
         Connected(n, m) => queue[n][m] = << >> /\ ~Syncing(n, m))

=============================================================================
