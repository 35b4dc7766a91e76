------------------------------ MODULE DurableLog ------------------------------
(***************************************************************************)
(* What a chain store promises, without files, databases or memory: a log  *)
(* of blocks in arrival order, of which a prefix has been acknowledged.    *)
(* An acknowledged block is never lost, moved or changed.  At most one     *)
(* block is persisted ahead of the acknowledged prefix; it is acknowledged *)
(* later, by the append itself or by a restart, or it is taken back.       *)
(***************************************************************************)
EXTENDS BlockTree

VARIABLES
  log,   \* the persisted blocks, Genesis first
  view   \* how many of them have been acknowledged

logVars == <<log, view>>

(* The Blockchain that the blocks of a log build. *)
ChainOf(blocks) ==
  LET chain[i \in 1..Len(blocks)] ==
        IF i = 1 THEN NewBlockchain
        ELSE AppendBlock(chain[i - 1], blocks[i]).chain
  IN  chain[Len(blocks)]

LogInit == log = << >> /\ view = 0

Create ==
  /\ log = << >>
  /\ log' = <<GenesisBlock>>
  /\ UNCHANGED view

Persist ==
  /\ log # << >>
  /\ view = Len(log)
  /\ Len(log') = Len(log) + 1
  /\ SubSeq(log', 1, Len(log)) = log
  /\ AppendError(ChainOf(log), log'[Len(log')]) = "none"
  /\ UNCHANGED view

Acknowledge ==
  /\ view' = Len(log)
  /\ UNCHANGED log

TakeBack ==
  /\ log' = SubSeq(log, 1, view)
  /\ UNCHANGED view

LogNext ==
  \/ Create
  \/ Persist
  \/ Acknowledge
  \/ TakeBack

LogSpec == LogInit /\ [][LogNext]_logVars

=============================================================================
