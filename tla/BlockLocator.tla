----------------------------- MODULE BlockLocator -----------------------------
(***************************************************************************)
(* Blockchain::block_locator (src/chain/blockchain.cpp): the blocks of one *)
(* branch, newest first, that let a peer find the newest common block.     *)
(***************************************************************************)
EXTENDS BlockTree

CONSTANT DirectLocatorEntries   \* entries before the distance doubles (10)

(* The block that is `distance` parents away, or Genesis. *)
Ancestor(nodes, index, distance) ==
  LET up[k \in 0..distance] ==
        IF k = 0 THEN index ELSE nodes[up[k - 1]].parent_index
  IN  up[distance]

(* One turn of the loop, after an entry that is not Genesis. *)
NextEntry(nodes, walk, size, maximum) ==
  LET last == walk.entries[size]
  IN  IF size + 1 = maximum
      THEN [entries |-> Append(walk.entries, 1), step |-> walk.step]
      ELSE [entries |-> Append(walk.entries, Ancestor(nodes, last, walk.step)),
            step    |-> IF size >= DirectLocatorEntries /\ walk.step <= maximum
                        THEN 2 * walk.step ELSE walk.step]

(* The loop: indices of stored blocks from `start` to Genesis. *)
LocatorIndices(nodes, start, maximum) ==
  LET walk[n \in 1..maximum] ==
        IF n = 1 THEN [entries |-> <<start>>, step |-> 1]
        ELSE LET before == walk[n - 1]
                 size   == Len(before.entries)
             IN  IF before.entries[size] = 1 THEN before
                 ELSE NextEntry(nodes, before, size, maximum)
  IN  IF maximum = 0 THEN << >> ELSE walk[maximum].entries

(* The locator sent to a peer: heights with ids, empty if start is unknown. *)
Locator(chain, start, maximum) ==
  IF ~Contains(chain, start) THEN << >>
  ELSE LET indices == LocatorIndices(chain.nodes, IndexOf(chain, start), maximum)
       IN  [k \in 1..Len(indices) |->
              [height |-> chain.stored[indices[k]].height,
               id     |-> chain.stored[indices[k]]]]

=============================================================================
