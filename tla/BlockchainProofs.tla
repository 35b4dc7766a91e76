--------------------------- MODULE BlockchainProofs ---------------------------
(***************************************************************************)
(* The safety of the fork choice, for every set of blocks, of addresses    *)
(* and every integer width.  IInv, the conjunction of the four invariants  *)
(* of Blockchain, is inductive: the tree gives the walk to Genesis its     *)
(* meaning, the walk gives the active chain, and both are needed to know   *)
(* that a newly activated block really has the greatest work.              *)
(***************************************************************************)
EXTENDS Blockchain, ChainStateProofs, SequenceTheorems

IInv ==
  /\ TypeOK
  /\ TreeConsistent
  /\ ActiveChainIsBranch
  /\ FirstSeenStrongest

-----------------------------------------------------------------------------
(* Parents precede their children, and a child has one unit more of work. *)
WellParented(nodes) ==
  /\ nodes[1].cumulative_work = 0
  /\ \A i \in 2..Len(nodes) :
       /\ nodes[i].parent_index \in 1..(i - 1)
       /\ nodes[i].cumulative_work =
            nodes[nodes[i].parent_index].cumulative_work + 1

(* p lists the ancestors of index i, from Genesis to i itself. *)
IsPath(nodes, p, i) ==
  /\ p \in Seq(1..i)
  /\ Len(p) >= 1
  /\ p[1] = 1
  /\ p[Len(p)] = i
  /\ \A k \in 2..Len(p) : nodes[p[k]].parent_index = p[k - 1]
  /\ \A k \in 1..Len(p) : nodes[p[k]].cumulative_work = k - 1

(* One more step of the walk: a path to the parent extends to the child. *)
LEMMA ExtendPath ==
  ASSUME NEW nodes, Len(nodes) \in Nat, WellParented(nodes),
         NEW i \in 2..Len(nodes), NEW p,
         IsPath(nodes, p, nodes[i].parent_index)
  PROVE  IsPath(nodes, Append(p, i), i)
<1>. DEFINE q == Append(p, i)
            par == nodes[i].parent_index
<1>1. /\ par \in 1..(i - 1)
      /\ nodes[i].cumulative_work = nodes[par].cumulative_work + 1
  BY DEF WellParented
<1>2. /\ p \in Seq(1..par) /\ Len(p) \in Nat /\ Len(p) >= 1
      /\ p[1] = 1 /\ p[Len(p)] = par
  BY DEF IsPath
<1>3. /\ \A k \in 2..Len(p) : nodes[p[k]].parent_index = p[k - 1]
      /\ \A k \in 1..Len(p) : nodes[p[k]].cumulative_work = k - 1
  BY DEF IsPath
<1>4. p \in Seq(1..i)
  <2>1. ASSUME NEW k \in 1..Len(p) PROVE p[k] \in 1..i
    <3>. HIDE DEF par
    <3>1. p[k] \in 1..par
      BY <1>2, ElementOfSeq, Zenon
    <3>. QED  BY <1>1, <3>1
  <2>. QED  BY <1>2, <2>1
<1>5. /\ q \in Seq(1..i) /\ Len(q) = Len(p) + 1
      /\ \A k \in 1..Len(p) : q[k] = p[k]
      /\ q[Len(p) + 1] = i
  BY <1>2, <1>4
<1>. HIDE DEF par, q
<1>6. \A k \in 2..Len(q) : nodes[q[k]].parent_index = q[k - 1]
  <2>. SUFFICES ASSUME NEW k \in 2..Len(q)
                PROVE  nodes[q[k]].parent_index = q[k - 1]
    OBVIOUS
  <2>1. CASE k = Len(q)
    BY <1>2, <1>5, <2>1 DEF par
  <2>2. CASE k # Len(q)
    <3>1. k \in 2..Len(p) /\ k \in 1..Len(p) /\ k - 1 \in 1..Len(p)
      BY <1>2, <1>5, <2>2
    <3>2. q[k] = p[k] /\ q[k - 1] = p[k - 1]
      BY <1>5, <3>1, Zenon
    <3>. QED  BY <1>3, <3>1, <3>2
  <2>. QED  BY <2>1, <2>2
<1>7. \A k \in 1..Len(q) : nodes[q[k]].cumulative_work = k - 1
  <2>. SUFFICES ASSUME NEW k \in 1..Len(q)
                PROVE  nodes[q[k]].cumulative_work = k - 1
    OBVIOUS
  <2>1. CASE k = Len(q)
    <3>1. k = Len(p) + 1 /\ q[k] = i
      BY <1>5, <2>1
    <3>2. nodes[par].cumulative_work = Len(p) - 1
      <4>1. Len(p) \in 1..Len(p)
        BY <1>2
      <4>2. nodes[p[Len(p)]].cumulative_work = Len(p) - 1
        BY <1>3, <4>1
      <4>. QED  BY <1>2, <4>2
    <3>. QED  BY <1>1, <1>2, <3>1, <3>2
  <2>2. CASE k # Len(q)
    <3>1. k \in 1..Len(p)
      BY <1>2, <1>5, <2>2
    <3>. QED  BY <1>5, <1>3, <3>1, Zenon
  <2>. QED  BY <2>1, <2>2
<1>8. Len(q) >= 1 /\ q[1] = 1 /\ q[Len(q)] = i
  BY <1>2, <1>5
<1>9. IsPath(nodes, q, i)
  BY <1>5, <1>6, <1>7, <1>8 DEF IsPath
<1>. QED  BY <1>9 DEF q

(***************************************************************************)
(* The walk of append() from a stored block to Genesis ends, and reversed  *)
(* it is the path to that block (blockchain.cpp:146-153).                  *)
(***************************************************************************)
LEMMA PathToIsPath ==
  ASSUME NEW nodes, Len(nodes) \in Nat, WellParented(nodes),
         NEW index \in 1..Len(nodes)
  PROVE  IsPath(nodes, PathTo(nodes, index), index)
<1>. DEFINE n == Len(nodes)
            Body(f, i) == IF i = 1 THEN <<1>>
                          ELSE Append(f[nodes[i].parent_index], i)
            path == CHOOSE f : f = [i \in 1..n |-> Body(f, i)]
            S == {m \in Nat : m <= n => \E f : /\ f = [i \in 1..m |-> f[i]]
                                /\ \A i \in 1..m : f[i] = Body(f, i)}
            R == {m \in Nat : m \in 1..n => IsPath(nodes, path[m], m)}
<1>1. \A i \in 2..n : nodes[i].parent_index \in 1..(i - 1)
  BY DEF WellParented
<1>2. n \in S
  <2>1. 0 \in S
    <3>. DEFINE f == [i \in 1..0 |-> <<1>>]
    <3>1. f = [i \in 1..0 |-> f[i]] /\ \A i \in 1..0 : f[i] = Body(f, i)
      OBVIOUS
    <3>. QED  BY <3>1
  <2>2. ASSUME NEW m \in Nat, m \in S PROVE m + 1 \in S
    <3>. SUFFICES ASSUME m + 1 <= n
                  PROVE  \E g : /\ g = [i \in 1..(m + 1) |-> g[i]]
                                /\ \A i \in 1..(m + 1) : g[i] = Body(g, i)
      OBVIOUS
    <3>1. PICK f : /\ f = [i \in 1..m |-> f[i]]
                   /\ \A i \in 1..m : f[i] = Body(f, i)
      BY <2>2
    <3>. DEFINE g == [i \in 1..(m + 1) |->
                        IF i <= m THEN f[i] ELSE Body(f, m + 1)]
    <3>2. g = [i \in 1..(m + 1) |-> g[i]]
      OBVIOUS
    <3>3. ASSUME NEW i \in 1..(m + 1) PROVE g[i] = Body(g, i)
      <4>1. g[i] = Body(f, i)
        <5>. HIDE DEF Body
        <5>1. CASE i <= m
          BY <3>1, <5>1
        <5>2. CASE i = m + 1
          BY <5>2
        <5>. QED  BY <5>1, <5>2
      <4>2. Body(g, i) = Body(f, i)
        <5>1. CASE i = 1
          BY <5>1
        <5>2. CASE i # 1
          <6>1. nodes[i].parent_index \in 1..m
            BY <1>1, <5>2
          <6>2. g[nodes[i].parent_index] = f[nodes[i].parent_index]
            <7>. DEFINE k == nodes[i].parent_index
            <7>. HIDE DEF k, Body
            <7>1. k \in 1..m
              BY <6>1 DEF k
            <7>. QED  BY <7>1 DEF k
          <6>. HIDE DEF g
          <6>. QED  BY <5>2, <6>2
        <5>. QED  BY <5>1, <5>2
      <4>. QED  BY <4>1, <4>2
    <3>. QED  BY <3>2, <3>3
  <2>. HIDE DEF S
  <2>. QED  BY <2>1, <2>2, InductionOnSet
<1>3. path = [i \in 1..n |-> Body(path, i)]
  <2>1. PICK f : /\ f = [i \in 1..n |-> f[i]]
                 /\ \A i \in 1..n : f[i] = Body(f, i)
    BY <1>2
  <2>. HIDE DEF Body
  <2>2. f = [i \in 1..n |-> Body(f, i)]
    BY <2>1
  <2>. QED  BY <2>2, SMTT(30)
<1>. HIDE DEF path
<1>4. \A m \in Nat : m \in R
  <2>1. ASSUME NEW m \in Nat, \A k \in 0..(m - 1) : k \in R PROVE m \in R
    <3>. SUFFICES ASSUME m \in 1..n PROVE IsPath(nodes, path[m], m)
      OBVIOUS
    <3>1. CASE m = 1
      <4>1. path[1] = <<1>>
        BY <1>3, <3>1
      <4>. QED  BY <3>1, <4>1 DEF IsPath, WellParented
    <3>2. CASE m # 1
      <4>1. m \in 2..n /\ nodes[m].parent_index \in 1..(m - 1)
        BY <1>1, <3>2, SMTT(30)
      <4>2. path[m] = Append(path[nodes[m].parent_index], m)
        BY <1>3, <3>2
      <4>3. IsPath(nodes, path[nodes[m].parent_index], nodes[m].parent_index)
        <5>. DEFINE k == nodes[m].parent_index
        <5>. HIDE DEF k
        <5>1. k \in 0..(m - 1) /\ k \in 1..n
          BY <4>1 DEF k
        <5>2. IsPath(nodes, path[k], k)
          BY <2>1, <5>1
        <5>. QED  BY <5>2 DEF k
      <4>. QED  BY <4>1, <4>2, <4>3, ExtendPath
    <3>. QED  BY <3>1, <3>2
  <2>. HIDE DEF R
  <2>. QED  BY <2>1, StrongInductionOnSet
<1>5. PathTo(nodes, index) = path[index]
  BY DEF PathTo, path
<1>. QED  BY <1>4, <1>5

-----------------------------------------------------------------------------
(* What the checks of append() establish of a block that passes them. *)
LEMMA AcceptedBlock ==
  ASSUME IInv, NEW b \in Block, AppendError(chain, b) = "none",
         NEW p, p = IndexOf(chain, b.prev)
  PROVE  /\ \A i \in Indices : chain.stored[i] # b
         /\ p \in Indices
         /\ chain.stored[p] = b.prev
         /\ b.height = chain.stored[p].height + 1
         /\ b.time > chain.stored[p].time
         /\ BlockStateError(chain.nodes[p].state, b) = "none"
         /\ NewNode(chain, b) =
              [parent_index |-> p, cumulative_work |-> Work(p) + 1,
               state |-> ApplyBlockState(chain.nodes[p].state, b)]
         /\ NewNode(chain, b) \in
              [parent_index : Nat, cumulative_work : Nat, state : ChainStates]
<1>1. /\ b.height # 0
      /\ ~Contains(chain, b)
      /\ Contains(chain, b.prev)
      /\ b.height = chain.stored[p].height + 1
      /\ ~(b.time <= chain.stored[p].time)
      /\ BlockStateError(chain.nodes[p].state, b) = "none"
  BY DEF AppendError
<1>2. p \in Indices /\ chain.stored[p] = b.prev
  BY <1>1 DEF Contains, IndexOf, Indices
<1>3. \A i \in Indices : chain.stored[i] # b
  BY <1>1 DEF Contains, Indices
<1>4. /\ chain.stored \in Seq(Block \cup {GenesisBlock})
      /\ chain.nodes \in Seq([parent_index : Nat, cumulative_work : Nat,
                              state : ChainStates])
      /\ Len(chain.nodes) = Len(chain.stored)
  BY DEF IInv, TypeOK
<1>5. b.time > chain.stored[p].time
  <2>1. chain.stored[p] \in Block \cup {GenesisBlock}
    BY <1>2, <1>4, ElementOfSeq DEF Indices
  <2>2. chain.stored[p].time \in U64 /\ b.time \in U64
    BY <2>1, BlockAssumption, StateAssumption DEF GenesisBlock, U64
  <2>. QED  BY <1>1, <2>2, StateAssumption DEF U64
<1>6. NewNode(chain, b) =
        [parent_index |-> p, cumulative_work |-> Work(p) + 1,
         state |-> ApplyBlockState(chain.nodes[p].state, b)]
  BY DEF NewNode, Work
<1>7. chain.nodes[p] \in [parent_index : Nat, cumulative_work : Nat,
                          state : ChainStates]
  BY <1>2, <1>4, ElementOfSeq DEF Indices
<1>8. ApplyBlockState(chain.nodes[p].state, b) \in ChainStates
  <2>1. b.txs \in Seq(Transactions) /\ (b.height # 0 => b.reward \in Addresses)
    BY BlockAssumption
  <2>. QED  BY <1>7, <2>1, ApplyBlockStateType
<1>9. p \in Nat /\ Work(p) + 1 \in Nat
  <2>1. Len(chain.stored) \in Nat
    BY <1>4
  <2>. QED  BY <1>2, <1>7, <2>1 DEF Indices, Work
<1>. QED  BY <1>1, <1>2, <1>3, <1>5, <1>6, <1>8, <1>9

(***************************************************************************)
(* Storing an accepted block keeps the tree consistent, whether or not the *)
(* active chain then switches to it (blockchain.cpp:134-142).              *)
(***************************************************************************)
LEMMA StoreKeepsTree ==
  ASSUME IInv, NEW b \in Block, AppendError(chain, b) = "none",
         chain'.stored = Append(chain.stored, b),
         chain'.nodes = Append(chain.nodes, NewNode(chain, b))
  PROVE  /\ chain'.stored \in Seq(Block \cup {GenesisBlock})
         /\ chain'.nodes \in Seq([parent_index : Nat, cumulative_work : Nat,
                                  state : ChainStates])
         /\ Len(chain'.stored) = Len(chain.stored) + 1
         /\ Len(chain'.nodes) = Len(chain.stored) + 1
         /\ \A i \in Indices : /\ chain'.stored[i] = chain.stored[i]
                                /\ chain'.nodes[i] = chain.nodes[i]
         /\ chain'.nodes[Len(chain.stored) + 1] = NewNode(chain, b)
         /\ TreeConsistent'
         /\ WellParented(chain'.nodes)
<1>. DEFINE p == IndexOf(chain, b.prev)
            n == Len(chain.stored)
            Node == [parent_index : Nat, cumulative_work : Nat,
                     state : ChainStates]
<1>1. /\ \A i \in Indices : chain.stored[i] # b
      /\ p \in Indices
      /\ chain.stored[p] = b.prev
      /\ b.height = chain.stored[p].height + 1
      /\ b.time > chain.stored[p].time
      /\ BlockStateError(chain.nodes[p].state, b) = "none"
      /\ NewNode(chain, b) =
           [parent_index |-> p, cumulative_work |-> Work(p) + 1,
            state |-> ApplyBlockState(chain.nodes[p].state, b)]
      /\ NewNode(chain, b) \in Node
  BY AcceptedBlock
<1>2. /\ chain.stored \in Seq(Block \cup {GenesisBlock})
      /\ chain.nodes \in Seq(Node)
      /\ Len(chain.nodes) = n
      /\ n \in Nat
  BY DEF IInv, TypeOK
<1>3. /\ chain.stored[1] = GenesisBlock
      /\ \A i, j \in Indices : chain.stored[i] = chain.stored[j] => i = j
      /\ \A i \in Indices : Work(i) = chain.stored[i].height
  BY DEF IInv, TreeConsistent
<1>. HIDE DEF p, Node
<1>4. /\ chain'.stored \in Seq(Block \cup {GenesisBlock})
      /\ Len(chain'.stored) = n + 1
      /\ \A i \in 1..n : chain'.stored[i] = chain.stored[i]
      /\ chain'.stored[n + 1] = b
  BY <1>2, AppendProperties
<1>5. /\ chain'.nodes \in Seq(Node)
      /\ Len(chain'.nodes) = n + 1
      /\ \A i \in 1..n : chain'.nodes[i] = chain.nodes[i]
      /\ chain'.nodes[n + 1] = NewNode(chain, b)
  BY <1>1, <1>2, AppendProperties
<1>. HIDE DEF n
<1>6. Indices = 1..n /\ Indices' = 1..(n + 1) /\ p \in 1..n
  <2>1. p \in Indices /\ Len(chain'.stored) = n + 1
    BY <1>1, <1>4, SMTT(30)
  <2>. QED  BY <2>1 DEF Indices, n
<1>7. TreeConsistent'
  <2>1. chain'.stored[1] = GenesisBlock
    BY <1>2, <1>3, <1>4, <1>6
  <2>2. ASSUME NEW i \in 1..(n + 1), NEW j \in 1..(n + 1),
               chain'.stored[i] = chain'.stored[j]
        PROVE  i = j
    <3>1. CASE i \in 1..n /\ j \in 1..n
      BY <1>3, <1>4, <1>6, <2>2, <3>1
    <3>2. CASE i = n + 1 /\ j \in 1..n
      BY <1>1, <1>4, <1>6, <2>2, <3>2, SMTT(30)
    <3>3. CASE i \in 1..n /\ j = n + 1
      BY <1>1, <1>4, <1>6, <2>2, <3>3
    <3>. QED  BY <1>2, <3>1, <3>2, <3>3
  <2>3. ASSUME NEW i \in 1..(n + 1)
        PROVE  chain'.nodes[i].cumulative_work = chain'.stored[i].height
    <3>1. CASE i \in 1..n
      BY <1>3, <1>4, <1>5, <1>6, <3>1, SMTT(30) DEF Work
    <3>2. CASE i = n + 1
      <4>1. chain'.nodes[i].cumulative_work = Work(p) + 1
        BY <1>1, <1>5, <3>2
      <4>2. Work(p) = chain.stored[p].height
        BY <1>3, <1>6
      <4>3. chain'.stored[i].height = b.height
        BY <1>4, <3>2
      <4>. QED  BY <1>1, <4>1, <4>2, <4>3
    <3>3. i \in 1..n \/ i = n + 1
      BY <1>2
    <3>. QED  BY <3>1, <3>2, <3>3
  <2>4. ASSUME NEW i \in (1..(n + 1)) \ {1}, NEW q,
               q = chain'.nodes[i].parent_index
        PROVE  /\ q \in 1..(i - 1)
               /\ chain'.stored[q] = chain'.stored[i].prev
               /\ chain'.stored[i].height = chain'.stored[q].height + 1
               /\ chain'.stored[i].time > chain'.stored[q].time
               /\ BlockStateError(chain'.nodes[q].state, chain'.stored[i])
                    = "none"
               /\ ApplyBlockState(chain'.nodes[q].state, chain'.stored[i])
                    = chain'.nodes[i].state
    <3>1. CASE i \in 1..n
      <4>1. q = chain.nodes[i].parent_index
        BY <1>5, <2>4, <3>1
      <4>0. i \in Indices \ {1}
        BY <1>6, <2>4, <3>1
      <4>2. /\ q \in 1..(i - 1)
            /\ chain.stored[q] = chain.stored[i].prev
            /\ chain.stored[i].height = chain.stored[q].height + 1
            /\ chain.stored[i].time > chain.stored[q].time
            /\ BlockStateError(chain.nodes[q].state, chain.stored[i]) = "none"
            /\ ApplyBlockState(chain.nodes[q].state, chain.stored[i])
                 = chain.nodes[i].state
        BY <4>0, <4>1, Zenon DEF IInv, TreeConsistent
      <4>3. q \in 1..n
        BY <1>2, <3>1, <4>2, SMTT(30)
      <4>. QED  BY <1>4, <1>5, <3>1, <4>2, <4>3, SMTT(30)
    <3>2. CASE i = n + 1
      <4>1. q = p
        BY <1>1, <1>5, <2>4, <3>2
      <4>2. q \in 1..(i - 1) /\ q \in 1..n
        BY <1>2, <1>6, <3>2, <4>1
      <4>3. chain'.stored[q] = chain.stored[p] /\ chain'.nodes[q] = chain.nodes[p]
        BY <1>4, <1>5, <4>1, <4>2
      <4>4. chain'.nodes[i].state = ApplyBlockState(chain.nodes[p].state, b)
        BY <1>1, <1>5, <3>2
      <4>5. chain'.stored[i] = b
        BY <1>4, <3>2
      <4>6. b.prev = chain.stored[p]
        BY <1>1
      <4>. QED  BY <1>1, <4>2, <4>3, <4>4, <4>5, <4>6
    <3>3. i \in 1..n \/ i = n + 1
      BY <1>2
    <3>. QED  BY <3>1, <3>2, <3>3
  <2>. QED  BY <1>6, <2>1, <2>2, <2>3, <2>4 DEF TreeConsistent, Work
<1>8. WellParented(chain'.nodes)
  <2>1. chain'.nodes[1].cumulative_work = 0
    <3>1. 1 \in Indices'
      BY <1>2, <1>6
    <3>2. chain'.stored[1] = GenesisBlock /\ chain'.nodes[1].cumulative_work = chain'.stored[1].height
      BY <1>7, <3>1, Zenon DEF TreeConsistent, Work
    <3>. QED  BY <3>2 DEF GenesisBlock
  <2>2. ASSUME NEW i \in 2..(n + 1), NEW q,
               q = chain'.nodes[i].parent_index
        PROVE  /\ q \in 1..(i - 1)
               /\ chain'.nodes[i].cumulative_work =
                    chain'.nodes[q].cumulative_work + 1
    <3>1. i \in Indices' \ {1} /\ i \in Indices'
      BY <1>2, <1>6
    <3>2. /\ q \in 1..(i - 1)
          /\ chain'.stored[i].height = chain'.stored[q].height + 1
      BY <1>7, <2>2, <3>1 DEF TreeConsistent
    <3>3. q \in Indices'
      BY <1>2, <1>6, <3>2
    <3>4. \A k \in Indices' :
            chain'.nodes[k].cumulative_work = chain'.stored[k].height
      BY <1>7 DEF TreeConsistent, Work
    <3>. QED  BY <3>1, <3>2, <3>3, <3>4
  <2>3. Len(chain'.nodes) = n + 1
    BY <1>5
  <2>. QED  BY <2>1, <2>2, <2>3 DEF WellParented
<1>. QED  BY <1>4, <1>5, <1>6, <1>7, <1>8, SMTT(30) DEF n, Node

-----------------------------------------------------------------------------
(* The constructor establishes the inductive invariant. *)
LEMMA InitInvariant == Init => IInv
<1>. SUFFICES ASSUME Init PROVE IInv
  OBVIOUS
<1>. DEFINE node == [parent_index |-> 1, cumulative_work |-> 0,
                     state |-> EmptyState]
<1>1. /\ chain.stored = <<GenesisBlock>>
      /\ chain.nodes = <<node>>
      /\ chain.active = <<1>>
  BY DEF Init, NewBlockchain
<1>2. EmptyState \in ChainStates
  BY StateAssumption DEF EmptyState, ChainStates, Accounts, U64
<1>3. Indices = {1} /\ Len(chain.stored) = 1 /\ chain.stored[1] = GenesisBlock
  BY <1>1 DEF Indices
<1>4. Len(chain.nodes) = 1 /\ chain.nodes[1].cumulative_work = 0
  BY <1>1
<1>5. TypeOK
  <2>1. node \in [parent_index : Nat, cumulative_work : Nat, state : ChainStates]
    BY <1>2
  <2>. HIDE DEF node
  <2>. QED  BY <1>1, <1>3, <1>4, <2>1 DEF TypeOK
<1>6. TreeConsistent
  <2>1. GenesisBlock.height = 0
    BY DEF GenesisBlock
  <2>. QED  BY <1>3, <1>4, <2>1 DEF TreeConsistent, Work
<1>7. Len(chain.active) = 1 /\ chain.active[1] = 1
  BY <1>1
<1>8. ActiveChainIsBranch
  BY <1>3, <1>7 DEF ActiveChainIsBranch, GenesisBlock
<1>9. FirstSeenStrongest
  BY <1>3, <1>7, SMTT(30) DEF FirstSeenStrongest, ActiveTipIndex
<1>. QED  BY <1>5, <1>6, <1>8, <1>9 DEF IInv

(* A step that leaves the Blockchain alone keeps the invariant. *)
LEMMA SameChain ==
  ASSUME IInv, chain' = chain
  PROVE  IInv'
BY DEF IInv, TypeOK, TreeConsistent, ActiveChainIsBranch, FirstSeenStrongest,
       Indices, Work, ActiveTipIndex

(***************************************************************************)
(* A block that is stored on a weaker or equal branch changes neither the  *)
(* active chain nor who is strongest: it arrived later (blockchain.cpp:142 *)
(* returns early).                                                         *)
(***************************************************************************)
LEMMA StoredOnly ==
  ASSUME IInv, NEW b \in Block, AppendError(chain, b) = "none",
         ~Stronger(chain, b), chain' = Store(chain, b)
  PROVE  IInv'
<1>. DEFINE n == Len(chain.stored)
            tip == ActiveTipIndex(chain)
<1>1. /\ chain'.stored = Append(chain.stored, b)
      /\ chain'.nodes = Append(chain.nodes, NewNode(chain, b))
      /\ chain'.active = chain.active
  BY DEF Store
<1>2. /\ chain'.stored \in Seq(Block \cup {GenesisBlock})
      /\ chain'.nodes \in Seq([parent_index : Nat, cumulative_work : Nat,
                               state : ChainStates])
      /\ Len(chain'.stored) = n + 1
      /\ Len(chain'.nodes) = n + 1
      /\ \A i \in Indices : /\ chain'.stored[i] = chain.stored[i]
                             /\ chain'.nodes[i] = chain.nodes[i]
      /\ chain'.nodes[n + 1] = NewNode(chain, b)
      /\ TreeConsistent'
  BY <1>1, StoreKeepsTree
<1>3. /\ chain.active \in Seq(Indices) /\ chain.active # << >>
      /\ n \in Nat /\ Indices = 1..n /\ Indices' = 1..(n + 1)
      /\ Len(chain.active) \in Nat /\ Len(chain.active) >= 1
  <2>1. /\ chain.active \in Seq(Indices) /\ chain.active # << >>
        /\ chain.stored \in Seq(Block \cup {GenesisBlock})
    BY DEF IInv, TypeOK
  <2>2. n \in Nat /\ Len(chain.active) \in Nat
    BY <2>1, LenProperties
  <2>3. Len(chain.active) # 0
    BY <2>1, EmptySeq
  <2>4. Indices = 1..n /\ Indices' = 1..(n + 1)
    BY <1>2 DEF Indices
  <2>. QED  BY <2>1, <2>2, <2>3, <2>4
<1>4. \A k \in 1..Len(chain.active) : chain.active[k] \in Indices
  BY <1>3, ElementOfSeq
<1>5. TypeOK'
  <2>1. chain.active \in Seq(Indices')
    BY <1>3, SeqMonotonic
  <2>. QED  BY <1>1, <1>2, <1>3, <2>1 DEF TypeOK
<1>6. ActiveChainIsBranch'
  <2>1. ActiveChainIsBranch
    BY DEF IInv
  <2>2. \A i \in Indices : /\ chain'.stored[i] = chain.stored[i]
                            /\ chain'.nodes[i] = chain.nodes[i]
    BY <1>2
  <2>3. 2..Len(chain.active) \subseteq 1..Len(chain.active)
    BY <1>3
  <2>4. /\ \A k \in 1..Len(chain.active) :
             /\ chain'.nodes[chain.active[k]] = chain.nodes[chain.active[k]]
             /\ chain'.stored[chain.active[k]] = chain.stored[chain.active[k]]
        /\ 2..Len(chain.active) \subseteq 1..Len(chain.active)
    BY <1>4, <2>2, <2>3
  <2>5. \A k \in 2..Len(chain.active) :
          chain'.nodes[chain.active[k]].parent_index = chain.active[k - 1]
    BY <2>1, <2>4 DEF ActiveChainIsBranch
  <2>6. \A k \in 1..Len(chain.active) :
          chain'.stored[chain.active[k]].height = k - 1
    BY <2>1, <2>4 DEF ActiveChainIsBranch
  <2>. QED  BY <1>1, <2>1, <2>5, <2>6 DEF ActiveChainIsBranch
<1>7. FirstSeenStrongest'
  <2>1. tip \in Indices /\ ActiveTipIndex(chain') = tip
    BY <1>1, <1>3, <1>4 DEF ActiveTipIndex
  <2>. HIDE DEF tip
  <2>2. chain'.nodes[tip].cumulative_work = Work(tip)
    BY <1>2, <2>1 DEF Work
  <2>3. ASSUME NEW i \in 1..(n + 1)
        PROVE  \/ chain'.nodes[i].cumulative_work < Work(tip)
               \/ chain'.nodes[i].cumulative_work = Work(tip) /\ tip <= i
    <3>1. CASE i \in 1..n
      BY <1>2, <1>3, <3>1 DEF IInv, FirstSeenStrongest, tip, Work
    <3>2. CASE i = n + 1
      <4>1. ~(NewNode(chain, b).cumulative_work > Work(tip))
        BY DEF Stronger, Work, tip
      <4>2. chain.nodes[tip] \in [parent_index : Nat, cumulative_work : Nat,
                                  state : ChainStates]
        BY <1>3, <2>1, ElementOfSeq DEF IInv, TypeOK
      <4>3. NewNode(chain, b).cumulative_work \in Nat
        BY AcceptedBlock
      <4>4. tip \in Nat /\ tip <= i
        BY <1>3, <2>1, <3>2
      <4>5. /\ chain'.nodes[i].cumulative_work =
                 NewNode(chain, b).cumulative_work
            /\ Work(tip) \in Nat
        BY <1>2, <3>2, <4>2, SMTT(30) DEF Work
      <4>. QED  BY <4>1, <4>3, <4>4, <4>5
    <3>3. i \in 1..n \/ i = n + 1
      BY <1>3
    <3>. QED  BY <3>1, <3>2, <3>3
  <2>. QED  BY <1>3, <2>1, <2>2, <2>3 DEF FirstSeenStrongest, Work
<1>. QED  BY <1>2, <1>5, <1>6, <1>7 DEF IInv

(***************************************************************************)
(* A block with strictly more work than the tip becomes the tip: the walk  *)
(* from it to Genesis is the new active chain, and since nobody had more   *)
(* work than the old tip, nobody else has as much (blockchain.cpp:144-180).*)
(***************************************************************************)
LEMMA Activated ==
  ASSUME IInv, NEW b \in Block, AppendError(chain, b) = "none",
         Stronger(chain, b), chain' = Activate(Store(chain, b))
  PROVE  IInv'
<1>. DEFINE n == Len(chain.stored)
            tip == ActiveTipIndex(chain)
            next == chain'.active
<1>1. /\ chain'.stored = Append(chain.stored, b)
      /\ chain'.nodes = Append(chain.nodes, NewNode(chain, b))
      /\ next = PathTo(chain'.nodes, Len(chain'.nodes))
  BY DEF Store, Activate
<1>2. /\ chain'.stored \in Seq(Block \cup {GenesisBlock})
      /\ chain'.nodes \in Seq([parent_index : Nat, cumulative_work : Nat,
                               state : ChainStates])
      /\ Len(chain'.stored) = n + 1
      /\ Len(chain'.nodes) = n + 1
      /\ \A i \in Indices : /\ chain'.stored[i] = chain.stored[i]
                             /\ chain'.nodes[i] = chain.nodes[i]
      /\ chain'.nodes[n + 1] = NewNode(chain, b)
      /\ TreeConsistent'
      /\ WellParented(chain'.nodes)
  BY <1>1, StoreKeepsTree
<1>3. n \in Nat /\ Indices = 1..n /\ Indices' = 1..(n + 1)
  <2>1. chain.stored \in Seq(Block \cup {GenesisBlock})
    BY DEF IInv, TypeOK
  <2>. QED  BY <1>2, <2>1, LenProperties DEF Indices
<1>4. IsPath(chain'.nodes, next, n + 1)
  <2>1. n + 1 \in 1..Len(chain'.nodes) /\ Len(chain'.nodes) \in Nat
    BY <1>2, <1>3
  <2>. QED  BY <1>1, <1>2, <2>1, PathToIsPath
<1>. HIDE DEF next
<1>5. /\ next \in Seq(Indices')
      /\ Len(next) >= 1 /\ Len(next) \in Nat
      /\ next[1] = 1
      /\ next[Len(next)] = n + 1
      /\ \A k \in 2..Len(next) : chain'.nodes[next[k]].parent_index = next[k - 1]
      /\ \A k \in 1..Len(next) : chain'.nodes[next[k]].cumulative_work = k - 1
  BY <1>3, <1>4 DEF IsPath
<1>6. TypeOK'
  <2>1. next # << >>
    BY <1>5, SMTT(30)
  <2>. QED  BY <1>2, <1>5, <2>1 DEF TypeOK, next
<1>7. ActiveChainIsBranch'
  <2>1. \A i \in Indices' :
          chain'.nodes[i].cumulative_work = chain'.stored[i].height
    BY <1>2, Zenon DEF TreeConsistent, Work
  <2>2. \A k \in 1..Len(next) : next[k] \in Indices'
    BY <1>5, ElementOfSeq
  <2>3. \A k \in 1..Len(next) : chain'.stored[next[k]].height = k - 1
    BY <1>5, <2>1, <2>2
  <2>. QED  BY <1>5, <2>3, Zenon DEF ActiveChainIsBranch, next
<1>8. FirstSeenStrongest'
  <2>1. ActiveTipIndex(chain') = n + 1
    BY <1>5 DEF ActiveTipIndex, next
  <2>2. chain.active \in Seq(Indices) /\ chain.active # << >>
    BY DEF IInv, TypeOK
  <2>3. tip \in Indices
    BY <2>2, ElementOfSeq, EmptySeq, SMTT(30) DEF ActiveTipIndex
  <2>. HIDE DEF tip
  <2>. DEFINE w == NewNode(chain, b).cumulative_work
  <2>4. /\ w > Work(tip)
        /\ chain'.nodes[n + 1].cumulative_work = w
        /\ w \in Nat
    BY <1>2, AcceptedBlock DEF Stronger, Work, tip
  <2>. HIDE DEF w
  <2>5. ASSUME NEW i \in 1..(n + 1)
        PROVE  \/ chain'.nodes[i].cumulative_work < w
               \/ chain'.nodes[i].cumulative_work = w /\ n + 1 <= i
    <3>1. CASE i \in 1..n
      <4>1. chain'.nodes[i].cumulative_work = Work(i)
        BY <1>2, <1>3, <3>1 DEF Work
      <4>2. Work(i) < Work(tip) \/ Work(i) = Work(tip)
        BY <1>3, <3>1 DEF IInv, FirstSeenStrongest, tip
      <4>3. Work(i) \in Nat /\ Work(tip) \in Nat
        <5>1. \A k \in 1..n : chain.nodes[k] \in
                [parent_index : Nat, cumulative_work : Nat, state : ChainStates]
          BY ElementOfSeq DEF IInv, TypeOK
        <5>. QED  BY <1>3, <2>3, <3>1, <5>1 DEF Work
      <4>. QED  BY <2>4, <4>1, <4>2, <4>3
    <3>2. CASE i = n + 1
      BY <1>3, <2>4, <3>2
    <3>3. i \in 1..n \/ i = n + 1
      BY <1>3
    <3>. QED  BY <3>1, <3>2, <3>3
  <2>6. chain'.nodes[n + 1].cumulative_work = w
    BY <2>4
  <2>. QED  BY <1>3, <2>1, <2>5, <2>6 DEF FirstSeenStrongest, Work
<1>. QED  BY <1>2, <1>6, <1>7, <1>8 DEF IInv

(***************************************************************************)
(* For every set of blocks offered in every order, append() keeps the      *)
(* accounts within 64 bits, the stored blocks a tree, the active chain one *)
(* of its branches, and its tip the first seen of the strongest blocks.    *)
(***************************************************************************)
THEOREM ForkChoiceSafe ==
  Spec => [](TypeOK /\ TreeConsistent /\ ActiveChainIsBranch
             /\ FirstSeenStrongest)
<1>1. Init => IInv
  BY InitInvariant
<1>2. IInv /\ [Next]_vars => IInv'
  <2>. SUFFICES ASSUME IInv, [Next]_vars PROVE IInv'
    OBVIOUS
  <2>1. CASE UNCHANGED vars
    BY <2>1, SameChain DEF vars
  <2>2. ASSUME NEW b \in Block, Offer(b) PROVE IInv'
    <3>1. chain' = AppendBlock(chain, b).chain
      BY <2>2 DEF Offer
    <3>2. CASE AppendError(chain, b) # "none"
      <4>1. chain' = chain
        BY <3>1, <3>2 DEF AppendBlock
      <4>. QED  BY <4>1, SameChain
    <3>3. CASE AppendError(chain, b) = "none" /\ ~Stronger(chain, b)
      <4>1. chain' = Store(chain, b)
        BY <3>1, <3>3 DEF AppendBlock
      <4>. QED  BY <3>3, <4>1, StoredOnly
    <3>4. CASE AppendError(chain, b) = "none" /\ Stronger(chain, b)
      <4>1. chain' = Activate(Store(chain, b))
        BY <3>1, <3>4 DEF AppendBlock
      <4>. QED  BY <3>4, <4>1, Activated
    <3>. QED  BY <3>2, <3>3, <3>4
  <2>. QED  BY <2>1, <2>2 DEF Next
<1>3. IInv => TypeOK /\ TreeConsistent /\ ActiveChainIsBranch
                /\ FirstSeenStrongest
  BY DEF IInv
<1>. QED  BY <1>1, <1>2, <1>3, PTL DEF Spec

=============================================================================
