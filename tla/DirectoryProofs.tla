---------------------------- MODULE DirectoryProofs ----------------------------
(***************************************************************************)
(* Proofs about the chain store of a data directory (modules ChainStore    *)
(* and DataDirectory), for any blocks, any processes and any number of     *)
(* records.                                                                *)
(***************************************************************************)
EXTENDS DataDirectory, SetInduction, SequenceTheorems

--------------------------------------------------------------------------------
(* Sequences of anything: the blocks are those of any peer or user.        *)

IsSeq(s) == Len(s) \in Nat /\ s = [i \in 1..Len(s) |-> s[i]]

(* The empty sequence and the one of a single record.                      *)
LEMMA SeqShort ==
  /\ IsSeq(<< >>) /\ Len(<< >>) = 0
  /\ \A e : IsSeq(<<e>>) /\ Len(<<e>>) = 1 /\ <<e>>[1] = e
BY DEF IsSeq

(* A record appended, and taken back.                                      *)
LEMMA SeqAppend ==
  ASSUME NEW s, IsSeq(s), NEW e
  PROVE  /\ IsSeq(Append(s, e))
         /\ Len(Append(s, e)) = Len(s) + 1
         /\ Append(s, e)[Len(s) + 1] = e
         /\ \A i \in 1..Len(s) : Append(s, e)[i] = s[i]
         /\ SubSeq(Append(s, e), 1, Len(s)) = s
<1> DEFINE R == {s[i] : i \in 1..Len(s)} \cup {e}
<1>1. s \in Seq(R)
  BY DEF IsSeq
<1> HIDE DEF R
<1>2. e \in R
  BY DEF R
<1> DEFINE t == Append(s, e)
<1>3. t \in Seq(R)
  BY <1>1, <1>2
<1>4. Len(t) = Len(s) + 1 /\ t[Len(s) + 1] = e /\ \A i \in 1..Len(s) : t[i] = s[i]
  BY <1>1, <1>2
<1> HIDE DEF t
<1>5. SubSeq(t, 1, Len(s)) = s
  BY <1>1, <1>3, <1>4
<1>6. IsSeq(t)
  BY <1>3 DEF IsSeq
<1> QED
  BY <1>4, <1>5, <1>6 DEF t

(* A file without its last record.                                         *)
LEMMA SeqFront ==
  ASSUME NEW s, IsSeq(s), Len(s) > 0
  PROVE  LET t == SubSeq(s, 1, Len(s) - 1) IN
         /\ IsSeq(t)
         /\ Len(t) = Len(s) - 1
         /\ \A i \in 1..Len(t) : t[i] = s[i]
         /\ s = Append(t, s[Len(s)])
<1> DEFINE R == {s[i] : i \in 1..Len(s)}
           t == SubSeq(s, 1, Len(s) - 1)
<1>1. s \in Seq(R) /\ s[Len(s)] \in R
  BY DEF IsSeq
<1> HIDE DEF R
<1>2. t \in Seq(R) /\ Len(t) = Len(s) - 1 /\ \A i \in 1..Len(t) : t[i] = s[i]
  <2> DEFINE k == Len(s) - 1
  <2>1. k \in Nat /\ 1 \in Int /\ k \in Int /\ \A i \in 1..k : s[i] \in R
    BY <1>1
  <2> HIDE DEF k
  <2>2. /\ SubSeq(s, 1, k) \in Seq(R)
        /\ Len(SubSeq(s, 1, k)) = IF 1 <= k THEN k - 1 + 1 ELSE 0
        /\ \A i \in 1..(k - 1 + 1) : SubSeq(s, 1, k)[i] = s[1 + i - 1]
    BY <2>1, SubSeqProperties
  <2>3. Len(SubSeq(s, 1, k)) = k
    BY <2>1, <2>2
  <2>4. \A i \in 1..k : i \in 1..(k - 1 + 1) /\ 1 + i - 1 = i
    BY <2>1
  <2>5. \A i \in 1..k : SubSeq(s, 1, k)[i] = s[i]
    BY <2>2, <2>4
  <2> QED
    BY <2>2, <2>3, <2>5 DEF k
<1> HIDE DEF t
<1>3. s = Append(t, s[Len(s)])
  BY <1>1, <1>2
<1>4. IsSeq(t)
  BY <1>2 DEF IsSeq
<1> QED
  BY <1>2, <1>3, <1>4 DEF t

--------------------------------------------------------------------------------
(* The scan of open().                                                     *)

(* What the scan begins with.                                              *)
ReplayStart(records) ==
  [error |-> IF Len(records) = 0 THEN "invalid_genesis_record" ELSE "none",
   chain |-> NewBlockchain]

IsReplay(f, records) ==
  /\ f = [i \in 0..Len(records) |-> f[i]]
  /\ f[0] = ReplayStart(records)
  /\ \A i \in 1..Len(records) : f[i] = ReplayRecord(f[i - 1], records[i], i)

(* The scan goes through the records one after the other.                  *)
LEMMA ReplayUnfolds ==
  ASSUME NEW records, Len(records) \in Nat
  PROVE  \E f : IsReplay(f, records) /\ Replay(records) = f[Len(records)]
<1> DEFINE n == Len(records)
           Body(f, i) == IF i = 0 THEN ReplayStart(records)
                         ELSE ReplayRecord(f[i - 1], records[i], i)
           replay == CHOOSE f : f = [i \in 0..n |-> Body(f, i)]
           S == {m \in Nat : \E f : /\ f = [i \in 0..m |-> f[i]]
                                    /\ \A i \in 0..m : f[i] = Body(f, i)}
<1>1. n \in S
  <2>1. 0 \in S
    <3> DEFINE f == [i \in 0..0 |-> ReplayStart(records)]
    <3>1. f = [i \in 0..0 |-> f[i]] /\ \A i \in 0..0 : f[i] = Body(f, i)
      OBVIOUS
    <3> QED
      BY <3>1
  <2>2. ASSUME NEW m \in Nat, m \in S PROVE m + 1 \in S
    <3>1. PICK f : /\ f = [i \in 0..m |-> f[i]]
                   /\ \A i \in 0..m : f[i] = Body(f, i)
      BY <2>2
    <3> DEFINE g == [i \in 0..(m + 1) |-> IF i <= m THEN f[i] ELSE Body(f, m + 1)]
    <3>2. g = [i \in 0..(m + 1) |-> g[i]]
      OBVIOUS
    <3>3. ASSUME NEW i \in 0..(m + 1) PROVE g[i] = Body(g, i)
      <4>1. g[i] = Body(f, i)
        <5> HIDE DEF Body
        <5>1. CASE i <= m
          BY <3>1, <5>1
        <5>2. CASE i = m + 1
          BY <5>2
        <5> QED
          BY <5>1, <5>2
      <4>2. i # 0 => g[i - 1] = f[i - 1]
        <5> HIDE DEF Body
        <5> QED
          OBVIOUS
      <4>3. Body(g, i) = Body(f, i)
        <5> HIDE DEF g
        <5> QED
          BY <4>2
      <4> QED
        BY <4>1, <4>3
    <3> HIDE DEF g, Body
    <3>4. \E h : /\ h = [i \in 0..(m + 1) |-> h[i]]
                 /\ \A i \in 0..(m + 1) : h[i] = Body(h, i)
      BY <3>2, <3>3
    <3> QED
      BY <3>4
  <2> HIDE DEF S
  <2> QED
    BY <2>1, <2>2, InductionOnSet
<1>2. replay = [i \in 0..n |-> Body(replay, i)]
  <2>1. PICK f : /\ f = [i \in 0..n |-> f[i]]
                 /\ \A i \in 0..n : f[i] = Body(f, i)
    BY <1>1
  <2> HIDE DEF Body
  <2>2. f = [i \in 0..n |-> Body(f, i)]
    BY <2>1
  <2> QED
    BY <2>2, SMTT(30)
<1>3. Replay(records) = replay[n]
  BY DEF Replay, ReplayStart, replay
<1> HIDE DEF replay
<1>4. IsReplay(replay, records)
  BY <1>2 DEF IsReplay
<1> QED
  BY <1>3, <1>4

(* A record more is one step more of the scan.                             *)
LEMMA ReplayOfAppend ==
  ASSUME NEW records, IsSeq(records), Len(records) > 0, NEW r
  PROVE  Replay(Append(records, r)) =
           ReplayRecord(Replay(records), r, Len(records) + 1)
<1> DEFINE n == Len(records)
           more == Append(records, r)
<1>1. n \in Nat /\ n > 0 /\ Len(more) = n + 1 /\ more[n + 1] = r
      /\ \A i \in 1..n : more[i] = records[i]
  BY SeqAppend DEF IsSeq
<1>2. PICK f : IsReplay(f, records) /\ Replay(records) = f[n]
  BY <1>1, ReplayUnfolds
<1> HIDE DEF more, n
<1>3. PICK g : IsReplay(g, more) /\ Replay(more) = g[n + 1]
  <2>1. Len(more) \in Nat
    BY <1>1
  <2> QED
    BY <1>1, <2>1, ReplayUnfolds
<1> DEFINE S == {m \in Nat : m <= n => g[m] = f[m]}
<1>4. \A m \in Nat : m \in S
  <2>1. 0 \in S
    BY <1>1, <1>2, <1>3 DEF IsReplay, ReplayStart, n
  <2>2. ASSUME NEW m \in Nat, m \in S PROVE m + 1 \in S
    <3> SUFFICES ASSUME m + 1 <= n PROVE g[m + 1] = f[m + 1]
      OBVIOUS
    <3>1. f[m + 1] = ReplayRecord(f[m], records[m + 1], m + 1)
      BY <1>1, <1>2 DEF IsReplay, n
    <3>2. g[m + 1] = ReplayRecord(g[m], more[m + 1], m + 1)
      BY <1>1, <1>3 DEF IsReplay
    <3>3. g[m] = f[m] /\ more[m + 1] = records[m + 1]
      BY <1>1, <2>2
    <3> QED
      BY <3>1, <3>2, <3>3
  <2> HIDE DEF S
  <2> QED
    BY <2>1, <2>2, InductionOnSet
<1>5. g[n] = f[n]
  BY <1>1, <1>4
<1>6. g[n + 1] = ReplayRecord(g[n], more[n + 1], n + 1)
  <2>1. n + 1 \in 1..Len(more) /\ n + 1 - 1 = n
    BY <1>1, SMTT(30)
  <2> QED
    BY <1>3, <2>1 DEF IsReplay
<1> QED
  BY <1>1, <1>2, <1>3, <1>5, <1>6 DEF more, n

(* append() leaves a chain with one block more.                            *)
LEMMA AppendStores ==
  ASSUME NEW c, NEW b, AppendError(c, b) = "none"
  PROVE  /\ AppendBlock(c, b).chain.stored = Append(c.stored, b)
         /\ AppendBlock(c, b).result.error = "none"
BY DEF AppendBlock, Store, Activate, Reported, Unchanged

(* AppendBlock reports the error that AppendError finds.                   *)
LEMMA AppendResultError ==
  ASSUME NEW c, NEW b
  PROVE  AppendBlock(c, b).result.error = AppendError(c, b)
BY DEF AppendBlock, Reported, Unchanged

(* A later record that the scan takes is whole, and its block is appended. *)
LEMMA ReplayRecordWhole ==
  ASSUME NEW before, NEW record, NEW i, i # 1,
         ReplayRecord(before, record, i).error = "none"
  PROVE  /\ before.error = "none" /\ ~record.torn
         /\ AppendBlock(before.chain, record.block).result.error = "none"
         /\ ReplayRecord(before, record, i).chain = AppendBlock(before.chain, record.block).chain
BY DEF ReplayRecord

(* A scan without an error has found whole records only, and stored their  *)
(* blocks in their order.                                                  *)
LEMMA ReplayStores ==
  ASSUME NEW records, Len(records) \in Nat, Replay(records).error = "none"
  PROVE  LET stored == Replay(records).chain.stored IN
         /\ IsSeq(stored)
         /\ Len(records) > 0 /\ Len(stored) = Len(records)
         /\ \A i \in 1..Len(records) : records[i].block = stored[i] /\ ~records[i].torn
<1> DEFINE n == Len(records)
           Stored(c, m) == /\ IsSeq(c.stored) /\ Len(c.stored) = m
                           /\ \A i \in 1..m : records[i].block = c.stored[i] /\ ~records[i].torn
<1>1. PICK f : IsReplay(f, records) /\ Replay(records) = f[n]
  BY ReplayUnfolds
<1>2. n > 0
  BY <1>1 DEF IsReplay, ReplayStart
<1> DEFINE S == {m \in Nat : m + 1 <= n /\ f[m + 1].error = "none" => Stored(f[m + 1].chain, m + 1)}
<1>3. \A m \in Nat : m \in S
  <2>1. 0 \in S
    <3> SUFFICES ASSUME f[1].error = "none" PROVE Stored(f[1].chain, 1)
      OBVIOUS
    <3>1. f[1] = ReplayRecord(f[0], records[1], 1)
      BY <1>1, <1>2, SMTT(30) DEF IsReplay
    <3>2. f[0].error = "none" /\ f[0].chain = NewBlockchain
      BY <1>1, <1>2 DEF IsReplay, ReplayStart
    <3>3. ~records[1].torn /\ records[1].block = GenesisBlock /\ f[1].chain = NewBlockchain
      BY <3>1, <3>2 DEF ReplayRecord
    <3> QED
      BY <3>3, SeqShort DEF NewBlockchain
  <2>2. ASSUME NEW m \in Nat, m \in S PROVE m + 1 \in S
    <3> SUFFICES ASSUME m + 2 <= n, f[m + 2].error = "none"
                 PROVE  Stored(f[m + 2].chain, m + 2)
      OBVIOUS
    <3> DEFINE c == f[m + 1].chain
               b == records[m + 2].block
    <3>1. f[m + 2] = ReplayRecord(f[m + 1], records[m + 2], m + 2)
      <4>1. m + 2 \in 1..n /\ (m + 2) - 1 = m + 1
        OBVIOUS
      <4> QED
        BY <1>1, <4>1 DEF IsReplay
    <3>0. m + 2 # 1 /\ m + 1 <= n
      OBVIOUS
    <3> HIDE DEF S, n
    <3>2. /\ f[m + 1].error = "none" /\ ~records[m + 2].torn
          /\ AppendBlock(c, b).result.error = "none"
          /\ f[m + 2].chain = AppendBlock(c, b).chain
      BY <3>0, <3>1, ReplayRecordWhole, SMTT(30)
    <3>3. Stored(c, m + 1)
      BY <2>2, <3>0, <3>2, SMTT(30) DEF S
    <3> HIDE DEF c, b
    <3>4. f[m + 2].chain.stored = Append(c.stored, b)
      <4>1. AppendError(c, b) = "none"
        BY <3>2, AppendResultError
      <4> QED
        BY <3>2, <4>1, AppendStores
    <3> DEFINE t == f[m + 2].chain.stored
    <3>5. /\ IsSeq(t) /\ Len(t) = (m + 1) + 1 /\ t[(m + 1) + 1] = b
          /\ \A i \in 1..(m + 1) : t[i] = c.stored[i]
      BY <3>3, <3>4, SeqAppend
    <3> HIDE DEF t
    <3>6. \A i \in 1..(m + 2) : i \in 1..(m + 1) \/ i = m + 2
      OBVIOUS
    <3>7. \A i \in 1..(m + 2) : records[i].block = t[i] /\ ~records[i].torn
      BY <3>2, <3>3, <3>5, <3>6, SMTT(30) DEF b
    <3> QED
      BY <3>5, <3>7 DEF t
  <2> HIDE DEF S
  <2> QED
    BY <2>1, <2>2, InductionOnSet
<1>4. PICK m \in Nat : n = m + 1
  <2>1. n - 1 \in Nat /\ n = n - 1 + 1
    BY <1>2
  <2> QED
    BY <2>1
<1> HIDE DEF n
<1>5. Stored(f[n].chain, n)
  <2>1. m \in S
    BY <1>3
  <2>2. m + 1 <= n /\ f[m + 1].error = "none"
    BY <1>1, <1>4
  <2> QED
    BY <1>4, <2>1, <2>2
<1> QED
  BY <1>1, <1>2, <1>5 DEF n

--------------------------------------------------------------------------------
(* The chain store.                                                        *)

(* The file is a sequence of records, and those of the store in memory are *)
(* whole records of it.                                                    *)
OnFile ==
    /\ IsSeq(file)
    /\ \A i \in 1..Len(file) : \E b : file[i] \in {Whole(b), Torn(b)}
    /\ IsSeq(store.chain.stored) /\ IsSeq(store.records)
    /\ Len(store.records) = Len(store.chain.stored)
    /\ \A i \in 1..Len(store.chain.stored) :
         /\ store.records[i] \in 1..Len(file)
         /\ file[store.records[i]] = Whole(store.chain.stored[i])

(* An append that waits for the database has put its block at the end of   *)
(* the file, behind everything that the store in memory refers to.         *)
Waiting(b) ==
    /\ Len(file) > 0 /\ file[Len(file)] = Whole(b)
    /\ AppendError(store.chain, b) = "none"
    /\ next.chain = AppendBlock(store.chain, b).chain
    /\ next.records = Append(store.records, Len(file))
    /\ \A i \in 1..Len(store.chain.stored) : store.records[i] \in 1..(Len(file) - 1)

(* Where truncations succeed, a scan of the file, without the record of an *)
(* append that waits, gives the chain in memory.                           *)
Replays(records) ==
    /\ Len(records) > 0
    /\ Replay(records).error = "none"
    /\ Replay(records).chain = store.chain

StoreInv ==
    /\ OnFile
    /\ pc \in {"down", "creating", "idle", "written"}
    /\ pc # "down" => exists
    /\ ~exists \/ pc = "creating" => store = NoStore
    /\ pc \in {"idle", "written"} => database = store
    /\ pc = "idle" => (reliable => Replays(file))
    /\ pc = "written" =>
         /\ \E b : Waiting(b)
         /\ reliable => Replays(SubSeq(file, 1, Len(file) - 1))

(* A directory without files.                                              *)
LEMMA StoreInit == Init => StoreInv
BY SeqShort DEF Init, StoreInv, OnFile, NoStore

(* Genesis is written where no block has been acknowledged.                *)
LEMMA StoreInitialize == StoreInv /\ Initialize => StoreInv'
<1> SUFFICES ASSUME StoreInv, Initialize PROVE StoreInv'
  OBVIOUS
<1>1. store = NoStore /\ UNCHANGED store
  BY DEF StoreInv, Initialize
<1>2. /\ IsSeq(file')
      /\ \A i \in 1..Len(file') : file'[i] \in {Whole(GenesisBlock), Torn(GenesisBlock)}
  BY SeqShort DEF Initialize
<1>3. OnFile'
  BY <1>1, <1>2, SeqShort DEF OnFile, NoStore
<1> QED
  BY <1>1, <1>3 DEF StoreInv, Initialize

(* What a scan without an error publishes is on the file, record by record. *)
LEMMA StoreOpen == StoreInv /\ Open => StoreInv'
<1> SUFFICES ASSUME StoreInv, Open PROVE StoreInv'
  OBVIOUS
<1> DEFINE n == Len(file)
           stored == Replay(file).chain.stored
           places == [i \in 1..n |-> i]
<1>1. IsSeq(file) /\ n \in Nat /\ \A i \in 1..n : \E b : file[i] \in {Whole(b), Torn(b)}
  BY DEF StoreInv, OnFile, IsSeq
<1>2. Replay(file).error = "none"
  BY DEF Open
<1>3. /\ IsSeq(stored) /\ n > 0 /\ Len(stored) = n
      /\ \A i \in 1..n : file[i].block = stored[i] /\ ~file[i].torn
  BY <1>1, <1>2, ReplayStores
<1>4. \A i \in 1..n : file[i] = Whole(stored[i])
  <2> SUFFICES ASSUME NEW i \in 1..n PROVE file[i] = Whole(stored[i])
    OBVIOUS
  <2>1. PICK b : file[i] \in {Whole(b), Torn(b)}
    BY <1>1
  <2>2. Torn(b).torn /\ Whole(b).block = b
    BY DEF Torn, Whole
  <2>3. file[i] = Whole(b) /\ stored[i] = b
    BY <1>3, <2>1, <2>2
  <2> QED
    BY <2>3
<1>5. IsSeq(places) /\ Len(places) = n /\ \A i \in 1..n : places[i] = i
  BY <1>1 DEF IsSeq
<1>6. store'.chain = Replay(file).chain /\ store'.records = places /\ UNCHANGED file
  BY DEF Open, Opened
<1> HIDE DEF n, stored, places
<1>7. OnFile'
  BY <1>1, <1>3, <1>4, <1>5, <1>6, SMTT(30) DEF OnFile, n, stored
<1>8. Replays(file)'
  BY <1>2, <1>3, <1>6, SMTT(30) DEF Replays, n
<1> QED
  BY <1>7, <1>8 DEF StoreInv, Open

(* A record more, whole or torn, moves none that the store refers to.      *)
LEMMA OnFileAppend ==
  ASSUME OnFile, NEW b, file' \in {Append(file, Whole(b)), Append(file, Torn(b))},
         UNCHANGED store
  PROVE  OnFile'
<1>1. PICK r \in {Whole(b), Torn(b)} : file' = Append(file, r)
  OBVIOUS
<1>2. /\ IsSeq(file) /\ IsSeq(file') /\ Len(file') = Len(file) + 1 /\ Len(file) \in Nat
      /\ file'[Len(file) + 1] = r /\ \A i \in 1..Len(file) : file'[i] = file[i]
  BY <1>1, SeqAppend, SMTT(30) DEF OnFile, IsSeq
<1>3. \A i \in 1..Len(file') : \E c : file'[i] \in {Whole(c), Torn(c)}
  <2> SUFFICES ASSUME NEW i \in 1..Len(file')
               PROVE  \E c : file'[i] \in {Whole(c), Torn(c)}
    OBVIOUS
  <2>1. CASE i \in 1..Len(file)
    BY <1>2, <2>1 DEF OnFile
  <2>2. CASE i = Len(file) + 1
    BY <1>1, <1>2, <2>2
  <2> QED
    BY <1>2, <2>1, <2>2
<1>4. \A i \in 1..Len(store.chain.stored) :
        /\ store.records[i] \in 1..Len(file')
        /\ file'[store.records[i]] = Whole(store.chain.stored[i])
  BY <1>2, SMTT(30) DEF OnFile
<1> QED
  BY <1>2, <1>3, <1>4 DEF OnFile

(* append() writes its record at the end of the file.                      *)
LEMMA StoreWrite == ASSUME StoreInv, NEW b, WriteRecord(b) PROVE StoreInv'
<1>1. pc = "idle" /\ AppendError(store.chain, b) = "none"
  BY DEF WriteRecord, Writable
<1>2. OnFile /\ IsSeq(file) /\ Len(file) \in Nat
  BY DEF StoreInv, OnFile, IsSeq
<1>3. file' = Append(file, Whole(b)) /\ next' = Appended(b) /\ pc' = "written"
      /\ UNCHANGED << reliable, exists, database, store >>
  BY DEF WriteRecord
<1>4. OnFile'
  BY <1>2, <1>3, OnFileAppend
<1>5. /\ Len(file') = Len(file) + 1 /\ file'[Len(file) + 1] = Whole(b)
      /\ Len(file') - 1 = Len(file)
      /\ SubSeq(file', 1, Len(file)) = file
  BY <1>2, <1>3, SeqAppend
<1>6. Waiting(b)'
  <2>1. \A i \in 1..Len(store.chain.stored) : store.records[i] \in 1..Len(file)
    BY <1>2 DEF OnFile
  <2>2. /\ next'.chain = AppendBlock(store.chain, b).chain
        /\ next'.records = Append(store.records, Len(file'))
    BY <1>3, <1>5 DEF Appended
  <2>3. Len(file') > 0 /\ file'[Len(file')] = Whole(b)
    BY <1>2, <1>5
  <2> QED
    BY <1>1, <1>3, <1>5, <2>1, <2>2, <2>3, SMTT(30) DEF Waiting
<1>7. reliable => Replays(SubSeq(file, 1, Len(file) - 1))'
  BY <1>1, <1>3, <1>5 DEF StoreInv, Replays
<1>8. exists /\ database = store
  BY <1>1 DEF StoreInv
<1> QED
  BY <1>3, <1>4, <1>6, <1>7, <1>8 DEF StoreInv

(* A write that fails, or that a kill interrupts.                          *)
LEMMA StoreWriteFails ==
  ASSUME StoreInv, NEW b, WriteFails(b) \/ CrashWriting(b)
  PROVE  StoreInv'
<1>1. pc = "idle" /\ OnFile /\ exists /\ database = store /\ (reliable => Replays(file))
  BY DEF WriteFails, CrashWriting, Writable, StoreInv
<1>2. UNCHANGED << reliable, exists, database, store >> /\ pc' \in {"idle", "down"}
  BY <1>1 DEF WriteFails, CrashWriting
<1>3. CASE file' = file
  <2>1. OnFile' /\ (Replays(file) => Replays(file)')
    BY <1>1, <1>2, <1>3 DEF OnFile, Replays
  <2> QED
    BY <1>1, <1>2, <2>1 DEF StoreInv
<1>4. CASE file' # file
  <2>1. file' \in {Append(file, Whole(b)), Append(file, Torn(b))}
    BY <1>4 DEF WriteFails, CrashWriting
  <2>2. OnFile'
    BY <1>1, <1>2, <2>1, OnFileAppend
  <2>3. ~reliable \/ pc' = "down"
    BY <1>4 DEF WriteFails, CrashWriting
  <2> QED
    BY <1>1, <1>2, <2>2, <2>3 DEF StoreInv
<1> QED
  BY <1>3, <1>4

(* The new store is published, with the place of its record.               *)
LEMMA StoreCommit == StoreInv /\ Commit => StoreInv'
<1> SUFFICES ASSUME StoreInv, Commit PROVE StoreInv'
  OBVIOUS
<1>1. PICK b : Waiting(b)
  BY DEF StoreInv, Commit
<1> DEFINE n == Len(file)
           old == store.chain.stored
<1>2. /\ IsSeq(file) /\ IsSeq(old) /\ IsSeq(store.records) /\ n \in Nat
      /\ Len(store.records) = Len(old) /\ Len(old) \in Nat
  BY SMTT(30) DEF StoreInv, OnFile, IsSeq
<1>3. /\ store'.chain.stored = Append(old, b) /\ store'.records = Append(store.records, n)
      /\ UNCHANGED << file, reliable, exists >>
      /\ store'.chain = AppendBlock(store.chain, b).chain
      /\ database' = store' /\ pc' = "idle" /\ exists
  <2>1. /\ store' = next /\ database' = next /\ pc' = "idle"
        /\ UNCHANGED << file, reliable, exists >>
    BY DEF Commit
  <2>2. exists
    BY DEF StoreInv, Commit
  <2>3. /\ next.chain = AppendBlock(store.chain, b).chain
        /\ next.records = Append(store.records, n)
        /\ AppendError(store.chain, b) = "none"
    BY <1>1 DEF Waiting
  <2>4. AppendBlock(store.chain, b).chain.stored = Append(old, b)
    BY <2>3, AppendStores
  <2> QED
    BY <2>1, <2>2, <2>3, <2>4, Zenon
<1> HIDE DEF n
<1>4. /\ IsSeq(store'.chain.stored) /\ IsSeq(store'.records)
      /\ Len(store'.chain.stored) = Len(old) + 1 /\ Len(store'.records) = Len(old) + 1
      /\ store'.chain.stored[Len(old) + 1] = b /\ store'.records[Len(old) + 1] = n
      /\ \A i \in 1..Len(old) : /\ store'.chain.stored[i] = old[i]
                               /\ store'.records[i] = store.records[i]
  <2>1. /\ IsSeq(store'.chain.stored) /\ Len(store'.chain.stored) = Len(old) + 1
        /\ store'.chain.stored[Len(old) + 1] = b
        /\ \A i \in 1..Len(old) : store'.chain.stored[i] = old[i]
    <3>1. IsSeq(old) /\ store'.chain.stored = Append(old, b)
      BY <1>2, <1>3
    <3> HIDE DEF old
    <3> QED
      BY <3>1, SeqAppend
  <2>2. /\ IsSeq(store'.records) /\ Len(store'.records) = Len(store.records) + 1
        /\ store'.records[Len(store.records) + 1] = n
        /\ \A i \in 1..Len(store.records) : store'.records[i] = store.records[i]
    <3>1. IsSeq(store.records) /\ store'.records = Append(store.records, n)
      BY <1>2, <1>3
    <3> QED
      BY <3>1, SeqAppend
  <2> HIDE DEF old
  <2> QED
    BY <1>2, <2>1, <2>2
<1>5. n > 0 /\ file[n] = Whole(b)
  BY <1>1 DEF Waiting, n
<1>6. \A i \in 1..Len(old) : store.records[i] \in 1..n /\ file[store.records[i]] = Whole(old[i])
  BY DEF StoreInv, OnFile, n
<1>7. \A i \in 1..(Len(old) + 1) :
        store'.records[i] \in 1..n /\ file[store'.records[i]] = Whole(store'.chain.stored[i])
  <2> SUFFICES ASSUME NEW i \in 1..(Len(old) + 1)
               PROVE  /\ store'.records[i] \in 1..n
                      /\ file[store'.records[i]] = Whole(store'.chain.stored[i])
    OBVIOUS
  <2> HIDE DEF old
  <2>1. CASE i \in 1..Len(old)
    BY <1>4, <1>6, <2>1, SMTT(30)
  <2>2. CASE i = Len(old) + 1
    BY <1>2, <1>4, <1>5, <2>2, SMTT(30)
  <2> QED
    BY <1>2, <2>1, <2>2
<1>8. OnFile'
  BY <1>2, <1>3, <1>4, <1>7 DEF StoreInv, OnFile, n
<1>9. reliable => Replays(file)'
  <2> SUFFICES ASSUME reliable PROVE Replays(file)'
    OBVIOUS
  <2> DEFINE front == SubSeq(file, 1, n - 1)
  <2>1. Replays(front)
    BY DEF StoreInv, Commit, n
  <2>2. IsSeq(front) /\ Len(front) = n - 1 /\ file = Append(front, Whole(b))
    BY <1>2, <1>5, SeqFront DEF n
  <2> HIDE DEF front
  <2>3. Replay(file) = ReplayRecord(Replay(front), Whole(b), Len(front) + 1)
    BY <2>1, <2>2, ReplayOfAppend, SMTT(30) DEF Replays
  <2>4. /\ Len(front) + 1 # 1 /\ Whole(b).block = b /\ ~Whole(b).torn
        /\ AppendBlock(store.chain, b).result.error = "none"
    <3>1. AppendError(store.chain, b) = "none"
      BY <1>1 DEF Waiting
    <3>2. AppendBlock(store.chain, b).result.error = "none"
      BY <3>1, AppendStores
    <3>3. Len(front) > 0 /\ Len(front) \in Nat
      BY <2>1, <2>2 DEF Replays, IsSeq
    <3>4. Whole(b).block = b /\ ~Whole(b).torn
      BY DEF Whole
    <3> QED
      BY <3>2, <3>3, <3>4
  <2>5. Replay(file).error = "none" /\ Replay(file).chain = AppendBlock(store.chain, b).chain
    BY <2>1, <2>3, <2>4 DEF Replays, ReplayRecord
  <2> QED
    BY <1>3, <1>5, <2>5 DEF Replays, n
<1> QED
  BY <1>3, <1>8, <1>9 DEF StoreInv

(* The record of a failed append is taken back, or stays where resize_file() *)
(* fails; nothing before it is touched.                                    *)
LEMMA StoreRebuildFails == StoreInv /\ RebuildFails => StoreInv'
<1> SUFFICES ASSUME StoreInv, RebuildFails PROVE StoreInv'
  OBVIOUS
<1>1. PICK b : Waiting(b)
  BY DEF StoreInv, RebuildFails
<1> DEFINE n == Len(file)
           front == SubSeq(file, 1, n - 1)
<1>2. OnFile /\ IsSeq(file) /\ n \in Nat /\ n > 0 /\ exists
  BY <1>1 DEF StoreInv, OnFile, IsSeq, RebuildFails, Waiting
<1>3. IsSeq(front) /\ Len(front) = n - 1 /\ \A i \in 1..Len(front) : front[i] = file[i]
  BY <1>2, SeqFront
<1>4. UNCHANGED << reliable, exists, database, store >> /\ pc' = "idle"
  BY DEF RebuildFails
<1>5. database = store /\ (reliable => Replays(front))
  BY DEF StoreInv, RebuildFails
<1>6. file' = front \/ (~reliable /\ file' = file)
  BY DEF RebuildFails
<1>7. \A i \in 1..Len(store.chain.stored) : store.records[i] \in 1..(n - 1)
  BY <1>1 DEF Waiting
<1> HIDE DEF front
<1>8. CASE file' = front
  <2>1. \A i \in 1..Len(front) : \E c : front[i] \in {Whole(c), Torn(c)}
    BY <1>2, <1>3 DEF OnFile
  <2>2. \A i \in 1..Len(store.chain.stored) : front[store.records[i]] = Whole(store.chain.stored[i])
    BY <1>2, <1>3, <1>7 DEF OnFile
  <2>3. OnFile'
    BY <1>2, <1>3, <1>4, <1>7, <1>8, <2>1, <2>2 DEF OnFile
  <2>4. Replays(front) => Replays(file)'
    BY <1>4, <1>8 DEF Replays
  <2> QED
    BY <1>2, <1>4, <1>5, <2>3, <2>4, SMTT(30) DEF StoreInv
<1>9. CASE ~reliable /\ file' = file
  <2>1. OnFile'
    BY <1>2, <1>4, <1>9 DEF OnFile
  <2> QED
    BY <1>2, <1>4, <1>5, <1>9, <2>1 DEF StoreInv
<1> QED
  BY <1>6, <1>8, <1>9

(* A death of the process forgets only what no one was told of.            *)
LEMMA StoreCrash == StoreInv /\ Crash => StoreInv'
<1> SUFFICES ASSUME StoreInv, Crash PROVE StoreInv'
  OBVIOUS
<1>1. OnFile'
  BY DEF StoreInv, Crash, OnFile
<1> QED
  BY <1>1 DEF StoreInv, Crash

(* An open() that fails; initialize() removes the files it created.        *)
LEMMA StoreOpenFails == StoreInv /\ OpenFails => StoreInv'
<1> SUFFICES ASSUME StoreInv, OpenFails PROVE StoreInv'
  OBVIOUS
<1>1. CASE pc = "down"
  <2>1. OnFile'
    BY <1>1 DEF StoreInv, OpenFails, OnFile
  <2> QED
    BY <1>1, <2>1 DEF StoreInv, OpenFails
<1>2. CASE pc = "creating"
  <2>1. store = NoStore /\ file' = << >> /\ UNCHANGED store
    BY <1>2 DEF StoreInv, OpenFails
  <2>2. OnFile'
    BY <2>1, SeqShort DEF OnFile, NoStore
  <2> QED
    BY <1>2, <2>1, <2>2 DEF StoreInv, OpenFails
<1> QED
  BY <1>1, <1>2 DEF OpenFails

(* A step that leaves the chain store alone.                               *)
LEMMA StoreStutter == StoreInv /\ UNCHANGED vars => StoreInv'
<1> SUFFICES ASSUME StoreInv, UNCHANGED vars PROVE StoreInv'
  BY SMTT(30)
<1>1. OnFile' /\ (Replays(file) => Replays(file)')
  BY DEF StoreInv, OnFile, Replays, vars
<1>2. \A b : Waiting(b) => Waiting(b)'
  BY DEF Waiting, vars
<1>3. Replays(SubSeq(file, 1, Len(file) - 1)) => Replays(SubSeq(file, 1, Len(file) - 1))'
  BY DEF Replays, vars
<1> QED
  BY <1>1, <1>2, <1>3 DEF StoreInv, vars

(* Every step of a process on the data directory is one of these.          *)
LEMMA StoreStep == StoreInv /\ [DirectoryNext]_directoryVars => StoreInv'
<1> SUFFICES ASSUME StoreInv, [DirectoryNext]_directoryVars PROVE StoreInv'
  OBVIOUS
<1>1. CASE Ends
  BY <1>1, StoreCrash, StoreStutter DEF Ends
<1>2. CASE CreateChain
  BY <1>2, StoreInitialize DEF CreateChain
<1>3. CASE OpenChainFails
  BY <1>3, StoreOpenFails DEF OpenChainFails
<1>4. CASE InitChain \/ VerifyChain \/ NodeOpens \/ AddOpens \/ OpenStores \/ CandidateOpens
  BY <1>4, StoreOpen DEF InitChain, VerifyChain, NodeOpens, AddOpens, OpenStores,
                         CandidateOpens, Opens
<1>5. CASE \E b \in Given : StoreBlock(b) \/ StoreFails(b) \/ KillWriting(b)
  BY <1>5, StoreWrite, StoreWriteFails DEF StoreBlock, StoreFails, KillWriting
<1>6. CASE CommitBlock
  BY <1>6, StoreCommit DEF CommitBlock
<1>7. CASE CommitFails
  BY <1>7, StoreRebuildFails DEF CommitFails
<1>8. CASE UNCHANGED vars
  BY <1>8, StoreStutter, SMTT(30)
<1>9. ASSUME \/ \E kind \in workload.kinds : Begin(kind)
             \/ OpenMempool \/ ListPending \/ AddOpensMempool
             \/ Reconcile
             \/ \E tx \in workload.submissions : AddTransaction(tx)
             \/ SaveCandidate \/ Mine \/ Remove
      PROVE  UNCHANGED vars
  BY <1>9 DEF Begin, OpenMempool, ListPending, AddOpensMempool, OpensMempool, Reconcile,
              AddTransaction, SaveCandidate, Mine, Remove
<1> QED
  BY <1>1, <1>2, <1>3, <1>4, <1>5, <1>6, <1>7, <1>8, <1>9, SMTT(30) DEF DirectoryNext, directoryVars

(***************************************************************************)
(* BlockchainStore: whatever blocks are appended by whatever processes,    *)
(* whichever writes, flushes, truncations or rebuilds of the database fail *)
(* and wherever a process dies, a block that append() acknowledged is a    *)
(* whole record of blocks.dat at the place that the store remembers, and   *)
(* at rest the database and the memory of the process agree.               *)
(***************************************************************************)
THEOREM AcknowledgedOnFileHolds == DirectorySpec => []AcknowledgedOnFile
<1>1. DirectoryInit => StoreInv
  BY StoreInit DEF DirectoryInit
<1>2. StoreInv => AcknowledgedOnFile
  BY DEF StoreInv, OnFile, AcknowledgedOnFile
<1> QED
  BY <1>1, <1>2, StoreStep, PTL DEF DirectorySpec

(***************************************************************************)
(* BlockchainStore: where a truncation does not fail, the scan of the file *)
(* that the next open() makes succeeds at any time the store is at rest,   *)
(* and rebuilds the Blockchain in memory: same blocks, tip and states.     *)
(***************************************************************************)
THEOREM ReplayIsMemoryHolds == DirectorySpec => []ReplayIsMemory
<1>1. DirectoryInit => StoreInv
  BY StoreInit DEF DirectoryInit
<1>2. StoreInv => ReplayIsMemory
  BY DEF StoreInv, Replays, ReplayIsMemory
<1> QED
  BY <1>1, <1>2, StoreStep, PTL DEF DirectorySpec

--------------------------------------------------------------------------------
(* The mempool store of the process at work.                               *)

IsProcess(p) ==
    p = [kind |-> p.kind, at |-> p.at, pool |-> p.pool, previous |-> p.previous,
         detached |-> p.detached, maintained |-> p.maintained]

PendingStored == PoolOpen => process.pool.txs = rows

PoolInv == (process # None => IsProcess(process)) /\ PendingStored

(* A process that has only moved on keeps its pool.                        *)
LEMMA ProcessMoves ==
  ASSUME NEW p, NEW step, IsProcess(p)
  PROVE  LET q == [p EXCEPT !.at = step] IN
         IsProcess(q) /\ q.kind = p.kind /\ q.at = step /\ q.pool = p.pool
BY SMTT(30) DEF IsProcess

(* Every step keeps the pool of the process and the rows together.         *)
LEMMA PoolStep == PoolInv /\ [DirectoryNext]_directoryVars => PoolInv'
<1> SUFFICES ASSUME PoolInv, [DirectoryNext]_directoryVars PROVE PoolInv'
  OBVIOUS
<1> USE DEF PoolInv, PendingStored, PoolOpen, Running
<1>1. CASE process' = None
  BY <1>1
<1>2. CASE UNCHANGED << process, rows >>
  BY <1>2 DEF IsProcess
<1>3. CASE \E kind \in workload.kinds : Begin(kind)
  BY <1>3 DEF Begin, NewProcess, IsProcess
<1>4. CASE InitChain \/ VerifyChain \/ NodeOpens \/ AddOpens \/ OpenStores \/ CandidateOpens
  <2>1. PICK kinds, step : Opens(kinds, step) /\ step \in {"end", "mempool", "append"}
    BY <1>4 DEF InitChain, VerifyChain, NodeOpens, AddOpens, OpenStores, CandidateOpens
  <2> QED
    BY <2>1, ProcessMoves DEF Opens, Moved
<1>5. CASE OpenMempool \/ ListPending \/ AddOpensMempool
  <2>1. PICK kinds, state, step : OpensMempool(kinds, state, step)
    BY <1>5 DEF OpenMempool, ListPending, AddOpensMempool
  <2>2. /\ process # None /\ IsProcess(process) /\ rows' = Load(state).txs
        /\ process' = [process EXCEPT !.pool = Load(state), !.at = step]
    BY <2>1 DEF OpensMempool
  <2>3. IsProcess(process') /\ process'.pool = Load(state)
    BY <2>2 DEF IsProcess
  <2> QED
    BY <2>2, <2>3
<1>6. CASE \E b \in Given : StoreBlock(b) \/ StoreFails(b)
  <2>1. PICK step : Moved(step) /\ step \in {"commit", Resumed} /\ MayAppend /\ UNCHANGED rows
    BY <1>6 DEF StoreBlock, StoreFails
  <2> QED
    BY <2>1, ProcessMoves DEF Moved, MayAppend, Resumed
<1>7. CASE CommitBlock
  <2>1. /\ IsProcess(process') /\ process'.pool = process.pool
        /\ process'.kind = process.kind /\ UNCHANGED rows
        /\ process.kind = "add" => process'.at = "mempool"
    BY <1>7 DEF CommitBlock, IsProcess
  <2>2. process # None /\ process.kind \in {"node", "add"} /\ process.at = "commit"
    BY <1>7 DEF CommitBlock
  <2> QED
    BY <2>1, <2>2
<1>8. CASE CommitFails
  BY <1>8, ProcessMoves DEF CommitFails, Moved, Resumed
<1>9. CASE Reconcile
  <2>1. PICK rewritten \in BOOLEAN : Publish(Reconciled, rewritten)
    BY <1>9 DEF Reconcile
  <2>2. process # None /\ IsProcess(process) /\ process.pool.txs = rows
    BY <1>9 DEF Reconcile
  <2>3. /\ IsProcess(process')
        /\ process'.pool = IF rewritten THEN Reconciled ELSE process.pool
        /\ rows' = IF rewritten THEN Reconciled.txs ELSE rows
    BY <2>1, <2>2 DEF Publish, IsProcess
  <2> QED
    BY <2>2, <2>3
<1>10. CASE \E tx \in workload.submissions : AddTransaction(tx)
  <2>1. PICK tx : AddTransaction(tx)
    BY <1>10
  <2>2. process # None /\ IsProcess(process) /\ process.pool.txs = rows
    BY <2>1 DEF AddTransaction
  <2>3. IsProcess(process') /\ process'.pool = Add(process.pool, tx)
    BY <2>1, <2>2 DEF AddTransaction, IsProcess
  <2>4. Add(process.pool, tx).txs = Append(rows, tx)
    BY <2>1, <2>2 DEF AddTransaction, Add
  <2> QED
    BY <2>1, <2>3, <2>4 DEF AddTransaction
<1>11. CASE SaveCandidate
  BY <1>11, ProcessMoves DEF SaveCandidate, Moved
<1>12. ASSUME CreateChain \/ Mine \/ Remove
       PROVE  UNCHANGED rows /\ (UNCHANGED process \/ process' = None)
  BY <1>12 DEF CreateChain, Mine, Remove
<1>13. ASSUME Ends \/ OpenChainFails \/ \E b \in Given : KillWriting(b)
       PROVE  process' = None
  BY <1>13 DEF Ends, OpenChainFails, KillWriting
<1>14. UNCHANGED directoryVars => UNCHANGED << process, rows >>
  BY DEF directoryVars
<1> HIDE DEF PoolInv, PendingStored, PoolOpen, Running
<1>15. CASE DirectoryNext
  <2>1. CASE \E b \in Given : StoreBlock(b) \/ StoreFails(b) \/ KillWriting(b)
    BY <1>1, <1>6, <1>13, <2>1, Zenon
  <2>2. CASE CreateChain \/ Mine \/ Remove
    BY <1>1, <1>2, <1>12, <2>2, Zenon
  <2>3. CASE Ends \/ OpenChainFails
    BY <1>1, <1>13, <2>3, Zenon
  <2> QED
    BY <1>3, <1>4, <1>5, <1>7, <1>8, <1>9, <1>10, <1>11, <1>15, <2>1, <2>2, <2>3, ZenonT(40)
    DEF DirectoryNext
<1> QED
  BY <1>2, <1>14, <1>15, Zenon

(***************************************************************************)
(* MempoolStore: whatever processes work on the directory, whichever writes*)
(* fail and wherever a process dies, mempool.db holds exactly what is      *)
(* pending in the memory of the process that has it open, in order.        *)
(***************************************************************************)
THEOREM PendingStoredHolds == DirectorySpec => []PendingStored
<1>1. DirectoryInit => PoolInv
  BY DEF DirectoryInit, PoolInv, PendingStored, PoolOpen, Running
<1>2. PoolInv => PendingStored
  BY DEF PoolInv
<1> QED
  BY <1>1, <1>2, PoolStep, PTL DEF DirectorySpec

===============================================================================
