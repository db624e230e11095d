---------------------------- MODULE KVCacheProofs ----------------------------
(***************************************************************************)
(* Types, sharing and content in the KV cache, for every pool, block size, *)
(* set of sequences and client.                                            *)
(*                                                                         *)
(* TypeOK is not inductive by itself: publishing a block reads block_size  *)
(* tokens of the sequence, which exist only because no more is published   *)
(* than was written (CallContract) and no more is written than there are   *)
(* tokens (TableBounds); and a cache hit reads the index at a hash that    *)
(* the walk of allocate_prompt found there (CallContract).                 *)
(*                                                                         *)
(* Sharing is sound: blocks are accounted for, reference counts are exact, *)
(* the prefix index is coherent, and only published blocks are shared.     *)
(* The five properties are proved together, because each one needs others: *)
(* a block may be published only because nobody else has it                *)
(* (UnpublishedPrivate), which holds because a hit is always on a          *)
(* published block (IndexCoherent), which holds because a block loses its  *)
(* hash only with its last reference (RefCounts), when no table can still  *)
(* name it.  What a table has not committed yet is unhashed                *)
(* (CommittedOnly), and a prompt's hits come first (HitsFirst), so that no *)
(* table gets a block twice.                                               *)
(*                                                                         *)
(* Content is what it should be, and stays: a published block holds the    *)
(* K/V its hash stands for, every sequence reads the K/V of its own        *)
(* tokens, and what eviction and the capacity check of allocate_prompt     *)
(* promise is kept.                                                        *)
(*                                                                         *)
(* The first two need each other.  commit_computed publishes a block its   *)
(* owner has filled (OwnContent gives PublishedContent); a cache hit hands *)
(* the block to another sequence (PublishedContent gives OwnContent).      *)
(* Writes into a shared block, which happen, store what is there already:  *)
(* all its owners have the same tokens up to its end (SharedSameTokens,    *)
(* from UnpublishedPrivate and HashChain).                                 *)
(*                                                                         *)
(* NoOrphans is not inductive: evicting a block is safe only because       *)
(* nothing that continues it is cached any longer.  A referenced block     *)
(* that continues the victim would have the victim before it in its own    *)
(* table, and an unreferenced one stands before the victim in lru_         *)
(* (EvictionOrder), because free releases a table from its end and a       *)
(* release appends.                                                        *)
(***************************************************************************)
EXTENDS KVCache, FiniteSetTheorems, SequenceTheorems, TLAPS

-----------------------------------------------------------------------------
(* Sequences and block arithmetic.                                         *)

\* Erasing one element of a list (lru_.erase, vector::erase) leaves the others,
\* in order.
LEMMA DropAtType ==
    ASSUME NEW S, NEW s \in Seq(S), NEW k \in 1..Len(s)
    PROVE  /\ DropAt(s, k) \in Seq(S)
           /\ Len(DropAt(s, k)) = Len(s) - 1
           /\ \A j \in 1..(Len(s) - 1) : DropAt(s, k)[j] = IF j < k THEN s[j] ELSE s[j + 1]
BY DEF DropAt

\* A prefix of a sequence is a sequence of that length with the same elements.
LEMMA PrefixType ==
    ASSUME NEW S, NEW t \in Seq(S), NEW n \in 0..Len(t)
    PROVE  /\ Prefix(t, n) \in Seq(S)
           /\ Len(Prefix(t, n)) = n
           /\ \A k \in 1..n : Prefix(t, n)[k] = t[k]
BY DEF Prefix

\* Block counts scale to token counts monotonically: no product of a block
\* number and block_size_ is out of order.
LEMMA Scaled ==
    ASSUME NEW i \in Nat, NEW j \in Nat, i <= j
    PROVE  /\ i * BlockSize \in Nat /\ j * BlockSize \in Nat
           /\ i * BlockSize <= j * BlockSize
           /\ i < j => i * BlockSize + BlockSize <= j * BlockSize
           /\ (i + 1) * BlockSize = i * BlockSize + BlockSize
<1>1. BlockSize \in Nat \ {0} BY KVAssumption
<1>2. PICK d \in Nat : j = i + d
  <2>1. j - i \in Nat /\ j = i + (j - i) OBVIOUS
  <2> QED BY <2>1
<1>3. d * BlockSize \in Nat BY <1>1, SMT
<1>4. j * BlockSize = i * BlockSize + d * BlockSize BY <1>1, <1>2, SMT
<1>5. d > 0 => d * BlockSize >= BlockSize BY <1>1, SMT
<1> QED BY <1>1, <1>2, <1>3, <1>4, <1>5, SMT

\* The tokens that hash_full_block reads for a full block exist.
LEMMA ChunkType ==
    ASSUME NEW t \in Seq(Token), NEW i \in Nat \ {0}, i * BlockSize <= Len(t)
    PROVE  Chunk(t, i) \in Seq(Token) /\ Len(Chunk(t, i)) = BlockSize
<1>1. BlockSize \in Nat \ {0} BY KVAssumption
<1>2. (i - 1) * BlockSize \in Nat /\ (i - 1) * BlockSize + BlockSize = i * BlockSize
   BY <1>1, SMT
<1>3. \A o \in 1..BlockSize : (i - 1) * BlockSize + o \in 1..Len(t)
   BY <1>1, <1>2, SMT
<1> QED BY <1>1, <1>3 DEF Chunk

-----------------------------------------------------------------------------
(* The inductive invariant.                                                *)

\* No K/V is claimed beyond a sequence's tokens or beyond its block table.
TableBounds ==
    \A s \in Seqs : written[s] <= Len(tokens[s]) /\ written[s] <= Len(blocks[s]) * BlockSize

\* What the manager's loops rely on between two iterations: the hits found by the
\* walk are still indexed when they are referenced, only written positions are
\* committed, and a table being released is not read.
CallContract ==
    /\ call.op = "alloc" =>
          /\ call.n * BlockSize <= Len(tokens[call.seq])
          /\ \A i \in 1..call.n :
                i > Len(blocks[call.seq]) => HashOf(tokens[call.seq], i) \in DOMAIN hash_to_block
    /\ call.op = "commit" => call.n <= written[call.seq]
    /\ call.op = "free" => written[call.seq] = 0

\* The inductive invariant behind TypeOK.
TypeInv == TypeOK /\ TableBounds /\ CallContract

\* The constructor of KVCacheManager establishes the invariant.
LEMMA InitTypeInv == KVInit => TypeInv
<1> SUFFICES ASSUME KVInit PROVE TypeInv OBVIOUS
<1>1. BlockSize \in Nat \ {0} /\ 0 * BlockSize = 0 BY KVAssumption, SMT
<1>2. TypeOK BY <1>1 DEF KVInit, TypeOK, Idle, NoHash, Hash, Unwritten
<1>3. TableBounds BY <1>1 DEF KVInit, TableBounds
<1>4. CallContract BY DEF KVInit, CallContract, Idle
<1> QED BY <1>2, <1>3, <1>4 DEF TypeInv

\* The method in progress, if any, has a sequence and a count.
LEMMA CallTypes ==
    ASSUME TypeOK
    PROVE  /\ call.op \in {"idle", "alloc", "commit", "free"}
           /\ call.op = "idle" <=> call = Idle
           /\ call.op # "idle" => call \in Calls /\ call.seq \in Seqs /\ call.n \in Nat
BY DEF TypeOK, Calls, Idle

\* hash_to_block_.erase(h) removes h and keeps every other entry.
LEMMA UnindexedType ==
    ASSUME TypeOK, NEW h
    PROVE  /\ DOMAIN Unindexed(h) = DOMAIN hash_to_block \ {h}
           /\ Unindexed(h) \in [DOMAIN Unindexed(h) -> Blocks]
           /\ \A g \in DOMAIN Unindexed(h) : Unindexed(h)[g] = hash_to_block[g]
<1>1. DOMAIN Unindexed(h) = DOMAIN hash_to_block \ {h} BY DEF Unindexed
<1>2. \A g \in DOMAIN hash_to_block : hash_to_block[g] \in Blocks BY DEF TypeOK
<1> QED BY <1>1, <1>2 DEF Unindexed

\* take_block keeps the pool's types, evicting or not.
LEMMA TakeBlockType ==
    ASSUME TypeOK, NEW b \in Blocks, take_block(b)
    PROVE  /\ free' \subseteq Blocks
           /\ lru' \in Seq(Blocks)
           /\ block_hash' \in [Blocks -> Hash]
           /\ DOMAIN hash_to_block' \subseteq DOMAIN hash_to_block
           /\ hash_to_block' \in [DOMAIN hash_to_block' -> Blocks]
           /\ data' \in [Blocks -> [1..BlockSize -> Seq(Token)]]
<1>1. CASE b \in free /\ free' = free \ {b} /\ UNCHANGED <<lru, block_hash, hash_to_block, data>>
  BY <1>1 DEF TypeOK
<1>2. CASE /\ free = {} /\ lru # <<>> /\ b = lru[LruVictim]
           /\ lru' = DropAt(lru, LruVictim)
           /\ hash_to_block' = Unindexed(block_hash[b])
           /\ block_hash' = [block_hash EXCEPT ![b] = NoHash]
           /\ data' = [data EXCEPT ![b] = Unwritten]
           /\ UNCHANGED free
  <2>1. lru' \in Seq(Blocks)
    <3>1. lru \in Seq(Blocks) /\ 1 \in 1..Len(lru) BY <1>2 DEF TypeOK
    <3> QED BY <1>2, <3>1, DropAtType DEF LruVictim
  <2>2. DOMAIN hash_to_block' \subseteq DOMAIN hash_to_block /\ hash_to_block' \in [DOMAIN hash_to_block' -> Blocks]
    BY <1>2, UnindexedType
  <2>3. block_hash' \in [Blocks -> Hash] /\ data' \in [Blocks -> [1..BlockSize -> Seq(Token)]]
    BY <1>2 DEF TypeOK, NoHash, Hash, Unwritten
  <2> QED BY <1>2, <2>1, <2>2, <2>3 DEF TypeOK
<1> QED BY <1>1, <1>2 DEF take_block

\* Growing a table by an unhashed block, in allocate_prompt or ensure_slot,
\* keeps the invariant.
LEMMA GrowTableType ==
    ASSUME TypeInv, NEW s \in Seqs, NEW b \in Blocks, GrowTable(s, b), UNCHANGED call,
           call.op = "alloc" => call.seq = s /\ call.n <= Len(blocks[s]),
           call.op \in {"alloc", "idle"}
    PROVE  TypeInv'
<1> USE DEF TypeInv
<1>1. TypeOK'
  <2>1. blocks' \in [Seqs -> Seq(Blocks)] /\ hashes' \in [Seqs -> Seq(Hash)]
    BY DEF TypeOK, GrowTable, NoHash, Hash
  <2>2. \A r \in Seqs : Len(hashes'[r]) = Len(blocks'[r])
    BY DEF TypeOK, GrowTable, NoHash, Hash
  <2>3. ref_count' \in [Blocks -> Nat]
    BY DEF TypeOK, GrowTable
  <2> QED BY <2>1, <2>2, <2>3, TakeBlockType DEF TypeOK, GrowTable
<1>2. TableBounds'
  <2> SUFFICES ASSUME NEW r \in Seqs
               PROVE (written[r] <= Len(tokens[r]) /\ written[r] <= Len(blocks[r]) * BlockSize)'
    BY DEF TableBounds
  <2>1. Len(blocks[r]) \in Nat /\ Len(blocks'[r]) \in Nat /\ Len(blocks[r]) <= Len(blocks'[r])
    BY DEF TypeOK, GrowTable
  <2>2. Len(blocks[r]) * BlockSize <= Len(blocks'[r]) * BlockSize
        /\ Len(blocks[r]) * BlockSize \in Nat /\ Len(blocks'[r]) * BlockSize \in Nat
    BY <2>1, Scaled
  <2> QED BY <2>2 DEF TableBounds, TypeOK, GrowTable
<1>3. CallContract'
  <2>1. CASE call.op = "idle"
     BY <2>1 DEF CallContract
  <2>2. CASE call.op = "alloc"
     <3>1. Len(blocks'[s]) = Len(blocks[s]) + 1 /\ tokens' = tokens /\ call' = call
       BY DEF TypeOK, GrowTable
     <3> QED BY <2>2, <3>1, CallTypes, SMTT(30) DEF CallContract, TypeOK
  <2> QED BY <2>1, <2>2
<1> QED BY <1>1, <1>2, <1>3

\* Referencing a cached block in allocate_prompt keeps the invariant.
LEMMA AllocHitType == ASSUME TypeInv, AllocHit PROVE TypeInv'
<1> USE DEF TypeInv
<1> DEFINE s == call.seq
           i == Len(blocks[s]) + 1
           h == HashOf(tokens[s], i)
           b == hash_to_block[h]
<1>1. /\ call.op = "alloc" /\ s \in Seqs /\ call.n \in Nat /\ i \in 1..call.n
      /\ call' = call /\ tokens' = tokens /\ hash_to_block' = hash_to_block /\ written' = written
  BY CallTypes DEF AllocHit, TypeOK
<1>2. /\ touch_cached(b)
      /\ ref_count' = Referenced(b)
      /\ blocks' = [blocks EXCEPT ![s] = Append(@, b)]
      /\ hashes' = [hashes EXCEPT ![s] = Append(@, h)]
  BY DEF AllocHit
<1>3. b \in Blocks /\ h \in Hash
  <2>1. Len(blocks[s]) \in Nat /\ i > Len(blocks[s]) BY <1>1 DEF TypeOK
  <2>2. h \in DOMAIN hash_to_block BY <1>1, <2>1 DEF CallContract
  <2> QED BY <2>2 DEF TypeOK
<1> HIDE DEF h, b
<1>4. TypeOK'
  <2>1. lru' \in Seq(Blocks)
    <3>1. ASSUME NEW k \in 1..Len(lru), lru' = DropAt(lru, k) PROVE lru' \in Seq(Blocks)
      BY <3>1, DropAtType DEF TypeOK
    <3> QED BY <1>2, <3>1 DEF touch_cached, TypeOK
  <2>2. ref_count' \in [Blocks -> Nat]
    BY <1>2, <1>3 DEF Referenced, TypeOK
  <2>3. /\ blocks' \in [Seqs -> Seq(Blocks)] /\ hashes' \in [Seqs -> Seq(Hash)]
        /\ \A r \in Seqs : Len(hashes'[r]) = Len(blocks'[r])
    BY <1>1, <1>2, <1>3, SMTT(30) DEF TypeOK
  <2> QED BY <2>1, <2>2, <2>3 DEF AllocHit, TypeOK
<1>5. TableBounds'
  <2> SUFFICES ASSUME NEW r \in Seqs
               PROVE (written[r] <= Len(tokens[r]) /\ written[r] <= Len(blocks[r]) * BlockSize)'
    BY DEF TableBounds
  <2>1. Len(blocks[r]) \in Nat /\ Len(blocks'[r]) \in Nat /\ Len(blocks[r]) <= Len(blocks'[r])
    BY <1>1, <1>2, <1>3, SMTT(30) DEF TypeOK
  <2>2. Len(blocks[r]) * BlockSize <= Len(blocks'[r]) * BlockSize
        /\ Len(blocks[r]) * BlockSize \in Nat /\ Len(blocks'[r]) * BlockSize \in Nat
    BY <2>1, Scaled
  <2> QED BY <1>1, <2>2 DEF TableBounds, TypeOK
<1>6. CallContract'
  <2>1. Len(blocks'[s]) = Len(blocks[s]) + 1 /\ Len(blocks[s]) \in Nat
    BY <1>1, <1>2, <1>3 DEF TypeOK
  <2> QED BY <1>1, <2>1 DEF CallContract
<1> QED BY <1>4, <1>5, <1>6

\* Taking a block for the uncached rest of a prompt keeps the invariant.
LEMMA AllocTakeType == ASSUME TypeInv, AllocTake PROVE TypeInv'
<1>1. PICK b \in Blocks : GrowTable(call.seq, b)
  BY DEF AllocTake
<1>2. call.seq \in Seqs /\ call.op = "alloc" /\ call.n <= Len(blocks[call.seq]) /\ UNCHANGED call
  BY CallTypes DEF AllocTake, TypeInv
<1>3. PICK s \in Seqs : s = call.seq BY <1>2
<1> QED BY <1>1, <1>2, <1>3, GrowTableType

\* ensure_slot keeps the invariant.
LEMMA EnsureSlotType == ASSUME TypeInv, NEW s \in Seqs, ensure_slot(s) PROVE TypeInv'
<1>1. PICK b \in Blocks : GrowTable(s, b)
  BY DEF ensure_slot
<1>2. call.op = "idle" /\ UNCHANGED call BY DEF ensure_slot, Idle
<1> QED BY <1>1, <1>2, GrowTableType

\* The end of allocate_prompt claims no more K/V than the prompt has tokens.
LEMMA AllocReturnType == ASSUME TypeInv, AllocReturn PROVE TypeInv'
<1> USE DEF TypeInv
<1> DEFINE s == call.seq
<1>1. /\ call.op = "alloc" /\ s \in Seqs /\ call.n \in Nat /\ Len(blocks[s]) \in Nat
      /\ call.n <= Len(blocks[s]) /\ call' = Idle
      /\ written' = [written EXCEPT ![s] = call.n * BlockSize]
      /\ UNCHANGED <<pool, blocks, hashes, tokens, data>>
      /\ num_committed' = [num_committed EXCEPT ![s] = call.n]
  BY CallTypes DEF AllocReturn, Returned, TypeOK
<1>2. call.n * BlockSize \in Nat /\ call.n * BlockSize <= Len(blocks[s]) * BlockSize
  BY <1>1, Scaled
<1>3. call.n * BlockSize <= Len(tokens[s]) BY <1>1 DEF CallContract
<1>4. TypeOK' BY <1>1, <1>2 DEF TypeOK, pool
<1>5. TableBounds' BY <1>1, <1>2, <1>3 DEF TableBounds, TypeOK
<1>6. CallContract' BY <1>1 DEF CallContract, Idle
<1> QED BY <1>4, <1>5, <1>6

\* One iteration of commit_computed, publishing or not, keeps the invariant.
LEMMA CommitStepType == ASSUME TypeInv, CommitStep PROVE TypeInv'
<1> USE DEF TypeInv
<1> DEFINE s == call.seq
           i == num_committed[s] + 1
<1>1. /\ call.op = "commit" /\ s \in Seqs /\ call.n \in Nat
      /\ i \in 1..Len(blocks[s]) /\ i * BlockSize <= call.n
      /\ num_committed' = [num_committed EXCEPT ![s] = @ + 1]
      /\ UNCHANGED <<free, lru, ref_count, blocks, tokens, written, data, call>>
  BY CallTypes DEF CommitStep, CommitMore, TypeOK
<1>2. i * BlockSize <= Len(tokens[s])
  <2>1. call.n <= written[s] /\ written[s] <= Len(tokens[s]) BY <1>1 DEF CallContract, TableBounds
  <2>2. i \in Nat /\ i * BlockSize \in Nat /\ written[s] \in Nat /\ Len(tokens[s]) \in Nat
    BY <1>1, Scaled DEF TypeOK
  <2> QED BY <1>1, <2>1, <2>2
<1>3. ChainedHash(s, i) \in Hash \ {NoHash}
  <2>1. Chunk(tokens[s], i) \in Seq(Token) /\ Len(Chunk(tokens[s], i)) = BlockSize
    <3>1. tokens[s] \in Seq(Token) /\ i \in Nat \ {0} BY <1>1 DEF TypeOK
    <3> QED BY <1>2, <3>1, ChunkType
  <2>2. (IF i = 1 THEN NoHash ELSE hashes[s][i - 1]) \in Seq(Token)
    <3>1. i # 1 => i - 1 \in 1..Len(hashes[s]) BY <1>1 DEF TypeOK
    <3>2. hashes[s] \in Seq(Seq(Token)) BY <1>1 DEF TypeOK, Hash
    <3> QED BY <3>1, <3>2 DEF NoHash
  <2> QED BY <2>1, <2>2, KVAssumption DEF ChainedHash, hash_block, NoHash, Hash
<1>4. hash_full_block(s, i) BY DEF CommitStep
<1> DEFINE h == ChainedHash(s, i)
           b == blocks[s][i]
<1>5. b \in Blocks BY <1>1 DEF TypeOK
<1> HIDE DEF h, b, i
<1>6. TypeOK'
  <2>0. num_committed' \in [Seqs -> Nat] BY <1>1 DEF TypeOK
  <2>1. CASE UNCHANGED <<hash_to_block, block_hash, hashes>>
    <3>1. UNCHANGED <<free, lru, ref_count, blocks, tokens, written, data, call>> BY <1>1
    <3> QED BY ONLY TypeOK, <2>0, <2>1, <3>1 DEF TypeOK
  <2>2. CASE /\ hash_to_block' = [g \in DOMAIN hash_to_block \union {h} |->
                                   IF g = h THEN b ELSE hash_to_block[g]]
             /\ block_hash' = [block_hash EXCEPT ![b] = h]
             /\ hashes' = [hashes EXCEPT ![s][i] = h]
    <3>1. /\ DOMAIN hash_to_block' \subseteq Hash \ {NoHash}
          /\ hash_to_block' \in [DOMAIN hash_to_block' -> Blocks]
      BY <1>3, <1>5, <2>2 DEF TypeOK, h
    <3>2. block_hash' \in [Blocks -> Hash] BY <1>3, <1>5, <2>2 DEF TypeOK, h
    <3>3. /\ hashes' \in [Seqs -> Seq(Hash)]
          /\ \A r \in Seqs : Len(hashes'[r]) = Len(hashes[r])
      BY <1>1, <1>3, <2>2 DEF TypeOK, h
    <3>4. \A r \in Seqs : Len(hashes'[r]) = Len(blocks'[r]) BY <1>1, <3>3 DEF TypeOK
    <3>5. UNCHANGED <<free, lru, ref_count, blocks, tokens, written, data, call>> BY <1>1
    <3> QED BY ONLY TypeOK, <2>0, <3>1, <3>2, <3>3, <3>4, <3>5 DEF TypeOK
  <2> QED BY <1>4, <2>1, <2>2 DEF hash_full_block, h, b
<1>7. TableBounds' /\ CallContract'
  BY <1>1 DEF TableBounds, CallContract
<1> QED BY <1>6, <1>7

\* One iteration of free keeps the invariant.
LEMMA FreeStepType == ASSUME TypeInv, FreeStep PROVE TypeInv'
<1> USE DEF TypeInv
<1> DEFINE s == call.seq
           i == Len(blocks[s])
           b == blocks[s][i]
           h == hashes[s][i]
<1>1. /\ call.op = "free" /\ s \in Seqs
      /\ i \in 1..Len(blocks[s]) /\ i \in 1..Len(hashes[s]) /\ written[s] = 0
      /\ blocks' = [blocks EXCEPT ![s] = DropAt(@, i)]
      /\ hashes' = [hashes EXCEPT ![s] = DropAt(@, i)]
      /\ UNCHANGED <<num_committed, tokens, written, call>>
  BY CallTypes DEF FreeStep, TypeOK, ReleaseIndex, CallContract
<1>2. release_block(b, h) BY DEF FreeStep, ReleaseIndex
<1>3. b \in Blocks BY <1>1 DEF TypeOK
<1> HIDE DEF b, h
<1>4. TypeOK'
  <2>1. /\ DropAt(blocks[s], i) \in Seq(Blocks) /\ DropAt(hashes[s], i) \in Seq(Hash)
        /\ Len(DropAt(hashes[s], i)) = Len(DropAt(blocks[s], i))
    BY <1>1, DropAtType, SMTT(30) DEF TypeOK
  <2>2. /\ blocks' \in [Seqs -> Seq(Blocks)] /\ hashes' \in [Seqs -> Seq(Hash)]
        /\ \A r \in Seqs : Len(hashes'[r]) = Len(blocks'[r])
    BY <1>1, <2>1 DEF TypeOK
  <2>3. ref_count' \in [Blocks -> Nat] BY <1>2, <1>3 DEF release_block, TypeOK
  <2>4. /\ free' \subseteq Blocks /\ lru' \in Seq(Blocks) /\ block_hash' \in [Blocks -> Hash]
        /\ data' \in [Blocks -> [1..BlockSize -> Seq(Token)]]
    <3>1. CASE UNCHANGED <<free, lru, block_hash, data>> BY <3>1 DEF TypeOK
    <3>2. CASE lru' = Append(lru, b) /\ UNCHANGED <<free, block_hash, data>>
      BY <1>3, <3>2 DEF TypeOK
    <3>3. CASE /\ block_hash' = [block_hash EXCEPT ![b] = NoHash]
               /\ free' = free \union {b}
               /\ data' = [data EXCEPT ![b] = Unwritten]
               /\ UNCHANGED lru
      BY <1>3, <3>3 DEF TypeOK, NoHash, Hash, Unwritten
    <3> QED BY <1>2, <3>1, <3>2, <3>3 DEF release_block
  <2>5. /\ DOMAIN hash_to_block' \subseteq DOMAIN hash_to_block
        /\ hash_to_block' \in [DOMAIN hash_to_block' -> Blocks]
    <3>1. CASE UNCHANGED hash_to_block BY <3>1 DEF TypeOK
    <3>2. CASE hash_to_block' = Unindexed(block_hash[b]) BY <3>2, UnindexedType
    <3> QED BY <1>2, <3>1, <3>2 DEF release_block
  <2> QED BY <1>1, <2>2, <2>3, <2>4, <2>5 DEF TypeOK
<1>5. TableBounds'
  <2> SUFFICES ASSUME NEW r \in Seqs
               PROVE (written[r] <= Len(tokens[r]) /\ written[r] <= Len(blocks[r]) * BlockSize)'
    BY DEF TableBounds
  <2>1. Len(blocks'[r]) \in Nat BY <1>4 DEF TypeOK
  <2>2. Len(blocks'[r]) * BlockSize \in Nat BY <2>1, Scaled
  <2>3. CASE r = s BY <1>1, <2>2, <2>3 DEF TypeOK
  <2>4. CASE r # s
    <3>1. blocks'[r] = blocks[r] BY <1>1, <2>4 DEF TypeOK
    <3> QED BY <1>1, <3>1 DEF TableBounds
  <2> QED BY <2>3, <2>4
<1>6. CallContract' BY <1>1 DEF CallContract
<1> QED BY <1>4, <1>5, <1>6

\* The manager's callers (the scheduler and the forward pass) keep the
\* invariant.
LEMMA ClientType ==
    ASSUME TypeInv, NEW s \in Seqs,
           \/ \E t \in Prompts : SetPrompt(s, t)
           \/ \E t \in Token : AppendToken(s, t)
           \/ \E n \in 0..MaxTokens : allocate_prompt(s, n)
           \/ \E n \in 0..MaxTokens : commit_computed(s, n)
           \/ free_table(s)
           \/ \E lo, hi \in 0..MaxTokens : Write(s, lo, hi)
    PROVE  TypeInv'
<1> USE DEF TypeInv
<1>1. ASSUME NEW t \in Prompts, SetPrompt(s, t) PROVE TypeInv'
  <2>1. t \in Seq(Token) BY KVAssumption
  <2>2. written[s] = 0
    BY <1>1, KVAssumption DEF SetPrompt, TableBounds, TypeOK
  <2>3. TypeOK' BY <1>1, <2>1 DEF SetPrompt, TypeOK, pool, tables
  <2>4. TableBounds' BY <1>1, <2>1, <2>2 DEF SetPrompt, TableBounds, TypeOK, tables
  <2>5. CallContract' BY <1>1 DEF SetPrompt, CallContract, Idle
  <2> QED BY <2>3, <2>4, <2>5
<1>2. ASSUME NEW t \in Token, AppendToken(s, t) PROVE TypeInv'
  <2>1. TypeOK' BY <1>2, SMTT(30) DEF AppendToken, TypeOK, pool, tables
  <2>2. TableBounds' BY <1>2 DEF AppendToken, TableBounds, TypeOK, tables
  <2>3. CallContract' BY <1>2 DEF AppendToken, CallContract, Idle
  <2> QED BY <2>1, <2>2, <2>3
<1>3. ASSUME NEW n \in 0..MaxTokens, allocate_prompt(s, n) PROVE TypeInv'
  <2>1. n \in Nat BY KVAssumption
  <2>2. TypeOK' BY <1>3, <2>1 DEF allocate_prompt, TypeOK, pool, tables, Calls
  <2>3. TableBounds' BY <1>3 DEF allocate_prompt, TableBounds, tables
  <2>4. CallContract' BY <1>3 DEF allocate_prompt, CachedPrefix, CallContract, pool, tables
  <2> QED BY <2>2, <2>3, <2>4
<1>4. ASSUME NEW n \in 0..MaxTokens, commit_computed(s, n) PROVE TypeInv'
  <2>1. n \in Nat BY KVAssumption
  <2>2. TypeOK' BY <1>4, <2>1 DEF commit_computed, TypeOK, pool, tables, Calls
  <2>3. TableBounds' BY <1>4 DEF commit_computed, TableBounds, tables
  <2>4. CallContract' BY <1>4 DEF commit_computed, CallContract, pool, tables
  <2> QED BY <2>2, <2>3, <2>4
<1>5. CASE free_table(s)
  <2>1. TypeOK' BY <1>5 DEF free_table, TypeOK, pool, tables, Calls
  <2>2. TableBounds'
    <3> SUFFICES ASSUME NEW r \in Seqs
                 PROVE (written[r] <= Len(tokens[r]) /\ written[r] <= Len(blocks[r]) * BlockSize)'
      BY DEF TableBounds
    <3>1. Len(blocks[r]) * BlockSize \in Nat /\ blocks' = blocks /\ tokens' = tokens
      <4>1. Len(blocks[r]) \in Nat BY DEF TypeOK
      <4> QED BY <1>5, <4>1, Scaled, SMTT(30) DEF free_table, tables
    <3> QED BY <1>5, <3>1 DEF free_table, TableBounds, TypeOK
  <2>3. CallContract' BY <1>5 DEF free_table, CallContract, TypeOK
  <2> QED BY <2>1, <2>2, <2>3
<1>6. ASSUME NEW lo \in 0..MaxTokens, NEW hi \in 0..MaxTokens, Write(s, lo, hi) PROVE TypeInv'
  <2>1. hi \in Nat /\ hi <= Len(tokens[s]) /\ hi <= Len(blocks[s]) * BlockSize
    BY <1>6, KVAssumption DEF Write
  <2>2. data' \in [Blocks -> [1..BlockSize -> Seq(Token)]]
    <3> DEFINE Slots(b, o) == {p \in (lo + 1)..hi :
                  \E i \in 1..Len(blocks[s]) : blocks[s][i] = b /\ p = Position(i, o)}
               Slot(b, o) == CHOOSE p \in Slots(b, o) : TRUE
    <3>1. \A b, o : Slots(b, o) # {} => Slot(b, o) \in (lo + 1)..hi OBVIOUS
    <3>2. \A b, o : Slots(b, o) # {} => Slot(b, o) \in 0..Len(tokens[s])
      <4> SUFFICES ASSUME NEW b, NEW o, Slots(b, o) # {}
                   PROVE Slot(b, o) \in 0..Len(tokens[s])
        OBVIOUS
      <4>1. Slot(b, o) \in (lo + 1)..hi BY <3>1
      <4>2. lo \in Nat /\ hi \in Nat /\ hi <= Len(tokens[s]) /\ Len(tokens[s]) \in Nat
        BY <2>1, KVAssumption DEF TypeOK
      <4> HIDE DEF Slot
      <4> QED BY <4>1, <4>2
    <3>3. \A b, o : Slots(b, o) # {} => Prefix(tokens[s], Slot(b, o)) \in Seq(Token)
      <4> SUFFICES ASSUME NEW b, NEW o, Slots(b, o) # {}
                   PROVE Prefix(tokens[s], Slot(b, o)) \in Seq(Token)
        OBVIOUS
      <4>1. Slot(b, o) \in 0..Len(tokens[s]) BY <3>2
      <4>2. tokens[s] \in Seq(Token) BY DEF TypeOK
      <4> HIDE DEF Slot
      <4> QED BY <4>1, <4>2, PrefixType
    <3>4. data' = [b \in Blocks |-> [o \in 1..BlockSize |->
                       IF Slots(b, o) = {} THEN data[b][o] ELSE Prefix(tokens[s], Slot(b, o))]]
      BY <1>6 DEF Write
    <3> HIDE DEF Slots, Slot
    <3> QED BY <3>3, <3>4 DEF TypeOK
  <2>3. TypeOK' BY <1>6, <2>1, <2>2 DEF Write, TypeOK, pool, tables
  <2>4. TableBounds' BY <1>6, <2>1 DEF Write, TableBounds, TypeOK, tables
  <2>5. CallContract' BY <1>6 DEF Write, CallContract, Idle
  <2> QED BY <2>3, <2>4, <2>5
<1> QED BY <1>1, <1>2, <1>3, <1>4, <1>5, <1>6

\* Every step of the cache and of its client keeps the invariant.
LEMMA NextTypeInv == ASSUME TypeInv, [KVNext]_kvVars PROVE TypeInv'
<1>1. CASE UNCHANGED kvVars
  BY <1>1 DEF kvVars, pool, tables, TypeInv, TypeOK, TableBounds, CallContract
<1>2. CASE CommitReturn
  BY <1>2, CallTypes DEF CommitReturn, Returned, pool, tables, TypeInv, TypeOK,
     TableBounds, CallContract, Idle
<1>3. CASE FreeReturn
  <2>1. TypeOK' BY <1>3, CallTypes DEF FreeReturn, Returned, pool, TypeInv, TypeOK
  <2>2. TableBounds' /\ CallContract'
    BY <1>3 DEF FreeReturn, Returned, pool, TypeInv, TableBounds, CallContract, Idle
  <2> QED BY <2>1, <2>2 DEF TypeInv
<1> QED BY <1>1, <1>2, <1>3, AllocHitType, AllocTakeType, AllocReturnType, CommitStepType,
           FreeStepType, EnsureSlotType, ClientType DEF KVNext, CallStep

\* The manager's state and the K/V slots always have the types of TypeOK: in
\* particular the two vectors of a block table stay equally long and no slot is
\* read outside a prompt.
THEOREM TypeCorrect == KVSpec => []TypeOK
<1>1. TypeInv => TypeOK BY DEF TypeInv
<1>2. TypeInv /\ [KVNext]_kvVars => TypeInv' BY NextTypeInv
<1> QED BY <1>1, <1>2, InitTypeInv, PTL DEF KVSpec

-----------------------------------------------------------------------------
(* Sharing.                                                                *)

\* The blocks of s that may be hashed: allocate_prompt sets num_committed last.
Committed(s) == IF call.op = "alloc" /\ call.seq = s THEN call.n ELSE num_committed[s]

\* A block that is not committed yet is unhashed.
CommittedOnly ==
    \A s \in Seqs : \A i \in 1..Len(blocks[s]) : i > Committed(s) => hashes[s][i] = NoHash

\* While allocate_prompt runs, the table starts with the hits of its walk.
HitsFirst ==
    call.op = "alloc" =>
        \A j \in 1..Len(blocks[call.seq]) :
            j <= call.n => hashes[call.seq][j] = HashOf(tokens[call.seq], j)

\* The inductive invariant.
SharingInv ==
    /\ TypeInv
    /\ PoolPartition /\ RefCounts /\ IndexCoherent
    /\ HashChain /\ UnpublishedPrivate
    /\ CommittedOnly /\ HitsFirst

\* A new manager, all of whose blocks are free, satisfies the invariant.
LEMMA InitSharing == KVInit => SharingInv
<1> SUFFICES ASSUME KVInit PROVE SharingInv OBVIOUS
<1>1. TypeInv BY InitTypeInv
<1>2. \A s \in Seqs : blocks[s] = <<>> /\ Len(blocks[s]) = 0 BY DEF KVInit
<1>3. PoolPartition BY DEF KVInit, PoolPartition, Cached
<1>4. RefCounts
  <2>1. \A b \in Blocks : Owners(b) = {} BY <1>2 DEF Owners
  <2>2. Cardinality({}) = 0 BY FS_EmptySet
  <2>3. \A b \in Blocks : ref_count[b] = Cardinality(Owners(b)) BY <2>1, <2>2 DEF KVInit
  <2>4. \A s \in Seqs : \A i, j \in 1..Len(blocks[s]) : blocks[s][i] = blocks[s][j] => i = j
    BY <1>2
  <2> QED BY <2>3, <2>4 DEF RefCounts
<1>5. IndexCoherent
  <2>1. DOMAIN hash_to_block = {} BY DEF KVInit
  <2> QED BY <2>1 DEF KVInit, IndexCoherent
<1>6. HashChain /\ UnpublishedPrivate /\ CommittedOnly
  BY <1>2 DEF HashChain, UnpublishedPrivate, CommittedOnly
<1>7. HitsFirst BY DEF KVInit, HitsFirst, Idle
<1> QED BY <1>1, <1>3, <1>4, <1>5, <1>6, <1>7 DEF SharingInv

\* A block has finitely many owners.
LEMMA OwnersFinite ==
    ASSUME NEW b
    PROVE  IsFiniteSet(Owners(b)) /\ Cardinality(Owners(b)) \in Nat
<1>1. Owners(b) \subseteq Seqs /\ IsFiniteSet(Seqs) BY KVAssumption DEF Owners
<1> QED BY <1>1, FS_Subset, FS_CardinalityType

\* A block with ref_count_ 0 is in no block table: it can be handed out.
LEMMA Unreferenced ==
    ASSUME RefCounts, NEW b \in Blocks, ref_count[b] = 0
    PROVE  /\ Owners(b) = {}
           /\ \A s \in Seqs : \A i \in 1..Len(blocks[s]) : blocks[s][i] # b
<1>1. Owners(b) = {} BY OwnersFinite, FS_EmptySet DEF RefCounts
<1> QED BY <1>1 DEF Owners

\* A block in a table is referenced, so that it is neither free nor evictable.
LEMMA TableReferenced ==
    ASSUME TypeOK, RefCounts, NEW s \in Seqs, NEW i \in 1..Len(blocks[s])
    PROVE  /\ blocks[s][i] \in Blocks
           /\ s \in Owners(blocks[s][i])
           /\ ref_count[blocks[s][i]] \in Nat \ {0}
<1>1. blocks[s][i] \in Blocks /\ s \in Owners(blocks[s][i]) BY DEF TypeOK, Owners
<1>2. ref_count[blocks[s][i]] # 0 BY <1>1, Unreferenced
<1> QED BY <1>1, <1>2 DEF TypeOK

\* When the last reference goes, no other table names the block.
LEMMA SoleOwner ==
    ASSUME RefCounts, NEW b \in Blocks, ref_count[b] = 1, NEW s \in Owners(b)
    PROVE  Owners(b) = {s}
<1>1. Cardinality(Owners(b)) = 1 BY DEF RefCounts
<1>2. PICK r : Owners(b) = {r} BY <1>1, OwnersFinite, FS_Singleton
<1> QED BY <1>2

\* Putting a block at the end of a table adds that table's sequence to its
\* owners, and changes no other block's.
LEMMA OwnersGrow ==
    ASSUME TypeOK, NEW s \in Seqs, NEW b \in Blocks,
           blocks' = [blocks EXCEPT ![s] = Append(@, b)]
    PROVE  /\ Owners(b)' = Owners(b) \union {s}
           /\ \A c \in Blocks \ {b} : Owners(c)' = Owners(c)
<1>1. \A r \in Seqs \ {s} : blocks'[r] = blocks[r] BY DEF TypeOK
<1>2. /\ blocks[s] \in Seq(Blocks)
      /\ Len(blocks'[s]) = Len(blocks[s]) + 1
      /\ blocks'[s][Len(blocks[s]) + 1] = b
      /\ \A i \in 1..Len(blocks[s]) : blocks'[s][i] = blocks[s][i]
  BY DEF TypeOK
<1>3. 1..Len(blocks'[s]) = 1..Len(blocks[s]) \union {Len(blocks[s]) + 1} BY <1>2
<1>4. \A c : (\E i \in 1..Len(blocks'[s]) : blocks'[s][i] = c)
             <=> (c = b \/ \E i \in 1..Len(blocks[s]) : blocks[s][i] = c)
  BY <1>2, <1>3, Zenon
<1> QED BY <1>1, <1>4 DEF Owners

\* Releasing the last block of a table, as free does, removes that sequence
\* from its owners, and changes no other block's.
LEMMA OwnersShrink ==
    ASSUME TypeOK, RefCounts, NEW s \in Seqs, blocks[s] # <<>>,
           NEW b \in Blocks, b = blocks[s][Len(blocks[s])],
           blocks' = [blocks EXCEPT ![s] = DropAt(@, Len(@))]
    PROVE  /\ Owners(b)' = Owners(b) \ {s}
           /\ \A c \in Blocks \ {b} : Owners(c)' = Owners(c)
<1> DEFINE n == Len(blocks[s])
<1>1. \A r \in Seqs \ {s} : blocks'[r] = blocks[r] BY DEF TypeOK
<1>2. blocks[s] \in Seq(Blocks) /\ n \in 1..n /\ n \in Nat BY DEF TypeOK
<1>3. /\ Len(blocks'[s]) = n - 1
      /\ \A i \in 1..(n - 1) : blocks'[s][i] = blocks[s][i]
  <2>1. blocks'[s] = DropAt(blocks[s], n) BY DEF TypeOK
  <2>2. /\ Len(DropAt(blocks[s], n)) = n - 1
        /\ \A i \in 1..(n - 1) : DropAt(blocks[s], n)[i] = IF i < n THEN blocks[s][i] ELSE blocks[s][i + 1]
    BY <1>2, DropAtType
  <2> QED BY <1>2, <2>1, <2>2
<1>4. \A i \in 1..(n - 1) : blocks[s][i] # b
  BY <1>2 DEF RefCounts
<1>5. 1..n = 1..(n - 1) \union {n} BY <1>2
<1>6. \A c : (\E i \in 1..Len(blocks'[s]) : blocks'[s][i] = c)
             <=> (c # b /\ \E i \in 1..Len(blocks[s]) : blocks[s][i] = c)
  BY <1>3, <1>4, <1>5, Zenon
<1>7. Owners(b)' = Owners(b) \ {s} BY <1>1, <1>6 DEF Owners
<1>8. ASSUME NEW c \in Blocks \ {b} PROVE Owners(c)' = Owners(c)
  <2>1. \A r \in Seqs : (\E i \in 1..Len(blocks'[r]) : blocks'[r][i] = c)
                       <=> (\E i \in 1..Len(blocks[r]) : blocks[r][i] = c)
    <3>1. (\E i \in 1..Len(blocks'[s]) : blocks'[s][i] = c)
             <=> (\E i \in 1..Len(blocks[s]) : blocks[s][i] = c)
      BY <1>6, <1>8, Zenon
    <3> QED BY <1>1, <3>1, Zenon
  <2> QED BY <2>1, Zenon DEF Owners
<1> QED BY <1>7, <1>8

\* Erasing a block from lru_ removes exactly that block.
LEMMA LruDrop ==
    ASSUME TypeOK, PoolPartition, NEW k \in 1..Len(lru), NEW b, b = lru[k], lru' = DropAt(lru, k)
    PROVE  /\ Cached' = Cached \ {b}
           /\ \A i, j \in 1..Len(lru') : lru'[i] = lru'[j] => i = j
<1> DEFINE n == Len(lru)
<1>1. lru \in Seq(Blocks) /\ n \in Nat /\ k \in 1..n BY DEF TypeOK
<1>2. /\ Len(lru') = n - 1
      /\ \A j \in 1..(n - 1) : lru'[j] = IF j < k THEN lru[j] ELSE lru[j + 1]
  BY <1>1, DropAtType
<1>3. \A i, j \in 1..n : lru[i] = lru[j] => i = j BY DEF PoolPartition
<1>4. \A i, j \in 1..Len(lru') : lru'[i] = lru'[j] => i = j
  <2> SUFFICES ASSUME NEW i \in 1..(n - 1), NEW j \in 1..(n - 1), lru'[i] = lru'[j]
               PROVE i = j
    BY <1>2
  <2> DEFINE at(m) == IF m < k THEN m ELSE m + 1
  <2>1. at(i) \in 1..n /\ at(j) \in 1..n BY <1>1
  <2>2. lru'[i] = lru[at(i)] /\ lru'[j] = lru[at(j)] BY <1>2
  <2>3. at(i) = at(j) BY <1>3, <2>1, <2>2
  <2> QED BY <1>1, <2>3
<1>5. ASSUME NEW c \in Cached' PROVE c \in Cached \ {b}
  <2>1. PICK j \in 1..(n - 1) : c = lru'[j] BY <1>2, <1>5 DEF Cached
  <2> DEFINE m == IF j < k THEN j ELSE j + 1
  <2>2. m \in 1..n /\ m # k BY <1>1
  <2>3. c = lru[m] BY <1>2, <2>1
  <2> HIDE DEF m
  <2> QED BY <1>3, <2>2, <2>3 DEF Cached
<1>6. ASSUME NEW c \in Cached \ {b} PROVE c \in Cached'
  <2>1. PICK m \in 1..n : c = lru[m] BY <1>6 DEF Cached
  <2> DEFINE j == IF m < k THEN m ELSE m - 1
  <2>2. m # k BY <2>1, <1>6
  <2>3. j \in 1..(n - 1) /\ m = (IF j < k THEN j ELSE j + 1) BY <1>1, <2>2
  <2>4. c = lru'[j] BY <1>2, <2>1, <2>3
  <2> HIDE DEF j
  <2> QED BY <1>2, <2>3, <2>4 DEF Cached
<1> QED BY <1>4, <1>5, <1>6

\* Erasing a block's hash from both maps, as take_block and release_block do,
\* keeps them inverse to each other.
LEMMA UnindexBlock ==
    ASSUME TypeOK, IndexCoherent, NEW b \in Blocks,
           hash_to_block' = Unindexed(block_hash[b]),
           block_hash' = [block_hash EXCEPT ![b] = NoHash]
    PROVE  IndexCoherent'
<1>1. /\ DOMAIN hash_to_block' = DOMAIN hash_to_block \ {block_hash[b]}
      /\ \A g \in DOMAIN hash_to_block' : hash_to_block'[g] = hash_to_block[g]
  BY UnindexedType
<1>2. /\ block_hash'[b] = NoHash
      /\ \A c \in Blocks \ {b} : block_hash'[c] = block_hash[c]
  BY DEF TypeOK
<1>3. ASSUME NEW h \in DOMAIN hash_to_block' PROVE block_hash'[hash_to_block'[h]] = h
  <2>1. h \in DOMAIN hash_to_block /\ h # block_hash[b] /\ hash_to_block'[h] = hash_to_block[h]
    BY <1>1, <1>3
  <2>2. block_hash[hash_to_block[h]] = h /\ hash_to_block[h] \in Blocks
    BY <2>1 DEF IndexCoherent, TypeOK
  <2> QED BY <1>2, <2>1, <2>2
<1>4. ASSUME NEW c \in Blocks, block_hash'[c] # NoHash
      PROVE  block_hash'[c] \in DOMAIN hash_to_block' /\ hash_to_block'[block_hash'[c]] = c
  <2>1. c # b /\ block_hash'[c] = block_hash[c] BY <1>2, <1>4
  <2>2. block_hash[c] \in DOMAIN hash_to_block /\ hash_to_block[block_hash[c]] = c
    BY <1>4, <2>1 DEF IndexCoherent
  <2>3. block_hash[c] # block_hash[b]
    BY <1>4, <2>1, <2>2 DEF IndexCoherent
  <2> QED BY <1>1, <2>1, <2>2, <2>3
<1> QED BY <1>3, <1>4 DEF IndexCoherent

\* take_block hands out an unreferenced block, unhashed from then on, and the
\* accounting is exact when it is referenced.
LEMMA TakeBlockPool ==
    ASSUME SharingInv, NEW b \in Blocks, take_block(b),
           ref_count' = [ref_count EXCEPT ![b] = 1]
    PROVE  /\ ref_count[b] = 0
           /\ block_hash' = [block_hash EXCEPT ![b] = NoHash]
           /\ PoolPartition' /\ IndexCoherent'
<1> USE DEF SharingInv, TypeInv
<1>1. /\ ref_count'[b] = 1
      /\ \A c \in Blocks \ {b} : ref_count'[c] = ref_count[c]
  BY DEF TypeOK
<1>2. CASE b \in free /\ free' = free \ {b} /\ UNCHANGED <<lru, block_hash, hash_to_block, data>>
  <2>1. ref_count[b] = 0 /\ block_hash[b] = NoHash BY <1>2 DEF PoolPartition
  <2>2. block_hash' = [block_hash EXCEPT ![b] = NoHash] BY <1>2, <2>1 DEF TypeOK
  <2>3. free' = {c \in Blocks : ref_count'[c] = 0 /\ block_hash'[c] = NoHash}
    BY <1>1, <1>2 DEF PoolPartition
  <2>4. Cached' = {c \in Blocks : ref_count'[c] = 0 /\ block_hash'[c] # NoHash}
    BY <1>1, <1>2, <2>1 DEF PoolPartition, Cached
  <2>5. \A j, k \in 1..Len(lru') : lru'[j] = lru'[k] => j = k BY <1>2 DEF PoolPartition
  <2>6. IndexCoherent' BY <1>2 DEF IndexCoherent
  <2> QED BY <2>1, <2>2, <2>3, <2>4, <2>5, <2>6 DEF PoolPartition
<1>3. CASE /\ free = {} /\ lru # <<>> /\ b = lru[LruVictim]
           /\ lru' = DropAt(lru, LruVictim)
           /\ hash_to_block' = Unindexed(block_hash[b])
           /\ block_hash' = [block_hash EXCEPT ![b] = NoHash]
           /\ data' = [data EXCEPT ![b] = Unwritten]
           /\ UNCHANGED free
  <2>1. 1 \in 1..Len(lru) BY <1>3 DEF TypeOK
  <2>2. b \in Cached BY <1>3, <2>1 DEF Cached, LruVictim
  <2>3. ref_count[b] = 0 /\ block_hash[b] # NoHash BY <2>2 DEF PoolPartition
  <2>4. Cached' = Cached \ {b} /\ \A j, k \in 1..Len(lru') : lru'[j] = lru'[k] => j = k
    BY <1>3, <2>1, LruDrop DEF LruVictim
  <2>5. /\ block_hash'[b] = NoHash
        /\ \A c \in Blocks \ {b} : block_hash'[c] = block_hash[c]
    BY <1>3 DEF TypeOK
  <2>6. free' = {c \in Blocks : ref_count'[c] = 0 /\ block_hash'[c] = NoHash}
    BY <1>1, <1>3, <2>5 DEF PoolPartition
  <2>7. Cached' = {c \in Blocks : ref_count'[c] = 0 /\ block_hash'[c] # NoHash}
    BY <1>1, <2>4, <2>5 DEF PoolPartition
  <2>8. IndexCoherent' BY <1>3, UnindexBlock
  <2> QED BY <1>3, <2>3, <2>4, <2>6, <2>7, <2>8 DEF PoolPartition
<1> QED BY <1>2, <1>3 DEF take_block

\* The entries of the tables after one of them has grown.
LEMMA TableGrow ==
    ASSUME TypeOK, NEW s \in Seqs, NEW b \in Blocks, NEW h \in Hash,
           blocks'[s] = Append(blocks[s], b), hashes'[s] = Append(hashes[s], h),
           \A r \in Seqs \ {s} : blocks'[r] = blocks[r] /\ hashes'[r] = hashes[r]
    PROVE  \A r \in Seqs : \A i \in 1..Len(blocks'[r]) :
               \/ /\ r = s /\ i = Len(blocks[s]) + 1
                  /\ blocks'[r][i] = b /\ hashes'[r][i] = h
               \/ /\ i \in 1..Len(blocks[r])
                  /\ blocks'[r][i] = blocks[r][i] /\ hashes'[r][i] = hashes[r][i]
<1> TAKE r \in Seqs
<1> TAKE i \in 1..Len(blocks'[r])
<1>1. CASE r # s BY <1>1 DEF TypeOK
<1>2. CASE r = s
  <2>1. /\ blocks[s] \in Seq(Blocks) /\ hashes[s] \in Seq(Hash) /\ Len(hashes[s]) = Len(blocks[s])
    BY DEF TypeOK
  <2>2. CASE i = Len(blocks[s]) + 1 BY <1>2, <2>1, <2>2
  <2>3. CASE i # Len(blocks[s]) + 1
    <3>1. i \in 1..Len(blocks[s]) /\ i \in 1..Len(hashes[s]) BY <1>2, <2>1, <2>3
    <3>2. blocks'[s][i] = blocks[s][i] BY <2>1, <3>1
    <3>3. hashes'[s][i] = hashes[s][i] BY <2>1, <3>1
    <3> QED BY <1>2, <3>1, <3>2, <3>3
  <2> QED BY <2>2, <2>3
<1> QED BY <1>1, <1>2

\* The entries of the tables after a fresh block was put into one of them: it is in
\* no table twice.
LEMMA GrowEntries ==
    ASSUME SharingInv, NEW s \in Seqs, NEW b \in Blocks, GrowTable(s, b)
    PROVE  \A r \in Seqs : \A i \in 1..Len(blocks'[r]) :
               \/ /\ r = s /\ i = Len(blocks[s]) + 1
                  /\ blocks'[r][i] = b /\ hashes'[r][i] = NoHash
               \/ /\ i \in 1..Len(blocks[r])
                  /\ blocks'[r][i] = blocks[r][i] /\ hashes'[r][i] = hashes[r][i]
                  /\ blocks[r][i] # b /\ blocks[r][i] \in Blocks
<1>1. TypeOK /\ RefCounts BY DEF SharingInv, TypeInv
<1>2. ref_count[b] = 0
  <2>1. take_block(b) /\ ref_count' = [ref_count EXCEPT ![b] = 1] BY DEF GrowTable
  <2> QED BY <2>1, TakeBlockPool
<1>3. \A r \in Seqs : \A i \in 1..Len(blocks[r]) : blocks[r][i] # b /\ blocks[r][i] \in Blocks
  BY <1>1, <1>2, Unreferenced DEF TypeOK
<1>4. NoHash \in Hash BY DEF NoHash, Hash
<1>5. /\ blocks'[s] = Append(blocks[s], b) /\ hashes'[s] = Append(hashes[s], NoHash)
      /\ \A q \in Seqs \ {s} : blocks'[q] = blocks[q] /\ hashes'[q] = hashes[q]
  BY <1>1 DEF GrowTable, TypeOK
<1>6. \A r \in Seqs : \A i \in 1..Len(blocks'[r]) :
         \/ /\ r = s /\ i = Len(blocks[s]) + 1
            /\ blocks'[r][i] = b /\ hashes'[r][i] = NoHash
         \/ /\ i \in 1..Len(blocks[r])
            /\ blocks'[r][i] = blocks[r][i] /\ hashes'[r][i] = hashes[r][i]
  BY <1>1, <1>4, <1>5, TableGrow
<1> QED BY <1>3, <1>6

\* A block handed out by allocate_prompt or ensure_slot is in no other table.
LEMMA GrowTableSharing ==
    ASSUME SharingInv, TypeInv', NEW s \in Seqs, NEW b \in Blocks, GrowTable(s, b), UNCHANGED call,
           call.op = "alloc" => call.seq = s /\ call.n <= Len(blocks[s]),
           call.op \in {"alloc", "idle"}
    PROVE  SharingInv'
<1>a. /\ TypeOK /\ RefCounts /\ HashChain /\ UnpublishedPrivate
      /\ CommittedOnly /\ HitsFirst
  BY DEF SharingInv, TypeInv
<1>b. \A r \in Seqs : blocks[r] \in Seq(Blocks) /\ Len(blocks[r]) \in Nat BY <1>a DEF TypeOK
<1>1. /\ take_block(b)
      /\ ref_count' = [ref_count EXCEPT ![b] = 1]
      /\ blocks' = [blocks EXCEPT ![s] = Append(@, b)]
      /\ hashes' = [hashes EXCEPT ![s] = Append(@, NoHash)]
      /\ UNCHANGED <<num_committed, tokens, written>>
  BY DEF GrowTable
<1>2. /\ ref_count[b] = 0 /\ block_hash' = [block_hash EXCEPT ![b] = NoHash]
      /\ PoolPartition' /\ IndexCoherent'
  BY <1>1, TakeBlockPool
<1>3. Owners(b) = {} /\ \A r \in Seqs : \A i \in 1..Len(blocks[r]) : blocks[r][i] # b
  BY <1>a, <1>2, Unreferenced
<1>4. /\ block_hash'[b] = NoHash
      /\ \A c \in Blocks \ {b} : block_hash'[c] = block_hash[c]
  BY <1>a, <1>2 DEF TypeOK
<1>5. ASSUME NEW r \in Seqs, NEW i \in 1..Len(blocks'[r])
      PROVE  \/ /\ r = s /\ i = Len(blocks[s]) + 1
                /\ blocks'[r][i] = b /\ hashes'[r][i] = NoHash
             \/ /\ i \in 1..Len(blocks[r])
                /\ blocks'[r][i] = blocks[r][i] /\ hashes'[r][i] = hashes[r][i]
                /\ blocks[r][i] # b /\ blocks[r][i] \in Blocks
  BY GrowEntries
<1>6. RefCounts'
  <2>1. Owners(b)' = {s} /\ \A c \in Blocks \ {b} : Owners(c)' = Owners(c)
    <3>1. blocks' = [blocks EXCEPT ![s] = Append(@, b)] BY <1>1
    <3>2. Owners(b)' = Owners(b) \union {s} /\ \A c \in Blocks \ {b} : Owners(c)' = Owners(c)
      BY <1>a, <3>1, OwnersGrow, Zenon
    <3> QED BY <1>3, <3>2
  <2>2. Cardinality({s}) = 1 BY FS_Singleton
  <2>3. \A c \in Blocks : ref_count'[c] = Cardinality(Owners(c)')
    BY <1>a, <1>1, <2>1, <2>2 DEF RefCounts, TypeOK
  <2>4. ASSUME NEW r \in Seqs, NEW i \in 1..Len(blocks'[r]), NEW j \in 1..Len(blocks'[r]),
               blocks'[r][i] = blocks'[r][j]
        PROVE  i = j
    BY <1>a, <1>5, <2>4, SMTT(30) DEF RefCounts
  <2> QED BY <2>3, <2>4 DEF RefCounts
<1>7. HashChain'
  <2> SUFFICES ASSUME NEW r \in Seqs, NEW i \in 1..Len(blocks'[r])
               PROVE /\ block_hash'[blocks'[r][i]] = hashes'[r][i]
                     /\ hashes'[r][i] # NoHash =>
                          /\ i * BlockSize <= Len(tokens'[r])
                          /\ hashes'[r][i] = HashOf(tokens'[r], i)
                          /\ i > 1 => hashes'[r][i - 1] # NoHash
    BY DEF HashChain
  <2>1. CASE r = s /\ i = Len(blocks[s]) + 1 /\ blocks'[r][i] = b /\ hashes'[r][i] = NoHash
    BY <1>4, <2>1
  <2>2. CASE /\ i \in 1..Len(blocks[r])
             /\ blocks'[r][i] = blocks[r][i] /\ hashes'[r][i] = hashes[r][i]
             /\ blocks[r][i] # b /\ blocks[r][i] \in Blocks
    <3>1. block_hash'[blocks'[r][i]] = hashes'[r][i] BY <1>a, <1>4, <2>2 DEF HashChain
    <3>2. i > 1 => hashes'[r][i - 1] = hashes[r][i - 1]
      <4> SUFFICES ASSUME i > 1 PROVE hashes'[r][i - 1] = hashes[r][i - 1] OBVIOUS
      <4>1. i - 1 \in 1..Len(blocks'[r]) /\ i - 1 # Len(blocks[r]) + 1
        BY <1>b, <2>2
      <4> QED BY <1>5, <2>2, <4>1
    <3> QED BY <1>a, <1>1, <2>2, <3>1, <3>2 DEF HashChain
  <2> QED BY <1>5, <2>1, <2>2
<1>8. UnpublishedPrivate'
  <2> SUFFICES ASSUME NEW r1 \in Seqs, NEW r2 \in Seqs, NEW i \in 1..Len(blocks'[r1]),
                      NEW j \in 1..Len(blocks'[r2]), r1 # r2, blocks'[r1][i] = blocks'[r2][j]
               PROVE hashes'[r1][i] # NoHash
    BY DEF UnpublishedPrivate
  <2>1. blocks'[r1][i] # b
    BY <1>5
  <2>2. /\ i \in 1..Len(blocks[r1]) /\ hashes'[r1][i] = hashes[r1][i]
        /\ j \in 1..Len(blocks[r2]) /\ blocks[r1][i] = blocks[r2][j]
    BY <1>5, <2>1
  <2> QED BY <1>a, <2>2 DEF UnpublishedPrivate
<1>9. CommittedOnly'
  <2>1. \A r \in Seqs : Committed(r)' = Committed(r) BY <1>1 DEF Committed
  <2> SUFFICES ASSUME NEW r \in Seqs, NEW i \in 1..Len(blocks'[r]), i > Committed(r)
               PROVE hashes'[r][i] = NoHash
    BY <2>1 DEF CommittedOnly
  <2> QED BY <1>a, <1>5 DEF CommittedOnly
<1>10. HitsFirst'
  <2> SUFFICES ASSUME call.op = "alloc", NEW j \in 1..Len(blocks'[s]), j <= call.n
               PROVE hashes'[s][j] = HashOf(tokens[s], j)
    BY <1>1 DEF HitsFirst
  <2>1. j <= Len(blocks[s]) BY <1>a, <1>b, CallTypes
  <2>2. j \in 1..Len(blocks[s]) /\ hashes'[s][j] = hashes[s][j] BY <1>b, <1>5, <2>1
  <2> QED BY <1>a, <2>2 DEF HitsFirst
<1> QED BY <1>2, <1>6, <1>7, <1>8, <1>9, <1>10 DEF SharingInv

\* The hash of block i stands for the first i * block_size_ tokens.
LEMMA HashOfFacts ==
    ASSUME NEW t \in Seq(Token), NEW i \in Nat, i * BlockSize <= Len(t)
    PROVE  /\ HashOf(t, i) \in Seq(Token) /\ Len(HashOf(t, i)) = i * BlockSize
           /\ \A k \in 1..(i * BlockSize) : HashOf(t, i)[k] = t[k]
           /\ i > 0 => HashOf(t, i) # NoHash
<1>1. i * BlockSize \in Nat /\ i * BlockSize \in 0..Len(t) BY Scaled
<1>2. /\ HashOf(t, i) \in Seq(Token) /\ Len(HashOf(t, i)) = i * BlockSize
      /\ \A k \in 1..(i * BlockSize) : HashOf(t, i)[k] = t[k]
  BY <1>1, PrefixType DEF HashOf
<1>3. i > 0 => i * BlockSize > 0 BY Scaled, KVAssumption, SMT
<1>4. Len(NoHash) = 0 BY DEF NoHash
<1> QED BY <1>1, <1>2, <1>3, <1>4

\* Two blocks of one sequence have different hashes: hash_block is position-
\* aware.
LEMMA HashOfInjective ==
    ASSUME NEW t \in Seq(Token), NEW i \in Nat, NEW j \in Nat,
           i * BlockSize <= Len(t), j * BlockSize <= Len(t), HashOf(t, i) = HashOf(t, j)
    PROVE  i = j
<1>1. i * BlockSize = j * BlockSize BY HashOfFacts
<1>2. i < j => i * BlockSize < j * BlockSize BY Scaled, KVAssumption, SMT
<1>3. j < i => j * BlockSize < i * BlockSize BY Scaled, KVAssumption, SMT
<1>4. i * BlockSize \in Nat /\ j * BlockSize \in Nat BY Scaled
<1> QED BY <1>1, <1>2, <1>3, <1>4

\* A cache hit references a published block that the table does not hold yet,
\* taking it out of lru_ if nobody else referenced it.
LEMMA AllocHitSharing == ASSUME SharingInv, TypeInv', AllocHit PROVE SharingInv'
<1>a. /\ TypeOK /\ TypeInv /\ CallContract /\ PoolPartition /\ RefCounts /\ HashChain
      /\ UnpublishedPrivate /\ IndexCoherent /\ CommittedOnly /\ HitsFirst
  BY DEF SharingInv, TypeInv
<1>b. \A r \in Seqs : blocks[r] \in Seq(Blocks) /\ Len(blocks[r]) \in Nat BY <1>a DEF TypeOK
<1>c. PICK s \in Seqs : s = call.seq BY <1>a, CallTypes DEF AllocHit
<1>d. PICK i \in Nat : i = Len(blocks[s]) + 1 BY <1>b
<1>e. PICK h : h = HashOf(tokens[s], i) OBVIOUS
<1>f. PICK b : b = hash_to_block[h] OBVIOUS
<1>1. /\ call.op = "alloc" /\ call.n \in Nat /\ i \in 1..call.n /\ call' = call
      /\ touch_cached(b) /\ ref_count' = Referenced(b)
      /\ blocks' = [blocks EXCEPT ![s] = Append(@, b)]
      /\ hashes' = [hashes EXCEPT ![s] = Append(@, h)]
      /\ UNCHANGED <<free, block_hash, hash_to_block, num_committed, tokens, written, data, call>>
  <2>1. call.op = "alloc" /\ call.n \in Nat BY <1>a, CallTypes DEF AllocHit
  <2>2. i \in 1..call.n BY <1>b, <1>c, <1>d, <2>1 DEF AllocHit
  <2> QED BY <1>c, <1>d, <1>e, <1>f, <2>1, <2>2 DEF AllocHit
<1>2. h \in DOMAIN hash_to_block /\ h \in Hash /\ h # NoHash /\ b \in Blocks
  <2>1. i > Len(blocks[s]) BY <1>b, <1>d
  <2>2. h \in DOMAIN hash_to_block BY <1>a, <1>c, <1>e, <1>1, <2>1 DEF CallContract
  <2> QED BY <1>a, <1>f, <2>2 DEF TypeOK
<1>3. block_hash[b] = h BY <1>a, <1>f, <1>2 DEF IndexCoherent
<1>4. i * BlockSize <= Len(tokens[s]) /\ tokens[s] \in Seq(Token)
  <2>1. call.n * BlockSize <= Len(tokens[s]) /\ tokens[s] \in Seq(Token)
    BY <1>a, <1>c, <1>1 DEF CallContract, TypeOK
  <2>2. i * BlockSize <= call.n * BlockSize /\ i * BlockSize \in Nat /\ call.n * BlockSize \in Nat
    BY <1>1, Scaled
  <2> QED BY <2>1, <2>2
<1>5. \A r \in Seqs : \A k \in 1..Len(blocks'[r]) :
         \/ /\ r = s /\ k = Len(blocks[s]) + 1
            /\ blocks'[r][k] = b /\ hashes'[r][k] = h
         \/ /\ k \in 1..Len(blocks[r])
            /\ blocks'[r][k] = blocks[r][k] /\ hashes'[r][k] = hashes[r][k]
  <2>1. /\ blocks'[s] = Append(blocks[s], b) /\ hashes'[s] = Append(hashes[s], h)
        /\ \A q \in Seqs \ {s} : blocks'[q] = blocks[q] /\ hashes'[q] = hashes[q]
    BY <1>a, <1>1 DEF TypeOK
  <2> QED BY <1>a, <1>2, <2>1, TableGrow
<1>6. \A j \in 1..Len(blocks[s]) : hashes[s][j] = HashOf(tokens[s], j) /\ blocks[s][j] # b
  <2> SUFFICES ASSUME NEW j \in 1..Len(blocks[s])
               PROVE hashes[s][j] = HashOf(tokens[s], j) /\ blocks[s][j] # b
    OBVIOUS
  <2>1. j \in Nat /\ j < i /\ j <= i /\ j <= call.n BY <1>b, <1>d, <1>1
  <2>2. hashes[s][j] = HashOf(tokens[s], j) BY <1>a, <1>c, <1>1, <2>1 DEF HitsFirst
  <2>3. block_hash[blocks[s][j]] = hashes[s][j] BY <1>a DEF HashChain
  <2>4. j * BlockSize <= Len(tokens[s])
    <3>1. j * BlockSize <= i * BlockSize /\ j * BlockSize \in Nat /\ i * BlockSize \in Nat
      BY <2>1, Scaled
    <3> QED BY <1>4, <3>1
  <2>5. HashOf(tokens[s], j) # HashOf(tokens[s], i) BY <1>4, <2>1, <2>4, HashOfInjective
  <2> QED BY <1>e, <1>3, <2>2, <2>3, <2>5
<1>7. /\ ref_count'[b] = ref_count[b] + 1 /\ ref_count[b] \in Nat
      /\ \A c \in Blocks \ {b} : ref_count'[c] = ref_count[c]
  BY <1>a, <1>1, <1>2 DEF Referenced, TypeOK
<1>8. PoolPartition'
  <2>1. free' = {c \in Blocks : ref_count'[c] = 0 /\ block_hash'[c] = NoHash}
    BY <1>a, <1>1, <1>2, <1>3, <1>7 DEF PoolPartition
  <2>2. CASE (\A k \in 1..Len(lru) : lru[k] # b) /\ UNCHANGED lru
    <3>1. b \notin Cached BY <2>2 DEF Cached
    <3>2. Cached' = Cached BY <2>2 DEF Cached
    <3>3. Cached' = {c \in Blocks : ref_count'[c] = 0 /\ block_hash'[c] # NoHash}
      BY <1>a, <1>1, <1>2, <1>3, <1>7, <3>1, <3>2 DEF PoolPartition
    <3> QED BY <1>a, <2>1, <2>2, <3>3 DEF PoolPartition
  <2>3. ASSUME NEW k \in 1..Len(lru), lru[k] = b, lru' = DropAt(lru, k) PROVE PoolPartition'
    <3>1. Cached' = Cached \ {b} /\ \A m, j \in 1..Len(lru') : lru'[m] = lru'[j] => m = j
      BY <1>a, <2>3, LruDrop
    <3>2. Cached' = {c \in Blocks : ref_count'[c] = 0 /\ block_hash'[c] # NoHash}
      BY <1>a, <1>1, <1>7, <3>1 DEF PoolPartition
    <3> QED BY <2>1, <3>1, <3>2 DEF PoolPartition
  <2> QED BY <1>1, <2>2, <2>3 DEF touch_cached
<1>9. RefCounts'
  <2>1. blocks' = [blocks EXCEPT ![s] = Append(@, b)] BY <1>1
  <2>2. Owners(b)' = Owners(b) \union {s} /\ \A c \in Blocks \ {b} : Owners(c)' = Owners(c)
    BY <1>a, <1>2, <2>1, OwnersGrow, Zenon
  <2>3. s \notin Owners(b) BY <1>6 DEF Owners
  <2>4. Cardinality(Owners(b) \union {s}) = Cardinality(Owners(b)) + 1
    BY <2>3, OwnersFinite, FS_AddElement
  <2>5. \A c \in Blocks : ref_count'[c] = Cardinality(Owners(c)')
    BY <1>a, <1>2, <1>7, <2>2, <2>4 DEF RefCounts
  <2>6. ASSUME NEW r \in Seqs, NEW j \in 1..Len(blocks'[r]), NEW k \in 1..Len(blocks'[r]),
               blocks'[r][j] = blocks'[r][k]
        PROVE  j = k
    BY <1>a, <1>5, <1>6, <2>6 DEF RefCounts
  <2> QED BY <2>5, <2>6 DEF RefCounts
<1>10. IndexCoherent' BY <1>a, <1>1 DEF IndexCoherent
<1>11. HashChain'
  <2> SUFFICES ASSUME NEW r \in Seqs, NEW k \in 1..Len(blocks'[r])
               PROVE /\ block_hash'[blocks'[r][k]] = hashes'[r][k]
                     /\ hashes'[r][k] # NoHash =>
                          /\ k * BlockSize <= Len(tokens'[r])
                          /\ hashes'[r][k] = HashOf(tokens'[r], k)
                          /\ k > 1 => hashes'[r][k - 1] # NoHash
    BY DEF HashChain
  <2>1. CASE r = s /\ k = Len(blocks[s]) + 1 /\ blocks'[r][k] = b /\ hashes'[r][k] = h
    <3>1. block_hash'[b] = h /\ tokens' = tokens /\ k = i BY <1>d, <1>1, <1>3, <2>1
    <3>2. k > 1 => hashes'[r][k - 1] # NoHash
      <4> SUFFICES ASSUME k > 1 PROVE hashes'[r][k - 1] # NoHash OBVIOUS
      <4>1. k - 1 \in 1..Len(blocks[s]) /\ k - 1 \in 1..Len(blocks'[s]) /\ k - 1 # Len(blocks[s]) + 1
        BY <1>b, <2>1
      <4>2. hashes'[s][k - 1] = hashes[s][k - 1] BY <1>5, <4>1
      <4>3. hashes[s][k - 1] = HashOf(tokens[s], k - 1) BY <1>6, <4>1
      <4>4. (k - 1) * BlockSize <= Len(tokens[s]) /\ k - 1 \in Nat /\ k - 1 > 0
        <5>1. k - 1 \in Nat /\ i \in Nat /\ k - 1 <= i BY <1>d, <2>1
        <5>2. /\ (k - 1) * BlockSize <= i * BlockSize
              /\ (k - 1) * BlockSize \in Nat /\ i * BlockSize \in Nat
          BY <5>1, Scaled
        <5> QED BY <1>4, <5>1, <5>2
      <4> QED BY <1>4, <2>1, <4>2, <4>3, <4>4, HashOfFacts
    <3> QED BY <1>e, <1>4, <2>1, <3>1, <3>2
  <2>2. CASE /\ k \in 1..Len(blocks[r])
             /\ blocks'[r][k] = blocks[r][k] /\ hashes'[r][k] = hashes[r][k]
    <3>1. k > 1 => hashes'[r][k - 1] = hashes[r][k - 1]
      <4> SUFFICES ASSUME k > 1 PROVE hashes'[r][k - 1] = hashes[r][k - 1] OBVIOUS
      <4>1. k - 1 \in 1..Len(blocks'[r]) /\ k - 1 # Len(blocks[r]) + 1 BY <1>b, <2>2
      <4> QED BY <1>5, <4>1
    <3> QED BY <1>a, <1>1, <2>2, <3>1 DEF HashChain
  <2> QED BY <1>5, <2>1, <2>2
<1>12. UnpublishedPrivate'
  <2> SUFFICES ASSUME NEW r1 \in Seqs, NEW r2 \in Seqs, NEW j \in 1..Len(blocks'[r1]),
                      NEW k \in 1..Len(blocks'[r2]), r1 # r2, blocks'[r1][j] = blocks'[r2][k]
               PROVE hashes'[r1][j] # NoHash
    BY DEF UnpublishedPrivate
  <2>1. block_hash'[blocks'[r1][j]] = hashes'[r1][j] BY <1>11 DEF HashChain
  <2>2. CASE blocks'[r1][j] = b BY <1>1, <1>2, <1>3, <2>1, <2>2
  <2>3. CASE blocks'[r1][j] # b
    <3>1. /\ j \in 1..Len(blocks[r1]) /\ hashes'[r1][j] = hashes[r1][j]
          /\ k \in 1..Len(blocks[r2]) /\ blocks[r1][j] = blocks[r2][k]
      BY <1>5, <2>3
    <3> QED BY <1>a, <3>1 DEF UnpublishedPrivate
  <2> QED BY <2>2, <2>3
<1>13. CommittedOnly'
  <2>1. \A r \in Seqs : Committed(r)' = Committed(r) BY <1>1 DEF Committed
  <2> SUFFICES ASSUME NEW r \in Seqs, NEW k \in 1..Len(blocks'[r]), k > Committed(r)
               PROVE hashes'[r][k] = NoHash
    BY <2>1 DEF CommittedOnly
  <2>2. Committed(s) = call.n BY <1>c, <1>1 DEF Committed
  <2>3. ~(r = s /\ k = Len(blocks[s]) + 1) BY <1>d, <1>1, <2>2
  <2> QED BY <1>a, <1>5, <2>3 DEF CommittedOnly
<1>14. HitsFirst'
  <2> SUFFICES ASSUME NEW j \in 1..Len(blocks'[s]), j <= call.n
               PROVE hashes'[s][j] = HashOf(tokens[s], j)
    BY <1>c, <1>1 DEF HitsFirst
  <2> QED BY <1>d, <1>e, <1>5, <1>6
<1> QED BY <1>8, <1>9, <1>10, <1>11, <1>12, <1>13, <1>14 DEF SharingInv

\* What hash_full_block computes from the previous block's hash is the hash of
\* the whole prefix.
LEMMA ChainedHashOf ==
    ASSUME TypeOK, HashChain, NEW s \in Seqs, NEW i \in 1..Len(blocks[s]),
           i * BlockSize <= Len(tokens[s]), Publishable(s, i)
    PROVE  ChainedHash(s, i) = HashOf(tokens[s], i)
<1> DEFINE t == tokens[s]
           m == (i - 1) * BlockSize
           p == IF i = 1 THEN NoHash ELSE hashes[s][i - 1]
<1>1. t \in Seq(Token) /\ i \in Nat \ {0} /\ BlockSize \in Nat \ {0} /\ Len(blocks[s]) \in Nat
  BY KVAssumption DEF TypeOK
<1>2. m \in Nat /\ m + BlockSize = i * BlockSize /\ i * BlockSize \in Nat
  BY <1>1, SMT
<1>3. p \in Seq(Token) /\ Len(p) = m /\ \A k \in 1..m : p[k] = t[k]
  <2>1. CASE i = 1
    <3>1. m = 0 BY <1>1, <2>1, SMT
    <3> QED BY <2>1, <3>1 DEF NoHash
  <2>2. CASE i # 1
    <3>1. i - 1 \in 1..Len(blocks[s]) /\ i > 1 BY <1>1, <2>2
    <3>2. hashes[s][i - 1] # NoHash BY <3>1 DEF Publishable
    <3>3. hashes[s][i - 1] = HashOf(t, i - 1) /\ m <= Len(t) BY <3>1, <3>2 DEF HashChain
    <3>4. i - 1 \in Nat BY <1>1
    <3>5. /\ HashOf(t, i - 1) \in Seq(Token) /\ Len(HashOf(t, i - 1)) = m
          /\ \A k \in 1..m : HashOf(t, i - 1)[k] = t[k]
      BY <1>1, <3>3, <3>4, HashOfFacts
    <3>6. p = HashOf(t, i - 1) BY <2>2, <3>3
    <3> QED BY <3>5, <3>6
  <2> QED BY <2>1, <2>2
<1>4. /\ Chunk(t, i) \in Seq(Token) /\ Len(Chunk(t, i)) = BlockSize
      /\ \A o \in 1..BlockSize : Chunk(t, i)[o] = t[m + o]
  BY <1>1, ChunkType DEF Chunk
<1>5. /\ HashOf(t, i) \in Seq(Token) /\ Len(HashOf(t, i)) = m + BlockSize
      /\ \A k \in 1..(m + BlockSize) : HashOf(t, i)[k] = t[k]
  BY <1>1, <1>2, HashOfFacts
<1> DEFINE c == Chunk(t, i)
<1> HIDE DEF p, m, c
<1>6. p \o c \in Seq(Token) /\ Len(p \o c) = m + BlockSize
  BY <1>2, <1>3, <1>4 DEF c
<1>7. \A k \in 1..(m + BlockSize) : (p \o c)[k] = t[k]
  <2> SUFFICES ASSUME NEW k \in 1..(m + BlockSize) PROVE (p \o c)[k] = t[k] OBVIOUS
  <2>1. CASE k <= m BY <1>1, <1>2, <1>3, <1>4, <2>1 DEF c
  <2>2. CASE k > m
    <3>1. k - m \in 1..BlockSize /\ m + (k - m) = k BY <1>1, <1>2, <2>2
    <3>2. (p \o c)[k] = c[k - m] BY <1>1, <1>2, <1>3, <1>4, <2>2, SMTT(30) DEF c
    <3> QED BY <1>4, <3>1, <3>2 DEF c
  <2>3. k <= m \/ k > m BY <1>1, <1>2
  <2> QED BY <2>1, <2>2, <2>3, Zenon
<1>8. p \o c = HashOf(t, i) BY <1>5, <1>6, <1>7, SeqEqual
<1> QED BY <1>8 DEF p, c, ChainedHash, hash_block

\* Publishing a block in commit_computed: it was unhashed and private, and its
\* hash was not indexed.
LEMMA CommitStepSharing == ASSUME SharingInv, TypeInv', CommitStep PROVE SharingInv'
<1>a. /\ TypeOK /\ TypeInv /\ CallContract /\ TableBounds /\ PoolPartition /\ RefCounts /\ HashChain
      /\ UnpublishedPrivate /\ IndexCoherent /\ CommittedOnly /\ HitsFirst
  BY DEF SharingInv, TypeInv
<1>b. \A r \in Seqs : blocks[r] \in Seq(Blocks) /\ Len(blocks[r]) \in Nat BY <1>a DEF TypeOK
<1>c. PICK s \in Seqs : s = call.seq BY <1>a, CallTypes DEF CommitStep
<1>d. PICK i \in Nat : i = num_committed[s] + 1 BY <1>a DEF TypeOK
<1>1. /\ call.op = "commit" /\ call.n \in Nat
      /\ i \in 1..Len(blocks[s]) /\ i * BlockSize <= call.n
      /\ num_committed' = [num_committed EXCEPT ![s] = i]
      /\ hash_full_block(s, i)
      /\ UNCHANGED <<free, lru, ref_count, blocks, tokens, written, data, call>>
  <2>1. call.op = "commit" /\ call.n \in Nat BY <1>a, CallTypes DEF CommitStep
  <2>2. num_committed[s] \in Nat BY <1>a DEF TypeOK
  <2> QED BY <1>b, <1>c, <1>d, <2>1, <2>2 DEF CommitStep, CommitMore
<1>2. i * BlockSize <= Len(tokens[s]) /\ tokens[s] \in Seq(Token)
  <2>1. call.n <= written[s] /\ written[s] <= Len(tokens[s])
    BY <1>a, <1>c, <1>1 DEF CallContract, TableBounds
  <2>2. i * BlockSize \in Nat /\ written[s] \in Nat /\ Len(tokens[s]) \in Nat /\ tokens[s] \in Seq(Token)
    BY <1>a, <1>1, Scaled DEF TypeOK
  <2> QED BY <1>1, <2>1, <2>2
<1>e. PICK b \in Blocks : b = blocks[s][i] BY <1>b, <1>1
<1>f. PICK h : h = ChainedHash(s, i) OBVIOUS
<1>3. \A r \in Seqs : Committed(r) = num_committed[r] /\ Committed(r)' = num_committed'[r]
  BY <1>1 DEF Committed
<1>4. block_hash[b] = NoHash /\ hashes[s][i] = NoHash
  <2>1. hashes[s][i] = NoHash
    BY <1>a, <1>d, <1>1, <1>3 DEF CommittedOnly, TypeOK
  <2> QED BY <1>a, <1>e, <1>1, <2>1 DEF HashChain
<1>5. ASSUME NEW r \in Seqs, NEW k \in 1..Len(blocks[r]), blocks[r][k] = b
      PROVE  r = s /\ k = i
  <2>1. r = s BY <1>a, <1>e, <1>1, <1>4, <1>5 DEF UnpublishedPrivate
  <2> QED BY <1>a, <1>e, <1>1, <1>5, <2>1 DEF RefCounts
<1>6. RefCounts'
  <2>1. \A c : Owners(c)' = Owners(c) BY <1>1 DEF Owners
  <2> QED BY <1>a, <1>1, <2>1 DEF RefCounts
<1>7. HitsFirst' BY <1>1 DEF HitsFirst
<1>8. CASE UNCHANGED <<hash_to_block, block_hash, hashes>>
  <2>1. PoolPartition' BY <1>a, <1>1, <1>8 DEF PoolPartition, Cached
  <2>2. IndexCoherent' BY <1>a, <1>8 DEF IndexCoherent
  <2>3. HashChain' BY <1>a, <1>1, <1>8 DEF HashChain
  <2>4. UnpublishedPrivate' BY <1>a, <1>1, <1>8 DEF UnpublishedPrivate
  <2>5. CommittedOnly'
    <3>1. \A r \in Seqs : num_committed[r] \in Nat /\ num_committed'[r] \in Nat
                          /\ num_committed[r] <= num_committed'[r]
      BY <1>a, <1>d, <1>1, SMTT(30) DEF TypeOK
    <3> QED BY <1>a, <1>1, <1>3, <1>8, <3>1 DEF CommittedOnly
  <2> QED BY <1>6, <1>7, <2>1, <2>2, <2>3, <2>4, <2>5 DEF SharingInv
<1>9. CASE /\ Publishable(s, i)
           /\ hash_to_block' = [g \in DOMAIN hash_to_block \union {h} |->
                                   IF g = h THEN b ELSE hash_to_block[g]]
           /\ block_hash' = [block_hash EXCEPT ![b] = h]
           /\ hashes' = [hashes EXCEPT ![s][i] = h]
  <2>1. h = HashOf(tokens[s], i) /\ h # NoHash
    <3>1. h = HashOf(tokens[s], i) BY <1>a, <1>f, <1>1, <1>2, <1>9, ChainedHashOf
    <3> QED BY <1>1, <1>2, <3>1, HashOfFacts
  <2>2. h \notin DOMAIN hash_to_block BY <1>f, <1>9 DEF Publishable
  <2>3. block_hash'[b] = h /\ \A c \in Blocks \ {b} : block_hash'[c] = block_hash[c]
    BY <1>a, <1>9 DEF TypeOK
  <2>4. /\ hashes'[s][i] = h
        /\ \A r \in Seqs : \A k \in 1..Len(blocks[r]) : ~(r = s /\ k = i) => hashes'[r][k] = hashes[r][k]
    BY <1>a, <1>1, <1>9 DEF TypeOK
  <2>5. PoolPartition'
    <3>1. ref_count[b] # 0 BY <1>a, <1>e, <1>1, TableReferenced
    <3>2. free' = {c \in Blocks : ref_count'[c] = 0 /\ block_hash'[c] = NoHash}
      BY <1>a, <1>1, <2>3, <3>1 DEF PoolPartition
    <3>3. Cached' = {c \in Blocks : ref_count'[c] = 0 /\ block_hash'[c] # NoHash}
      BY <1>a, <1>1, <2>3, <3>1 DEF PoolPartition, Cached
    <3> QED BY <1>a, <1>1, <3>2, <3>3 DEF PoolPartition
  <2>6. IndexCoherent'
    <3>1. ASSUME NEW g \in DOMAIN hash_to_block' PROVE block_hash'[hash_to_block'[g]] = g
      <4>1. CASE g = h BY <1>9, <2>3, <4>1
      <4>2. CASE g # h
        <5>1. g \in DOMAIN hash_to_block /\ hash_to_block'[g] = hash_to_block[g] BY <1>9, <3>1, <4>2
        <5>2. block_hash[hash_to_block[g]] = g /\ hash_to_block[g] \in Blocks /\ g # NoHash
          BY <1>a, <5>1 DEF IndexCoherent, TypeOK
        <5> QED BY <1>4, <2>3, <5>1, <5>2
      <4> QED BY <4>1, <4>2
    <3>2. ASSUME NEW c \in Blocks, block_hash'[c] # NoHash
          PROVE  block_hash'[c] \in DOMAIN hash_to_block' /\ hash_to_block'[block_hash'[c]] = c
      <4>1. CASE c = b BY <1>9, <2>3, <4>1
      <4>2. CASE c # b
        <5>1. block_hash'[c] = block_hash[c] BY <2>3, <4>2
        <5>2. block_hash[c] \in DOMAIN hash_to_block /\ hash_to_block[block_hash[c]] = c
          BY <1>a, <3>2, <5>1 DEF IndexCoherent
        <5> QED BY <1>9, <2>2, <5>1, <5>2
      <4> QED BY <4>1, <4>2
    <3> QED BY <3>1, <3>2 DEF IndexCoherent
  <2>7. HashChain'
    <3> SUFFICES ASSUME NEW r \in Seqs, NEW k \in 1..Len(blocks[r])
                 PROVE /\ block_hash'[blocks[r][k]] = hashes'[r][k]
                       /\ hashes'[r][k] # NoHash =>
                            /\ k * BlockSize <= Len(tokens[r])
                            /\ hashes'[r][k] = HashOf(tokens[r], k)
                            /\ k > 1 => hashes'[r][k - 1] # NoHash
      BY <1>1 DEF HashChain
    <3>1. k > 1 => k - 1 \in 1..Len(blocks[r]) BY <1>b
    <3>2. CASE r = s /\ k = i
      <4>1. k > 1 => hashes'[r][k - 1] # NoHash
        <5> SUFFICES ASSUME k > 1 PROVE hashes'[r][k - 1] # NoHash OBVIOUS
        <5>1. k - 1 # i BY <3>2
        <5> QED BY <1>9, <2>4, <3>1, <3>2, <5>1 DEF Publishable
      <4> QED BY <1>e, <1>2, <2>1, <2>3, <2>4, <3>2, <4>1
    <3>3. CASE ~(r = s /\ k = i)
      <4>1. blocks[r][k] # b /\ blocks[r][k] \in Blocks BY <1>b, <1>5, <3>3
      <4>2. block_hash'[blocks[r][k]] = hashes'[r][k] BY <1>a, <2>3, <2>4, <3>3, <4>1 DEF HashChain
      <4>3. hashes'[r][k] # NoHash /\ k > 1 => hashes'[r][k - 1] # NoHash
        <5> SUFFICES ASSUME hashes'[r][k] # NoHash, k > 1 PROVE hashes'[r][k - 1] # NoHash OBVIOUS
        <5>1. hashes[r][k - 1] # NoHash BY <1>a, <2>4, <3>3 DEF HashChain
        <5> QED BY <2>1, <2>4, <3>1, <5>1
      <4> QED BY <1>a, <2>4, <3>3, <4>2, <4>3 DEF HashChain
    <3> QED BY <3>2, <3>3
  <2>8. UnpublishedPrivate'
    <3> SUFFICES ASSUME NEW r1 \in Seqs, NEW r2 \in Seqs, NEW j \in 1..Len(blocks[r1]),
                        NEW k \in 1..Len(blocks[r2]), r1 # r2, blocks[r1][j] = blocks[r2][k]
                 PROVE hashes'[r1][j] # NoHash
      BY <1>1 DEF UnpublishedPrivate
    <3>1. hashes[r1][j] # NoHash BY <1>a DEF UnpublishedPrivate
    <3> QED BY <2>1, <2>4, <3>1
  <2>9. CommittedOnly'
    <3> SUFFICES ASSUME NEW r \in Seqs, NEW k \in 1..Len(blocks[r]), k > num_committed'[r]
                 PROVE hashes'[r][k] = NoHash
      BY <1>1, <1>3 DEF CommittedOnly
    <3>1. CASE r = s
      <4>1. num_committed'[s] = i /\ num_committed[s] \in Nat /\ num_committed[s] < i /\ k \in Nat
        BY <1>a, <1>b, <1>d, <1>1, SMTT(30) DEF TypeOK
      <4>2. k > num_committed[s] /\ k # i BY ONLY <3>1, <4>1, k > num_committed'[r], i \in Nat
      <4> QED BY <1>a, <1>3, <2>4, <3>1, <4>2 DEF CommittedOnly
    <3>2. CASE r # s
      <4>1. num_committed'[r] = num_committed[r] BY <1>a, <1>1, <3>2 DEF TypeOK
      <4> QED BY <1>a, <1>3, <2>4, <3>2, <4>1 DEF CommittedOnly
    <3> QED BY <3>1, <3>2
  <2> QED BY <1>6, <1>7, <2>5, <2>6, <2>7, <2>8, <2>9 DEF SharingInv
<1> QED BY <1>e, <1>f, <1>1, <1>8, <1>9 DEF hash_full_block

\* The entries of the tables after free has released the last block of one: they are
\* the old ones, and none is the block if that was its last reference.
LEMMA FreeEntries ==
    ASSUME SharingInv, FreeStep, NEW s \in Seqs, s = call.seq,
           NEW b \in Blocks, b = blocks[s][Len(blocks[s])]
    PROVE  \A r \in Seqs : \A k \in 1..Len(blocks'[r]) :
               /\ k \in 1..Len(blocks[r])
               /\ blocks'[r][k] = blocks[r][k] /\ hashes'[r][k] = hashes[r][k]
               /\ ref_count[b] = 1 => blocks[r][k] # b
<1>a. TypeOK /\ RefCounts BY DEF SharingInv, TypeInv
<1>c. Len(blocks[s]) \in Nat BY <1>a DEF TypeOK
<1>b. PICK n \in Nat : n = Len(blocks[s]) BY <1>c
<1>1. /\ n \in 1..Len(blocks[s]) /\ Len(hashes[s]) = n /\ b = blocks[s][n]
      /\ blocks' = [blocks EXCEPT ![s] = DropAt(@, n)]
      /\ hashes' = [hashes EXCEPT ![s] = DropAt(@, n)]
  BY <1>a, <1>b DEF FreeStep, ReleaseIndex, TypeOK
<1> SUFFICES ASSUME NEW r \in Seqs, NEW k \in 1..Len(blocks'[r])
             PROVE /\ k \in 1..Len(blocks[r])
                   /\ blocks'[r][k] = blocks[r][k] /\ hashes'[r][k] = hashes[r][k]
                   /\ ref_count[b] = 1 => blocks[r][k] # b
  OBVIOUS
<1>2. CASE r # s
  <2>1. k \in 1..Len(blocks[r]) /\ blocks'[r][k] = blocks[r][k] /\ hashes'[r][k] = hashes[r][k]
    BY <1>a, <1>1, <1>2 DEF TypeOK
  <2>2. ASSUME ref_count[b] = 1 PROVE blocks[r][k] # b
    <3>1. s \in Owners(b) BY <1>1 DEF Owners
    <3>2. Owners(b) = {s} BY <1>a, <2>2, <3>1, SoleOwner
    <3>3. r \notin Owners(b) BY <1>2, <3>2
    <3> QED BY <2>1, <3>3 DEF Owners
  <2> QED BY <2>1, <2>2
<1>3. CASE r = s
  <2>1. /\ blocks[s] \in Seq(Blocks) /\ hashes[s] \in Seq(Hash)
        /\ Len(blocks[s]) = n /\ Len(hashes[s]) = n
        /\ n \in 1..Len(blocks[s]) /\ n \in 1..Len(hashes[s])
        /\ blocks'[s] = DropAt(blocks[s], n) /\ hashes'[s] = DropAt(hashes[s], n)
    BY <1>a, <1>b, <1>1 DEF TypeOK
  <2>2. /\ Len(DropAt(blocks[s], n)) = n - 1
        /\ \A j \in 1..(n - 1) : DropAt(blocks[s], n)[j] = IF j < n THEN blocks[s][j] ELSE blocks[s][j + 1]
    <3>1. blocks[s] \in Seq(Blocks) /\ n \in 1..Len(blocks[s]) /\ Len(blocks[s]) = n BY <2>1
    <3> QED BY ONLY <3>1, DropAtType
  <2>7. \A j \in 1..(Len(hashes[s]) - 1) :
            DropAt(hashes[s], n)[j] = IF j < n THEN hashes[s][j] ELSE hashes[s][j + 1]
    <3>1. hashes[s] \in Seq(Hash) /\ n \in 1..Len(hashes[s]) BY <2>1
    <3> QED BY ONLY <3>1, DropAtType
  <2>3. \A j \in 1..(n - 1) : DropAt(hashes[s], n)[j] = IF j < n THEN hashes[s][j] ELSE hashes[s][j + 1]
    BY <2>1, <2>7
  <2>4. k \in 1..(n - 1) /\ k < n /\ k \in 1..Len(blocks[s]) BY <1>3, <2>1, <2>2
  <2>5. blocks'[s][k] = blocks[s][k] /\ hashes'[s][k] = hashes[s][k] BY <2>1, <2>2, <2>3, <2>4
  <2>6. blocks[s][k] # b BY <1>a, <1>1, <2>4 DEF RefCounts
  <2> QED BY <1>3, <2>4, <2>5, <2>6
<1> QED BY <1>2, <1>3

\* Releasing a block in free: it stays published while others reference it, and
\* moves to lru_ or to free_ with its last reference.
LEMMA FreeStepSharing == ASSUME SharingInv, TypeInv', FreeStep PROVE SharingInv'
<1>a. /\ TypeOK /\ TypeInv /\ PoolPartition /\ RefCounts /\ HashChain
      /\ UnpublishedPrivate /\ IndexCoherent /\ CommittedOnly
  BY DEF SharingInv, TypeInv
<1>b. \A r \in Seqs : blocks[r] \in Seq(Blocks) /\ Len(blocks[r]) \in Nat BY <1>a DEF TypeOK
<1>c. PICK s \in Seqs : s = call.seq BY <1>a, CallTypes DEF FreeStep
<1>d. PICK n \in Nat : n = Len(blocks[s]) BY <1>b
<1>1. /\ call.op = "free" /\ n \in 1..Len(blocks[s]) /\ blocks[s] # <<>>
      /\ release_block(blocks[s][n], hashes[s][n])
      /\ blocks' = [blocks EXCEPT ![s] = DropAt(@, Len(@))]
      /\ hashes' = [hashes EXCEPT ![s] = DropAt(@, Len(@))]
      /\ UNCHANGED <<num_committed, tokens, written, call>>
  <2>1. blocks[s] # <<>> /\ n \in 1..Len(blocks[s]) /\ Len(hashes[s]) = n
    BY <1>a, <1>b, <1>c, <1>d DEF FreeStep, TypeOK
  <2> QED BY <1>c, <1>d, <2>1 DEF FreeStep, ReleaseIndex
<1>e. PICK b \in Blocks : b = blocks[s][n] BY <1>b, <1>1
<1>f. PICK h : h = hashes[s][n] OBVIOUS
<1>2. block_hash[b] = h /\ s \in Owners(b) /\ ref_count[b] \in Nat \ {0}
  BY <1>a, <1>e, <1>f, <1>1, TableReferenced DEF HashChain
<1>3. /\ ref_count'[b] = ref_count[b] - 1
      /\ \A c \in Blocks \ {b} : ref_count'[c] = ref_count[c]
  BY <1>a, <1>e, <1>1 DEF release_block, TypeOK
<1>4. \A r \in Seqs : \A k \in 1..Len(blocks'[r]) :
         /\ k \in 1..Len(blocks[r])
         /\ blocks'[r][k] = blocks[r][k] /\ hashes'[r][k] = hashes[r][k]
         /\ ref_count[b] = 1 => blocks[r][k] # b
  <2>1. b = blocks[s][Len(blocks[s])] BY <1>d, <1>e
  <2> QED BY <1>c, <2>1, FreeEntries
<1>5. RefCounts'
  <2>1. /\ blocks' = [blocks EXCEPT ![s] = DropAt(@, Len(@))] /\ b = blocks[s][Len(blocks[s])]
        /\ blocks[s] # <<>>
    BY <1>d, <1>e, <1>1
  <2>2. Owners(b)' = Owners(b) \ {s} /\ \A c \in Blocks \ {b} : Owners(c)' = Owners(c)
    BY <1>a, <2>1, OwnersShrink
  <2>3. Cardinality(Owners(b) \ {s}) = Cardinality(Owners(b)) - 1
    BY <1>2, OwnersFinite, FS_RemoveElement
  <2>4. \A c \in Blocks : ref_count'[c] = Cardinality(Owners(c)')
    BY <1>a, <1>3, <2>2, <2>3 DEF RefCounts
  <2>5. ASSUME NEW r \in Seqs, NEW j \in 1..Len(blocks'[r]), NEW k \in 1..Len(blocks'[r]),
               blocks'[r][j] = blocks'[r][k]
        PROVE  j = k
    BY <1>a, <1>4, <2>5 DEF RefCounts
  <2> QED BY <2>4, <2>5 DEF RefCounts
\* Only a block that no table names any more changes its hash.
<1>6. /\ PoolPartition' /\ IndexCoherent'
      /\ \A r \in Seqs : \A k \in 1..Len(blocks'[r]) :
            block_hash'[blocks'[r][k]] = block_hash[blocks[r][k]]
  <2>1. CASE ~LastReference(b) /\ UNCHANGED <<free, lru, block_hash, hash_to_block, data>>
    <3>1. ref_count'[b] # 0 BY <1>2, <1>3, <2>1 DEF LastReference
    <3>2. free' = {c \in Blocks : ref_count'[c] = 0 /\ block_hash'[c] = NoHash}
      BY <1>a, <1>2, <1>3, <2>1, <3>1 DEF PoolPartition
    <3>3. Cached' = {c \in Blocks : ref_count'[c] = 0 /\ block_hash'[c] # NoHash}
      BY <1>a, <1>2, <1>3, <2>1, <3>1 DEF PoolPartition, Cached
    <3>4. IndexCoherent' BY <1>a, <2>1 DEF IndexCoherent
    <3> QED BY <1>a, <1>4, <2>1, <3>2, <3>3, <3>4 DEF PoolPartition
  <2>2. CASE /\ LastReference(b) /\ h # NoHash
             /\ lru' = Append(lru, b) /\ UNCHANGED <<free, block_hash, hash_to_block, data>>
    <3>1. ref_count'[b] = 0 BY <1>2, <1>3, <2>2 DEF LastReference
    <3>2. lru \in Seq(Blocks) /\ b \notin Cached BY <1>a, <1>2 DEF PoolPartition, TypeOK
    <3>3. Cached' = Cached \union {b} /\ \A j, k \in 1..Len(lru') : lru'[j] = lru'[k] => j = k
      <4>1. /\ Len(lru') = Len(lru) + 1 /\ Len(lru) \in Nat /\ lru'[Len(lru) + 1] = b
            /\ \A k \in 1..Len(lru) : lru'[k] = lru[k] /\ lru[k] # b
        BY <2>2, <3>2 DEF Cached
      <4>2. 1..Len(lru') = 1..Len(lru) \union {Len(lru) + 1} BY <4>1
      <4>3. Cached' = Cached \union {b} BY <4>1, <4>2 DEF Cached
      <4>4. ASSUME NEW j \in 1..Len(lru'), NEW k \in 1..Len(lru'), lru'[j] = lru'[k] PROVE j = k
        BY <1>a, <4>1, <4>2, <4>4 DEF PoolPartition
      <4> QED BY <4>3, <4>4
    <3>4. free' = {c \in Blocks : ref_count'[c] = 0 /\ block_hash'[c] = NoHash}
      BY <1>a, <1>2, <1>3, <2>2 DEF PoolPartition
    <3>5. Cached' = {c \in Blocks : ref_count'[c] = 0 /\ block_hash'[c] # NoHash}
      BY <1>a, <1>2, <1>3, <2>2, <3>1, <3>3 DEF PoolPartition
    <3>6. IndexCoherent' BY <1>a, <2>2 DEF IndexCoherent
    <3> QED BY <1>4, <2>2, <3>3, <3>4, <3>5, <3>6 DEF PoolPartition
  <2>3. CASE /\ LastReference(b)
             /\ hash_to_block' = Unindexed(block_hash[b])
             /\ block_hash' = [block_hash EXCEPT ![b] = NoHash]
             /\ free' = free \union {b} /\ UNCHANGED lru
    <3>1. ref_count'[b] = 0 BY <1>2, <1>3, <2>3 DEF LastReference
    <3>2. /\ block_hash'[b] = NoHash
          /\ \A c \in Blocks \ {b} : block_hash'[c] = block_hash[c]
      BY <1>a, <2>3 DEF TypeOK
    <3>3. b \notin Cached BY <1>a, <1>2 DEF PoolPartition
    <3>4. free' = {c \in Blocks : ref_count'[c] = 0 /\ block_hash'[c] = NoHash}
      BY <1>a, <1>3, <2>3, <3>1, <3>2 DEF PoolPartition
    <3>5. Cached' = Cached BY <2>3 DEF Cached
    <3>6. Cached' = {c \in Blocks : ref_count'[c] = 0 /\ block_hash'[c] # NoHash}
      BY <1>a, <1>3, <3>2, <3>3, <3>5 DEF PoolPartition
    <3>7. IndexCoherent' BY <1>a, <2>3, UnindexBlock
    <3>9. ASSUME NEW r \in Seqs, NEW k \in 1..Len(blocks'[r])
          PROVE  block_hash'[blocks'[r][k]] = block_hash[blocks[r][k]]
      <4>1. /\ k \in 1..Len(blocks[r]) /\ blocks'[r][k] = blocks[r][k]
            /\ blocks[r][k] # b
        BY <1>4, <2>3, <3>9 DEF LastReference
      <4>2. blocks[r][k] \in Blocks BY <1>b, <4>1
      <4> QED BY <3>2, <4>1, <4>2
    <3> QED BY <1>a, <2>3, <3>4, <3>6, <3>7, <3>9 DEF PoolPartition
  <2> QED BY <1>e, <1>f, <1>1, <2>1, <2>2, <2>3 DEF release_block
<1>7. HashChain'
  <2> SUFFICES ASSUME NEW r \in Seqs, NEW k \in 1..Len(blocks'[r])
               PROVE /\ block_hash'[blocks'[r][k]] = hashes'[r][k]
                     /\ hashes'[r][k] # NoHash =>
                          /\ k * BlockSize <= Len(tokens'[r])
                          /\ hashes'[r][k] = HashOf(tokens'[r], k)
                          /\ k > 1 => hashes'[r][k - 1] # NoHash
    BY DEF HashChain
  <2>1. /\ k \in 1..Len(blocks[r])
        /\ blocks'[r][k] = blocks[r][k] /\ hashes'[r][k] = hashes[r][k]
        /\ block_hash'[blocks'[r][k]] = block_hash[blocks[r][k]]
    BY <1>4, <1>6
  <2>2. k > 1 => hashes'[r][k - 1] = hashes[r][k - 1]
    <3> SUFFICES ASSUME k > 1 PROVE hashes'[r][k - 1] = hashes[r][k - 1] OBVIOUS
    <3>1. Len(blocks'[r]) \in Nat BY DEF TypeInv, TypeOK
    <3>2. k - 1 \in 1..Len(blocks'[r]) BY <3>1
    <3> QED BY <1>4, <3>2
  <2> QED BY <1>a, <1>1, <2>1, <2>2 DEF HashChain
<1>8. UnpublishedPrivate'
  <2> SUFFICES ASSUME NEW r1 \in Seqs, NEW r2 \in Seqs, NEW j \in 1..Len(blocks'[r1]),
                      NEW k \in 1..Len(blocks'[r2]), r1 # r2, blocks'[r1][j] = blocks'[r2][k]
               PROVE hashes'[r1][j] # NoHash
    BY DEF UnpublishedPrivate
  <2>1. /\ j \in 1..Len(blocks[r1]) /\ hashes'[r1][j] = hashes[r1][j]
        /\ k \in 1..Len(blocks[r2]) /\ blocks[r1][j] = blocks[r2][k]
    BY <1>4
  <2> QED BY <1>a, <2>1 DEF UnpublishedPrivate
<1>9. CommittedOnly'
  <2>1. \A r \in Seqs : Committed(r)' = Committed(r) BY <1>1 DEF Committed
  <2> QED BY <1>a, <1>4, <2>1 DEF CommittedOnly
<1>10. HitsFirst' BY <1>1 DEF HitsFirst
<1> QED BY <1>5, <1>6, <1>7, <1>8, <1>9, <1>10 DEF SharingInv

\* What depends on neither the tokens nor the call in progress.
LEMMA PoolUntouched ==
    ASSUME SharingInv, UNCHANGED <<pool, blocks, hashes>>
    PROVE  PoolPartition' /\ RefCounts' /\ IndexCoherent' /\ UnpublishedPrivate'
<1>1. UNCHANGED <<free, lru, ref_count, block_hash, hash_to_block, blocks, hashes>> BY DEF pool
<1>2. PoolPartition /\ RefCounts /\ IndexCoherent /\ UnpublishedPrivate BY DEF SharingInv
<1>3. PoolPartition' BY <1>1, <1>2 DEF PoolPartition, Cached
<1>4. RefCounts'
  <2>1. \A c : Owners(c)' = Owners(c) BY <1>1 DEF Owners
  <2> QED BY <1>1, <1>2, <2>1 DEF RefCounts
<1>5. IndexCoherent' BY <1>1, <1>2 DEF IndexCoherent
<1>6. UnpublishedPrivate' BY <1>1, <1>2 DEF UnpublishedPrivate
<1> QED BY <1>3, <1>4, <1>5, <1>6

\* A step that leaves pool, tables and tokens alone keeps the invariant.
LEMMA CallSharing ==
    ASSUME SharingInv, TypeInv', UNCHANGED <<pool, blocks, hashes, tokens>>,
           \A r \in Seqs : blocks[r] # <<>> => Committed(r)' = Committed(r),
           HitsFirst'
    PROVE  SharingInv'
<1>1. PoolPartition' /\ RefCounts' /\ IndexCoherent' /\ UnpublishedPrivate' BY PoolUntouched
<1>2. UNCHANGED <<block_hash, blocks, hashes, tokens>> BY DEF pool
<1>3. HashChain' BY <1>2 DEF SharingInv, HashChain
<1>4. CommittedOnly'
  <2> SUFFICES ASSUME NEW r \in Seqs, NEW i \in 1..Len(blocks[r]), i > Committed(r)'
               PROVE hashes[r][i] = NoHash
    BY <1>2 DEF CommittedOnly
  <2>1. blocks[r] # <<>> BY DEF SharingInv, TypeInv, TypeOK
  <2> QED BY <2>1 DEF SharingInv, CommittedOnly
<1> QED BY <1>1, <1>3, <1>4 DEF SharingInv

\* A new prompt meets an empty table.
LEMMA SetPromptSharing ==
    ASSUME SharingInv, TypeInv', NEW s \in Seqs, NEW t \in Prompts, SetPrompt(s, t)
    PROVE  SharingInv'
<1>1. TypeOK /\ HashChain /\ CommittedOnly BY DEF SharingInv, TypeInv
<1>2. /\ call = Idle /\ blocks[s] = <<>> /\ tokens' = [tokens EXCEPT ![s] = t]
      /\ UNCHANGED <<pool, blocks, hashes, num_committed, block_hash, call>>
  BY DEF SetPrompt, tables, pool
<1>3. PoolPartition' /\ RefCounts' /\ IndexCoherent' /\ UnpublishedPrivate' BY <1>2, PoolUntouched
<1>4. HashChain'
  <2> SUFFICES ASSUME NEW r \in Seqs, NEW i \in 1..Len(blocks[r])
               PROVE /\ block_hash[blocks[r][i]] = hashes[r][i]
                     /\ hashes[r][i] # NoHash =>
                          /\ i * BlockSize <= Len(tokens'[r])
                          /\ hashes[r][i] = HashOf(tokens'[r], i)
                          /\ i > 1 => hashes[r][i - 1] # NoHash
    BY <1>2 DEF HashChain
  <2>1. r # s BY <1>2
  <2>2. tokens'[r] = tokens[r] BY <1>1, <1>2, <2>1 DEF TypeOK
  <2> QED BY <1>1, <2>2 DEF HashChain
<1>5. CommittedOnly' BY <1>1, <1>2 DEF CommittedOnly, Committed
<1>6. HitsFirst' BY <1>2 DEF HitsFirst, Idle
<1> QED BY <1>3, <1>4, <1>5, <1>6 DEF SharingInv

\* A sampled token does not change the full blocks before it.
LEMMA AppendTokenSharing ==
    ASSUME SharingInv, TypeInv', NEW s \in Seqs, NEW t \in Token, AppendToken(s, t)
    PROVE  SharingInv'
<1>1. TypeOK /\ HashChain /\ CommittedOnly BY DEF SharingInv, TypeInv
<1>2. /\ call = Idle /\ tokens' = [tokens EXCEPT ![s] = Append(@, t)]
      /\ UNCHANGED <<pool, blocks, hashes, num_committed, block_hash, call>>
  BY DEF AppendToken, tables, pool
<1>3. PoolPartition' /\ RefCounts' /\ IndexCoherent' /\ UnpublishedPrivate' BY <1>2, PoolUntouched
<1>4. HashChain'
  <2> SUFFICES ASSUME NEW r \in Seqs, NEW i \in 1..Len(blocks[r])
               PROVE /\ block_hash[blocks[r][i]] = hashes[r][i]
                     /\ hashes[r][i] # NoHash =>
                          /\ i * BlockSize <= Len(tokens'[r])
                          /\ hashes[r][i] = HashOf(tokens'[r], i)
                          /\ i > 1 => hashes[r][i - 1] # NoHash
    BY <1>2 DEF HashChain
  <2>1. CASE r # s
    <3>1. tokens'[r] = tokens[r] BY <1>1, <1>2, <2>1 DEF TypeOK
    <3> QED BY <1>1, <3>1 DEF HashChain
  <2>2. CASE r = s
    <3> SUFFICES ASSUME hashes[s][i] # NoHash
                 PROVE i * BlockSize <= Len(tokens'[s]) /\ HashOf(tokens'[s], i) = HashOf(tokens[s], i)
      BY <1>1, <2>2 DEF HashChain
    <3>1. tokens[s] \in Seq(Token) /\ Len(tokens[s]) \in Nat /\ tokens'[s] = Append(tokens[s], t)
      BY <1>1, <1>2 DEF TypeOK
    <3>2. i * BlockSize <= Len(tokens[s]) BY <1>1, <2>2 DEF HashChain
    <3>3. i \in Nat /\ i * BlockSize \in Nat BY Scaled
    <3>4. i * BlockSize <= Len(tokens'[s]) BY <3>1, <3>2, <3>3
    <3>5. \A k \in 1..(i * BlockSize) : tokens'[s][k] = tokens[s][k]
      <4> SUFFICES ASSUME NEW k \in 1..(i * BlockSize) PROVE tokens'[s][k] = tokens[s][k] OBVIOUS
      <4>1. k \in 1..Len(tokens[s]) BY <3>1, <3>2, <3>3
      <4> QED BY <3>1, <4>1
    <3>6. HashOf(tokens'[s], i) = HashOf(tokens[s], i) BY <3>5 DEF HashOf, Prefix
    <3> QED BY <3>4, <3>6
  <2> QED BY <2>1, <2>2
<1>5. CommittedOnly' BY <1>1, <1>2 DEF CommittedOnly, Committed
<1>6. HitsFirst' BY <1>2 DEF HitsFirst, Idle
<1> QED BY <1>3, <1>4, <1>5, <1>6 DEF SharingInv

\* Entering a method and writing K/V keep the invariant.
LEMMA ClientSharing ==
    ASSUME SharingInv, TypeInv', NEW s \in Seqs,
           \/ \E n \in 0..MaxTokens : allocate_prompt(s, n)
           \/ \E n \in 0..MaxTokens : commit_computed(s, n)
           \/ free_table(s)
           \/ \E lo, hi \in 0..MaxTokens : Write(s, lo, hi)
    PROVE  SharingInv'
<1>1. TypeOK BY DEF SharingInv, TypeInv
<1>2. ASSUME NEW n \in 0..MaxTokens, allocate_prompt(s, n) PROVE SharingInv'
  <2>1. /\ call = Idle /\ blocks[s] = <<>> /\ call' = [op |-> "alloc", seq |-> s, n |-> n]
        /\ UNCHANGED <<pool, blocks, hashes, num_committed, tokens>>
    BY <1>2 DEF allocate_prompt, tables
  <2>2. \A r \in Seqs : blocks[r] # <<>> => Committed(r)' = Committed(r)
    BY <2>1 DEF Committed, Idle
  <2>3. HitsFirst' BY <2>1 DEF HitsFirst
  <2> QED BY <2>1, <2>2, <2>3, CallSharing
<1>3. CASE \/ \E n \in 0..MaxTokens : commit_computed(s, n)
           \/ free_table(s)
           \/ \E lo, hi \in 0..MaxTokens : Write(s, lo, hi)
  <2>1. /\ call.op = "idle" /\ call'.op # "alloc"
        /\ UNCHANGED <<pool, blocks, hashes, num_committed, tokens>>
    BY <1>3 DEF commit_computed, free_table, Write, tables, Idle
  <2>2. \A r \in Seqs : Committed(r)' = Committed(r) BY <2>1 DEF Committed
  <2>3. HitsFirst' BY <2>1 DEF HitsFirst
  <2> QED BY <2>1, <2>2, <2>3, CallSharing
<1> QED BY <1>2, <1>3

\* Returning from a method keeps the invariant.
LEMMA ReturnSharing ==
    ASSUME SharingInv, TypeInv', AllocReturn \/ CommitReturn \/ FreeReturn
    PROVE  SharingInv'
<1>1. TypeOK BY DEF SharingInv, TypeInv
<1>2. UNCHANGED <<pool, blocks, hashes, tokens>> /\ call' = Idle
  BY DEF AllocReturn, CommitReturn, FreeReturn, Returned, tables
<1>3. HitsFirst' BY <1>2 DEF HitsFirst, Idle
<1>4. \A r \in Seqs : blocks[r] # <<>> => Committed(r)' = Committed(r)
  <2> SUFFICES ASSUME NEW r \in Seqs, blocks[r] # <<>> PROVE Committed(r)' = Committed(r) OBVIOUS
  <2>1. CASE AllocReturn
    BY <1>1, <2>1, CallTypes DEF AllocReturn, Returned, Committed, Idle, TypeOK
  <2>2. CASE CommitReturn
    BY <2>2 DEF CommitReturn, Returned, Committed, Idle, tables
  <2>3. CASE FreeReturn
    BY <1>1, <2>3, CallTypes DEF FreeReturn, Returned, Committed, Idle, TypeOK
  <2> QED BY <2>1, <2>2, <2>3
<1> QED BY <1>2, <1>3, <1>4, CallSharing

\* Every step of the cache and of its client keeps the invariant.
LEMMA NextSharing == ASSUME SharingInv, [KVNext]_kvVars PROVE SharingInv'
<1>1. TypeInv BY DEF SharingInv
<1>2. TypeInv' BY <1>1, NextTypeInv
<1>3. CASE UNCHANGED kvVars
  <2>1. UNCHANGED <<pool, blocks, hashes, num_committed, tokens, call>> BY <1>3 DEF kvVars, tables
  <2>2. \A r \in Seqs : Committed(r)' = Committed(r) BY <2>1 DEF Committed
  <2>3. HitsFirst' BY <2>1 DEF SharingInv, HitsFirst
  <2> QED BY <1>2, <2>1, <2>2, <2>3, CallSharing
<1>4. CASE AllocTake
  <2>1. PICK b \in Blocks : GrowTable(call.seq, b) BY <1>4 DEF AllocTake
  <2>2. call.seq \in Seqs /\ call.op = "alloc" /\ call.n <= Len(blocks[call.seq]) /\ UNCHANGED call
    BY <1>1, <1>4, CallTypes DEF AllocTake, TypeInv
  <2>3. PICK s \in Seqs : s = call.seq BY <2>2
  <2> QED BY <1>2, <2>1, <2>2, <2>3, GrowTableSharing
<1>5. ASSUME NEW s \in Seqs, ensure_slot(s) PROVE SharingInv'
  <2>1. PICK b \in Blocks : GrowTable(s, b) BY <1>5 DEF ensure_slot
  <2>2. call.op = "idle" /\ UNCHANGED call BY <1>5 DEF ensure_slot, Idle
  <2> QED BY <1>2, <2>1, <2>2, GrowTableSharing
<1> QED BY <1>2, <1>3, <1>4, <1>5, AllocHitSharing, CommitStepSharing, FreeStepSharing,
           ReturnSharing, ClientSharing, SetPromptSharing, AppendTokenSharing
        DEF KVNext, CallStep

\* The invariant always holds.
LEMMA SharingSafe == KVSpec => []SharingInv
<1>1. SharingInv /\ [KVNext]_kvVars => SharingInv' BY NextSharing
<1> QED BY <1>1, InitSharing, PTL DEF KVSpec

\* free_ and lru_ hold exactly the unreferenced blocks, unhashed and published
\* ones respectively: no block of the pool leaks and none is handed out twice.
THEOREM BlocksAccountedFor == KVSpec => []PoolPartition
<1>1. SharingInv => PoolPartition BY DEF SharingInv
<1> QED BY <1>1, SharingSafe, PTL

\* ref_count_ is the number of block tables that name a block, so release_block
\* gives a block up with its last owner and not before.
THEOREM CountsAreOwners == KVSpec => []RefCounts
<1>1. SharingInv => RefCounts BY DEF SharingInv
<1> QED BY <1>1, SharingSafe, PTL

\* hash_to_block_ and block_hash_ are inverse to each other through every
\* eviction, release and duplicate publication.
THEOREM IndexNamesItsBlocks == KVSpec => []IndexCoherent
<1>1. SharingInv => IndexCoherent BY DEF SharingInv
<1> QED BY <1>1, SharingSafe, PTL

\* The hash a block table remembers for a block is the block's own, and stands
\* for the tokens of the sequence up to there.
THEOREM TablesKnowTheirHashes == KVSpec => []HashChain
<1>1. SharingInv => HashChain BY DEF SharingInv
<1> QED BY <1>1, SharingSafe, PTL

\* Two sequences only ever share blocks that commit_computed has published.
THEOREM UnpublishedNotShared == KVSpec => []UnpublishedPrivate
<1>1. SharingInv => UnpublishedPrivate BY DEF SharingInv
<1> QED BY <1>1, SharingSafe, PTL

-----------------------------------------------------------------------------
(* Content and eviction.                                                   *)

\* The inductive invariant.
ContentInv == SharingInv /\ PublishedContent /\ OwnContent

\* The positions that block i of a table holds lie above those of the blocks before it.
LEMMA PositionBounds ==
    ASSUME NEW i \in Nat \ {0}, NEW o \in 1..BlockSize
    PROVE  /\ Position(i, o) \in Nat \ {0} /\ (i - 1) * BlockSize \in Nat
           /\ (i - 1) * BlockSize < Position(i, o) /\ Position(i, o) <= i * BlockSize
           /\ i * BlockSize \in Nat
           /\ i * BlockSize - BlockSize + o = Position(i, o)
<1>1. BlockSize \in Nat \ {0} BY KVAssumption
<1>2. (i - 1) * BlockSize \in Nat /\ (i - 1) * BlockSize + BlockSize = i * BlockSize
  BY <1>1, SMT
<1> QED BY <1>1, <1>2 DEF Position

\* The first n * block_size_ positions are in the first n blocks.
LEMMA PositionWithin ==
    ASSUME NEW i \in Nat \ {0}, NEW o \in 1..BlockSize, NEW n \in Nat,
           Position(i, o) <= n * BlockSize
    PROVE  i <= n
<1> SUFFICES ASSUME n < i PROVE FALSE OBVIOUS
<1>1. n \in Nat /\ i - 1 \in Nat /\ n <= i - 1 OBVIOUS
<1>2. n * BlockSize <= (i - 1) * BlockSize /\ n * BlockSize \in Nat BY <1>1, Scaled
<1>3. (i - 1) * BlockSize < Position(i, o) /\ Position(i, o) \in Nat /\ (i - 1) * BlockSize \in Nat
  BY PositionBounds
<1> QED BY <1>2, <1>3

\* The hash of block i, cut at a position of the block, is the token prefix there.
LEMMA PrefixOfHash ==
    ASSUME NEW t \in Seq(Token), NEW i \in Nat \ {0}, NEW o \in 1..BlockSize,
           i * BlockSize <= Len(t)
    PROVE  /\ Len(HashOf(t, i)) - BlockSize + o = Position(i, o)
           /\ Prefix(HashOf(t, i), Position(i, o)) = Prefix(t, Position(i, o))
           /\ Len(HashOf(t, i)) >= BlockSize
<1>1. /\ Len(HashOf(t, i)) = i * BlockSize /\ i * BlockSize \in Nat
      /\ \A k \in 1..(i * BlockSize) : HashOf(t, i)[k] = t[k]
  BY HashOfFacts, PositionBounds
<1>2. Position(i, o) \in Nat /\ Position(i, o) <= i * BlockSize BY PositionBounds
<1>3. \A k \in 1..Position(i, o) : HashOf(t, i)[k] = t[k] BY <1>1, <1>2
<1>4. Prefix(HashOf(t, i), Position(i, o)) = Prefix(t, Position(i, o)) BY <1>3 DEF Prefix
<1>5. i * BlockSize >= BlockSize BY KVAssumption, SMT
<1> QED BY <1>1, <1>4, <1>5, PositionBounds

\* A hashed block of a table holds the K/V of that sequence's tokens.
LEMMA HashedIsOwn ==
    ASSUME SharingInv, PublishedContent, NEW s \in Seqs, NEW i \in 1..Len(blocks[s]),
           hashes[s][i] # NoHash, NEW o \in 1..BlockSize
    PROVE  data[blocks[s][i]][o] = Prefix(tokens[s], Position(i, o))
<1>1. TypeOK /\ HashChain BY DEF SharingInv, TypeInv
<1>2. tokens[s] \in Seq(Token) /\ i \in Nat \ {0} /\ blocks[s][i] \in Blocks BY <1>1 DEF TypeOK
<1>3. /\ block_hash[blocks[s][i]] = HashOf(tokens[s], i) /\ block_hash[blocks[s][i]] # NoHash
      /\ i * BlockSize <= Len(tokens[s])
  BY <1>1 DEF HashChain
<1>4. data[blocks[s][i]][o] =
        Prefix(block_hash[blocks[s][i]], Len(block_hash[blocks[s][i]]) - BlockSize + o)
  BY <1>2, <1>3 DEF PublishedContent
<1> QED BY <1>2, <1>3, <1>4, PrefixOfHash

\* Two sequences that share a block have it at the same index, and the same tokens
\* up to its end.
LEMMA SharedSameTokens ==
    ASSUME SharingInv, NEW r \in Seqs, NEW s \in Seqs, r # s,
           NEW i \in 1..Len(blocks[r]), NEW j \in 1..Len(blocks[s]), blocks[r][i] = blocks[s][j],
           NEW o \in 1..BlockSize
    PROVE  i = j /\ Prefix(tokens[r], Position(i, o)) = Prefix(tokens[s], Position(i, o))
<1>1. TypeOK /\ HashChain /\ UnpublishedPrivate BY DEF SharingInv, TypeInv
<1>2. /\ tokens[s] \in Seq(Token) /\ tokens[r] \in Seq(Token)
      /\ i \in Nat \ {0} /\ j \in Nat \ {0}
  <2>1. tokens[s] \in Seq(Token) /\ tokens[r] \in Seq(Token) BY <1>1 DEF TypeOK
  <2>2. Len(blocks[r]) \in Nat /\ Len(blocks[s]) \in Nat BY <1>1 DEF TypeOK
  <2> QED BY <2>1, <2>2
<1>3. hashes[r][i] # NoHash /\ hashes[r][i] = hashes[s][j] BY <1>1 DEF UnpublishedPrivate, HashChain
<1>4. /\ HashOf(tokens[r], i) = HashOf(tokens[s], j)
      /\ i * BlockSize <= Len(tokens[r]) /\ j * BlockSize <= Len(tokens[s])
  BY <1>1, <1>3 DEF HashChain
<1>5. i * BlockSize = j * BlockSize BY <1>2, <1>4, HashOfFacts
<1>6. i = j
  <2>1. i * BlockSize \in Nat /\ j * BlockSize \in Nat BY <1>2, PositionBounds
  <2>2. i < j => i * BlockSize < j * BlockSize BY <1>2, Scaled, KVAssumption, SMT
  <2>3. j < i => j * BlockSize < i * BlockSize BY <1>2, Scaled, KVAssumption, SMT
  <2> QED BY <1>2, <1>5, <2>1, <2>2, <2>3
<1>7. Prefix(HashOf(tokens[r], i), Position(i, o)) = Prefix(tokens[r], Position(i, o))
  BY <1>2, <1>4, PrefixOfHash
<1>8. Prefix(HashOf(tokens[s], i), Position(i, o)) = Prefix(tokens[s], Position(i, o))
  BY <1>2, <1>4, <1>6, PrefixOfHash
<1> QED BY <1>4, <1>6, <1>7, <1>8

\* The forward pass fills the sequence's slots; where a block is shared it stores what
\* the block holds already.
LEMMA WriteContent ==
    ASSUME ContentInv, SharingInv', NEW s \in Seqs, NEW lo \in 0..MaxTokens, NEW hi \in 0..MaxTokens,
           Write(s, lo, hi)
    PROVE  ContentInv'
<1>a. /\ SharingInv /\ TypeOK /\ HashChain /\ RefCounts /\ UnpublishedPrivate
      /\ PublishedContent /\ OwnContent
  BY DEF ContentInv, SharingInv, TypeInv
<1> DEFINE Slots(b, o) == {p \in (lo + 1)..hi :
               \E i \in 1..Len(blocks[s]) : blocks[s][i] = b /\ p = Position(i, o)}
           Slot(b, o) == CHOOSE p \in Slots(b, o) : TRUE
<1>1. /\ data' = [b \in Blocks |-> [o \in 1..BlockSize |->
                     IF Slots(b, o) = {} THEN data[b][o] ELSE Prefix(tokens[s], Slot(b, o))]]
      /\ lo <= written[s] /\ written' = [written EXCEPT ![s] = IF hi > @ THEN hi ELSE @]
      /\ UNCHANGED <<block_hash, blocks, hashes, tokens>>
  BY DEF Write, pool, tables
<1>2. \A r \in Seqs : blocks[r] \in Seq(Blocks) /\ Len(blocks[r]) \in Nat /\ written[r] \in Nat
  BY <1>a DEF TypeOK
\* A slot that the slice covers gets the K/V of the position it stands for.
<1>3. ASSUME NEW b \in Blocks, NEW o \in 1..BlockSize, Slots(b, o) # {}
      PROVE  \E j \in 1..Len(blocks[s]) :
                blocks[s][j] = b /\ data'[b][o] = Prefix(tokens[s], Position(j, o))
  <2>1. Slot(b, o) \in Slots(b, o) BY <1>3
  <2>2. PICK j \in 1..Len(blocks[s]) : blocks[s][j] = b /\ Slot(b, o) = Position(j, o) BY <2>1
  <2> HIDE DEF Slots, Slot
  <2>3. data'[b][o] = Prefix(tokens[s], Slot(b, o)) BY <1>1, <1>3
  <2> QED BY <2>2, <2>3
<1>4. ASSUME NEW b \in Blocks, NEW o \in 1..BlockSize, Slots(b, o) = {}
      PROVE  data'[b][o] = data[b][o]
  <2> HIDE DEF Slots, Slot
  <2> QED BY <1>1, <1>4
<1>5. ASSUME NEW i \in 1..Len(blocks[s]), NEW o \in 1..BlockSize,
             lo < Position(i, o), Position(i, o) <= hi
      PROVE  Slots(blocks[s][i], o) # {}
  <2>1. Position(i, o) \in (lo + 1)..hi
    <3>1. Position(i, o) \in Nat /\ lo \in Nat /\ hi \in Nat
      <4>1. i \in Nat \ {0} BY <1>2
      <4>2. Position(i, o) \in Nat BY <4>1, PositionBounds
      <4> QED BY <4>2, KVAssumption
    <3> QED BY <1>5, <3>1
  <2> QED BY <2>1
<1> HIDE DEF Slots, Slot
<1>6. PublishedContent'
  <2> SUFFICES ASSUME NEW b \in Blocks, block_hash[b] # NoHash, NEW o \in 1..BlockSize
               PROVE  /\ Len(block_hash[b]) >= BlockSize
                      /\ data'[b][o] = Prefix(block_hash[b], Len(block_hash[b]) - BlockSize + o)
    <3>1. 1 \in 1..BlockSize BY KVAssumption
    <3> QED BY <1>1, <3>1 DEF PublishedContent
  <2>1. /\ Len(block_hash[b]) >= BlockSize
        /\ data[b][o] = Prefix(block_hash[b], Len(block_hash[b]) - BlockSize + o)
    BY <1>a DEF PublishedContent
  <2>2. CASE Slots(b, o) = {} BY <1>4, <2>1, <2>2
  <2>3. CASE Slots(b, o) # {}
    <3>1. PICK j \in 1..Len(blocks[s]) :
             blocks[s][j] = b /\ data'[b][o] = Prefix(tokens[s], Position(j, o))
      BY <1>3, <2>3
    <3>2. hashes[s][j] # NoHash BY <1>a, <3>1 DEF HashChain
    <3>3. data[b][o] = Prefix(tokens[s], Position(j, o)) BY <1>a, <3>1, <3>2, HashedIsOwn
    <3> QED BY <2>1, <3>1, <3>3
  <2> QED BY <2>2, <2>3
<1>7. OwnContent'
  <2> SUFFICES ASSUME NEW r \in Seqs, NEW i \in 1..Len(blocks[r]), NEW o \in 1..BlockSize,
                      Position(i, o) <= written'[r]
               PROVE  data'[blocks[r][i]][o] = Prefix(tokens[r], Position(i, o))
    <3>1. UNCHANGED <<blocks, tokens>> BY <1>1
    <3> QED BY <3>1 DEF OwnContent
  <2>1. PICK b \in Blocks : b = blocks[r][i] BY <1>2
  <2>2. CASE Slots(b, o) = {}
    <3>1. Position(i, o) <= written[r]
      <4>1. CASE r # s BY <1>a, <1>1, <4>1 DEF TypeOK
      <4>2. CASE r = s
        <5>1. ~(lo < Position(i, o) /\ Position(i, o) <= hi) BY <1>5, <2>1, <2>2, <4>2
        <5>2. i \in Nat \ {0} BY <1>2
        <5>5. Position(i, o) \in Nat BY <5>2, PositionBounds
        <5>3. lo \in Nat /\ hi \in Nat BY KVAssumption
        <5>4. written'[s] = IF hi > written[s] THEN hi ELSE written[s] BY <1>a, <1>1 DEF TypeOK
        <5> QED BY <1>1, <1>2, <4>2, <5>1, <5>3, <5>4, <5>5
      <4> QED BY <4>1, <4>2
    <3> QED BY <1>a, <1>4, <2>1, <2>2, <3>1 DEF OwnContent
  <2>3. CASE Slots(b, o) # {}
    <3>1. PICK j \in 1..Len(blocks[s]) :
             blocks[s][j] = b /\ data'[b][o] = Prefix(tokens[s], Position(j, o))
      BY <1>3, <2>3
    <3>2. CASE r = s
      <4>1. i = j BY <1>a, <2>1, <3>1, <3>2 DEF RefCounts
      <4> QED BY <2>1, <3>1, <3>2, <4>1
    <3>3. CASE r # s
      <4>1. i = j /\ Prefix(tokens[r], Position(i, o)) = Prefix(tokens[s], Position(i, o))
        BY <1>a, <2>1, <3>1, <3>3, SharedSameTokens, SMTT(30)
      <4> QED BY <2>1, <3>1, <4>1
    <3> QED BY <3>2, <3>3
  <2> QED BY <2>2, <2>3
<1> QED BY <1>6, <1>7 DEF ContentInv

\* A step that publishes nothing, and keeps the slots of every position below the
\* new `written', keeps the contents right.
LEMMA ContentKept ==
    ASSUME PublishedContent, OwnContent,
           \A b \in Blocks : block_hash'[b] # NoHash =>
               block_hash'[b] = block_hash[b] /\ data'[b] = data[b],
           \A r \in Seqs : \A i \in 1..Len(blocks'[r]), o \in 1..BlockSize :
               Position(i, o) <= written'[r] =>
                   /\ i \in 1..Len(blocks[r]) /\ Position(i, o) <= written[r]
                   /\ data'[blocks'[r][i]] = data[blocks[r][i]]
                   /\ Prefix(tokens'[r], Position(i, o)) = Prefix(tokens[r], Position(i, o))
    PROVE  PublishedContent' /\ OwnContent'
<1>1. PublishedContent' BY DEF PublishedContent
<1>2. OwnContent'
  <2> SUFFICES ASSUME NEW r \in Seqs, NEW i \in 1..Len(blocks'[r]), NEW o \in 1..BlockSize,
                      Position(i, o) <= written'[r]
               PROVE  data'[blocks'[r][i]][o] = Prefix(tokens'[r], Position(i, o))
    BY DEF OwnContent
  <2> QED BY DEF OwnContent
<1> QED BY <1>1, <1>2

\* No K/V has been written at the position a table grows to.
LEMMA BeyondWritten ==
    ASSUME TypeInv, NEW s \in Seqs, NEW o \in 1..BlockSize
    PROVE  ~(Position(Len(blocks[s]) + 1, o) <= written[s])
<1>1. TypeOK /\ written[s] <= Len(blocks[s]) * BlockSize BY DEF TypeInv, TableBounds
<1>2. Len(blocks[s]) \in Nat /\ written[s] \in Nat BY <1>1 DEF TypeOK
<1>3. PICK n \in Nat : n = Len(blocks[s]) BY <1>2
<1>4. /\ (n + 1 - 1) * BlockSize < Position(n + 1, o) /\ (n + 1 - 1) * BlockSize \in Nat
      /\ Position(n + 1, o) \in Nat
  BY PositionBounds
<1>5. (n + 1 - 1) * BlockSize = n * BlockSize OBVIOUS
<1> QED BY <1>1, <1>2, <1>3, <1>4, <1>5

\* A block handed out held nothing that anybody reads.
LEMMA GrowTableContent ==
    ASSUME ContentInv, NEW s \in Seqs, NEW b \in Blocks, GrowTable(s, b)
    PROVE  PublishedContent' /\ OwnContent'
<1>1. /\ SharingInv /\ TypeInv /\ TypeOK /\ PublishedContent /\ OwnContent
  BY DEF ContentInv, SharingInv, TypeInv
<1>2. /\ take_block(b) /\ ref_count' = [ref_count EXCEPT ![b] = 1] /\ UNCHANGED <<tokens, written>>
  BY DEF GrowTable
<1>3. block_hash' = [block_hash EXCEPT ![b] = NoHash] BY <1>1, <1>2, TakeBlockPool
<1>4. \A c \in Blocks \ {b} : data'[c] = data[c] BY <1>1, <1>2 DEF take_block, TypeOK
<1>5. ASSUME NEW c \in Blocks, block_hash'[c] # NoHash
      PROVE  block_hash'[c] = block_hash[c] /\ data'[c] = data[c]
  BY <1>1, <1>3, <1>4, <1>5 DEF TypeOK
<1>6. ASSUME NEW r \in Seqs, NEW i \in 1..Len(blocks'[r]), NEW o \in 1..BlockSize,
             Position(i, o) <= written'[r]
      PROVE  /\ i \in 1..Len(blocks[r]) /\ Position(i, o) <= written[r]
             /\ data'[blocks'[r][i]] = data[blocks[r][i]]
             /\ Prefix(tokens'[r], Position(i, o)) = Prefix(tokens[r], Position(i, o))
  <2>1. ~(r = s /\ i = Len(blocks[s]) + 1) BY <1>1, <1>2, <1>6, BeyondWritten
  <2>2. /\ i \in 1..Len(blocks[r]) /\ blocks'[r][i] = blocks[r][i]
        /\ blocks[r][i] # b /\ blocks[r][i] \in Blocks
    BY <1>1, <2>1, GrowEntries
  <2> QED BY <1>2, <1>4, <1>6, <2>2
<1> QED BY <1>1, <1>5, <1>6, ContentKept

\* A cache hit is put at positions that are not claimed before the method returns.
LEMMA AllocHitContent ==
    ASSUME ContentInv, AllocHit
    PROVE  PublishedContent' /\ OwnContent'
<1>1. /\ SharingInv /\ TypeInv /\ TypeOK /\ PublishedContent /\ OwnContent
  BY DEF ContentInv, SharingInv, TypeInv
<1>2. PICK s \in Seqs : s = call.seq BY <1>1, CallTypes DEF AllocHit
<1>3. PICK b : blocks' = [blocks EXCEPT ![s] = Append(@, b)] BY <1>2 DEF AllocHit
<1>4. UNCHANGED <<block_hash, data, tokens, written>> BY DEF AllocHit
<1>5. ASSUME NEW r \in Seqs, NEW i \in 1..Len(blocks'[r]), NEW o \in 1..BlockSize,
             Position(i, o) <= written'[r]
      PROVE  /\ i \in 1..Len(blocks[r]) /\ Position(i, o) <= written[r]
             /\ data'[blocks'[r][i]] = data[blocks[r][i]]
             /\ Prefix(tokens'[r], Position(i, o)) = Prefix(tokens[r], Position(i, o))
  <2>1. ~(r = s /\ i = Len(blocks[s]) + 1) BY <1>1, <1>4, <1>5, BeyondWritten
  <2>2. i \in 1..Len(blocks[r]) /\ blocks'[r][i] = blocks[r][i]
    <3>1. CASE r # s BY <1>1, <1>3, <3>1 DEF TypeOK
    <3>2. CASE r = s
      <4>1. blocks[s] \in Seq(Blocks) /\ Len(blocks[s]) \in Nat BY <1>1 DEF TypeOK
      <4>2. blocks'[s] = Append(blocks[s], b) BY <1>1, <1>3 DEF TypeOK
      <4> QED BY <2>1, <3>2, <4>1, <4>2
    <3> QED BY <3>1, <3>2
  <2> QED BY <1>4, <1>5, <2>2
<1> QED BY <1>1, <1>4, <1>5, ContentKept

\* commit_computed publishes what the forward pass has written.
LEMMA CommitStepContent ==
    ASSUME ContentInv, CommitStep
    PROVE  PublishedContent' /\ OwnContent'
<1>1. /\ SharingInv /\ TypeInv /\ TypeOK /\ CallContract /\ TableBounds /\ HashChain
      /\ PublishedContent /\ OwnContent
  BY DEF ContentInv, SharingInv, TypeInv
<1>2. PICK s \in Seqs : s = call.seq BY <1>1, CallTypes DEF CommitStep
<1>3. num_committed[s] \in Nat /\ Len(blocks[s]) \in Nat /\ blocks[s] \in Seq(Blocks) BY <1>1 DEF TypeOK
<1>4. PICK i \in Nat : i = num_committed[s] + 1 BY <1>3
<1>5. /\ call.op = "commit" /\ call.n \in Nat
      /\ i \in 1..Len(blocks[s]) /\ i * BlockSize <= call.n
      /\ hash_full_block(s, i)
      /\ UNCHANGED <<blocks, tokens, written, data>>
  <2>1. call.op = "commit" /\ call.n \in Nat BY <1>1, CallTypes DEF CommitStep
  <2> QED BY <1>2, <1>3, <1>4, <2>1 DEF CommitStep, CommitMore
<1>6. OwnContent' BY <1>1, <1>5 DEF OwnContent
<1>7. CASE UNCHANGED block_hash BY <1>1, <1>5, <1>6, <1>7 DEF PublishedContent
<1>8. CASE Publishable(s, i) /\ block_hash' = [block_hash EXCEPT ![blocks[s][i]] = ChainedHash(s, i)]
  <2>1. /\ i * BlockSize \in Nat /\ i * BlockSize <= written[s] /\ i * BlockSize <= Len(tokens[s])
        /\ tokens[s] \in Seq(Token) /\ written[s] \in Nat
    <3>1. call.n <= written[s] /\ written[s] <= Len(tokens[s])
      BY <1>1, <1>2, <1>5 DEF CallContract, TableBounds
    <3>2. written[s] \in Nat /\ Len(tokens[s]) \in Nat /\ tokens[s] \in Seq(Token)
      BY <1>1 DEF TypeOK
    <3>3. i * BlockSize \in Nat BY Scaled
    <3> QED BY <1>5, <3>1, <3>2, <3>3
  <2>2. PICK b \in Blocks : b = blocks[s][i] BY <1>3, <1>5
  <2>3. ChainedHash(s, i) = HashOf(tokens[s], i) BY <1>1, <1>5, <1>8, <2>1, ChainedHashOf
  <2>4. /\ block_hash'[b] = HashOf(tokens[s], i)
        /\ \A c \in Blocks \ {b} : block_hash'[c] = block_hash[c]
    BY <1>1, <1>8, <2>2, <2>3 DEF TypeOK
  <2>5. ASSUME NEW o \in 1..BlockSize
        PROVE  data[b][o] = Prefix(HashOf(tokens[s], i), Len(HashOf(tokens[s], i)) - BlockSize + o)
    <3>4. i \in Nat \ {0} BY <1>5
    <3>1. Position(i, o) \in Nat /\ Position(i, o) <= i * BlockSize BY <3>4, PositionBounds
    <3>2. Position(i, o) <= written[s] BY <2>1, <3>1
    <3>3. data[b][o] = Prefix(tokens[s], Position(i, o)) BY <1>1, <1>5, <2>2, <3>2 DEF OwnContent
    <3> QED BY <1>5, <2>1, <3>3, PrefixOfHash
  <2>6. Len(HashOf(tokens[s], i)) >= BlockSize
    <3>1. 1 \in 1..BlockSize BY KVAssumption
    <3> QED BY <1>5, <2>1, <3>1, PrefixOfHash
  <2>7. PublishedContent'
    <3> SUFFICES ASSUME NEW c \in Blocks, block_hash'[c] # NoHash
                 PROVE  /\ Len(block_hash'[c]) >= BlockSize
                        /\ \A o \in 1..BlockSize :
                             data[c][o] = Prefix(block_hash'[c], Len(block_hash'[c]) - BlockSize + o)
      BY <1>5 DEF PublishedContent
    <3>1. CASE c = b BY <2>4, <2>5, <2>6, <3>1
    <3>2. CASE c # b BY <1>1, <2>4, <3>2 DEF PublishedContent
    <3> QED BY <3>1, <3>2
  <2> QED BY <1>6, <2>7
<1> QED BY <1>5, <1>7, <1>8 DEF hash_full_block

\* What allocate_prompt claims as computed is in hits, which hold the K/V of the
\* prompt's own tokens.
LEMMA AllocReturnContent ==
    ASSUME ContentInv, AllocReturn
    PROVE  PublishedContent' /\ OwnContent'
<1>1. /\ SharingInv /\ TypeOK /\ CallContract /\ HitsFirst /\ PublishedContent /\ OwnContent
  BY DEF ContentInv, SharingInv, TypeInv
<1>2. PICK s \in Seqs : s = call.seq BY <1>1, CallTypes DEF AllocReturn
<1>3. /\ call.op = "alloc" /\ call.n \in Nat /\ call.n <= Len(blocks[s])
      /\ written' = [written EXCEPT ![s] = call.n * BlockSize]
      /\ UNCHANGED <<block_hash, blocks, tokens, data>>
  BY <1>1, <1>2, CallTypes DEF AllocReturn, pool
<1>4. PublishedContent' BY <1>1, <1>3 DEF PublishedContent
<1>5. OwnContent'
  <2> SUFFICES ASSUME NEW r \in Seqs, NEW i \in 1..Len(blocks[r]), NEW o \in 1..BlockSize,
                      Position(i, o) <= written'[r]
               PROVE  data[blocks[r][i]][o] = Prefix(tokens[r], Position(i, o))
    BY <1>3 DEF OwnContent
  <2>1. CASE r # s
    <3>1. written'[r] = written[r] BY <1>1, <1>3, <2>1 DEF TypeOK
    <3> QED BY <1>1, <3>1 DEF OwnContent
  <2>2. CASE r = s
    <3>1. Position(i, o) <= call.n * BlockSize BY <1>1, <1>3, <2>2 DEF TypeOK
    <3>2. Len(blocks[s]) \in Nat /\ tokens[s] \in Seq(Token) BY <1>1 DEF TypeOK
    <3>3. i \in Nat \ {0} BY <2>2, <3>2
    <3>4. i <= call.n BY <1>3, <3>1, <3>3, PositionWithin
    <3>5. hashes[s][i] = HashOf(tokens[s], i) BY <1>1, <1>2, <1>3, <2>2, <3>4 DEF HitsFirst
    <3>6. i * BlockSize <= Len(tokens[s])
      <4>1. call.n * BlockSize <= Len(tokens[s]) BY <1>1, <1>2, <1>3 DEF CallContract
      <4>2. i * BlockSize <= call.n * BlockSize /\ i * BlockSize \in Nat /\ call.n * BlockSize \in Nat
        BY <1>3, <3>3, <3>4, Scaled
      <4>3. Len(tokens[s]) \in Nat BY <3>2
      <4> QED BY <4>1, <4>2, <4>3
    <3>7. hashes[s][i] # NoHash BY <3>2, <3>3, <3>5, <3>6, HashOfFacts
    <3> QED BY <1>1, <2>2, <3>7, HashedIsOwn
  <2> QED BY <2>1, <2>2
<1> QED BY <1>4, <1>5

\* free drops the contents of a block only with its last reference and its hash.
LEMMA FreeStepContent ==
    ASSUME ContentInv, FreeStep
    PROVE  PublishedContent' /\ OwnContent'
<1>1. /\ SharingInv /\ TypeOK /\ PublishedContent /\ OwnContent
  BY DEF ContentInv, SharingInv, TypeInv
<1>2. PICK s \in Seqs : s = call.seq BY <1>1, CallTypes DEF FreeStep
<1>3. /\ Len(blocks[s]) \in 1..Len(blocks[s]) /\ blocks[s] \in Seq(Blocks)
      /\ release_block(blocks[s][Len(blocks[s])], hashes[s][Len(blocks[s])])
      /\ UNCHANGED <<tokens, written>>
  BY <1>1, <1>2 DEF FreeStep, ReleaseIndex, TypeOK
<1>4. PICK b \in Blocks : b = blocks[s][Len(blocks[s])] BY <1>3
<1>5. /\ \A c \in Blocks \ {b} : data'[c] = data[c] /\ block_hash'[c] = block_hash[c]
      /\ \/ UNCHANGED <<data, block_hash>>
         \/ ref_count[b] = 1 /\ block_hash'[b] = NoHash
  BY <1>1, <1>3, <1>4 DEF release_block, LastReference, TypeOK
<1>6. ASSUME NEW c \in Blocks, block_hash'[c] # NoHash
      PROVE  block_hash'[c] = block_hash[c] /\ data'[c] = data[c]
  BY <1>5, <1>6
<1>7. ASSUME NEW r \in Seqs, NEW i \in 1..Len(blocks'[r]), NEW o \in 1..BlockSize,
             Position(i, o) <= written'[r]
      PROVE  /\ i \in 1..Len(blocks[r]) /\ Position(i, o) <= written[r]
             /\ data'[blocks'[r][i]] = data[blocks[r][i]]
             /\ Prefix(tokens'[r], Position(i, o)) = Prefix(tokens[r], Position(i, o))
  <2>1. /\ i \in 1..Len(blocks[r]) /\ blocks'[r][i] = blocks[r][i]
        /\ ref_count[b] = 1 => blocks[r][i] # b
    BY <1>1, <1>2, <1>4, FreeEntries
  <2>2. blocks[r][i] \in Blocks BY <1>1, <2>1 DEF TypeOK
  <2> QED BY <1>3, <1>5, <1>7, <2>1, <2>2
<1> QED BY <1>1, <1>6, <1>7, ContentKept

\* Steps that leave pool, tables and slots alone, and claim no more than before.
LEMMA FrameContent ==
    ASSUME ContentInv, UNCHANGED <<pool, blocks, tokens, data>>,
           \A r \in Seqs : written'[r] = written[r] \/ written'[r] = 0
    PROVE  PublishedContent' /\ OwnContent'
<1>1. TypeOK /\ PublishedContent /\ OwnContent BY DEF ContentInv, SharingInv, TypeInv
<1>2. UNCHANGED <<block_hash, blocks, tokens, data>> BY DEF pool
<1>3. ASSUME NEW r \in Seqs, NEW i \in 1..Len(blocks[r]), NEW o \in 1..BlockSize,
             Position(i, o) <= written'[r]
      PROVE  Position(i, o) <= written[r]
  <2>1. Len(blocks[r]) \in Nat BY <1>1 DEF TypeOK
  <2>2. i \in Nat \ {0} BY <2>1
  <2>3. Position(i, o) \in Nat \ {0} BY <2>2, PositionBounds
  <2> QED BY <1>3, <2>3
<1> QED BY <1>1, <1>2, <1>3, ContentKept

\* A new prompt meets an empty table; an appended token comes after every written
\* position.
LEMMA TokensContent ==
    ASSUME ContentInv, NEW s \in Seqs,
           \/ \E t \in Prompts : SetPrompt(s, t)
           \/ \E t \in Token : AppendToken(s, t)
    PROVE  PublishedContent' /\ OwnContent'
<1>1. TypeOK /\ TableBounds /\ PublishedContent /\ OwnContent BY DEF ContentInv, SharingInv, TypeInv
<1>2. UNCHANGED <<block_hash, blocks, written, data>> BY DEF SetPrompt, AppendToken, pool, tables
<1>3. ASSUME NEW r \in Seqs, NEW i \in 1..Len(blocks[r]), NEW o \in 1..BlockSize,
             Position(i, o) <= written[r]
      PROVE  Prefix(tokens'[r], Position(i, o)) = Prefix(tokens[r], Position(i, o))
  <2>1. CASE r # s
    <3>1. tokens'[r] = tokens[r] BY <1>1, <2>1 DEF SetPrompt, AppendToken, TypeOK
    <3> QED BY <3>1
  <2>2. CASE r = s
    <3>1. blocks[s] # <<>> /\ Len(blocks[s]) \in Nat BY <1>1, <2>2 DEF TypeOK
    <3>2. PICK t \in Token : AppendToken(s, t) BY <3>1 DEF SetPrompt
    <3>3. tokens[s] \in Seq(Token) /\ tokens'[s] = Append(tokens[s], t) BY <1>1, <3>2 DEF AppendToken, TypeOK
    <3>4. i \in Nat \ {0} BY <2>2, <3>1
    <3>5. Position(i, o) \in Nat BY <3>4, PositionBounds
    <3>6. written[s] <= Len(tokens[s]) /\ written[s] \in Nat BY <1>1 DEF TableBounds, TypeOK
    <3>7. Len(tokens[s]) \in Nat BY <3>3
    <3>8. Position(i, o) <= Len(tokens[s]) BY <1>3, <2>2, <3>5, <3>6, <3>7
    <3>9. \A k \in 1..Position(i, o) : tokens'[s][k] = tokens[s][k]
      <4> TAKE k \in 1..Position(i, o)
      <4>1. k \in 1..Len(tokens[s]) BY <3>5, <3>7, <3>8
      <4> QED BY <3>3, <4>1
    <3> QED BY <2>2, <3>9 DEF Prefix
  <2> QED BY <2>1, <2>2
<1> QED BY <1>1, <1>2, <1>3, ContentKept

\* The empty cache holds nothing.
LEMMA InitContent == KVInit => ContentInv
<1> SUFFICES ASSUME KVInit PROVE ContentInv OBVIOUS
<1>1. SharingInv BY InitSharing
<1>2. PublishedContent BY DEF KVInit, PublishedContent
<1>3. \A s \in Seqs : Len(blocks[s]) = 0 BY DEF KVInit
<1>4. OwnContent BY <1>3 DEF OwnContent
<1> QED BY <1>1, <1>2, <1>4 DEF ContentInv

\* Every step of the cache and of its client keeps the invariant.
LEMMA NextContent == ASSUME ContentInv, [KVNext]_kvVars PROVE ContentInv'
<1>1. SharingInv /\ TypeInv /\ TypeOK BY DEF ContentInv, SharingInv, TypeInv
<1>2. SharingInv' BY <1>1, NextSharing
<1> SUFFICES PublishedContent' /\ OwnContent' BY <1>2 DEF ContentInv
<1>3. CASE UNCHANGED kvVars
  <2>1. UNCHANGED <<pool, blocks, tokens, data, written>> BY <1>3 DEF kvVars, tables
  <2> QED BY <2>1, FrameContent
<1>4. CASE AllocTake
  <2>1. PICK s \in Seqs : s = call.seq BY <1>1, <1>4, CallTypes DEF AllocTake
  <2> QED BY <1>4, <2>1, GrowTableContent DEF AllocTake
<1>5. ASSUME NEW s \in Seqs, ensure_slot(s) PROVE PublishedContent' /\ OwnContent'
  BY <1>5, GrowTableContent DEF ensure_slot
<1>6. CASE CommitReturn \/ FreeReturn
  <2>1. UNCHANGED <<pool, blocks, tokens, data, written>> BY <1>6 DEF CommitReturn, FreeReturn, tables
  <2> QED BY <2>1, FrameContent
<1>7. ASSUME NEW s \in Seqs,
             \/ \E n \in 0..MaxTokens : allocate_prompt(s, n)
             \/ \E n \in 0..MaxTokens : commit_computed(s, n)
             \/ free_table(s)
      PROVE  PublishedContent' /\ OwnContent'
  <2>1. UNCHANGED <<pool, blocks, tokens, data>>
    BY <1>7 DEF allocate_prompt, commit_computed, free_table, tables
  <2>2. \A r \in Seqs : written'[r] = written[r] \/ written'[r] = 0
    BY <1>1, <1>7 DEF allocate_prompt, commit_computed, free_table, TypeOK
  <2> QED BY <2>1, <2>2, FrameContent
<1>8. ASSUME NEW s \in Seqs, NEW lo \in 0..MaxTokens, NEW hi \in 0..MaxTokens, Write(s, lo, hi)
      PROVE  PublishedContent' /\ OwnContent'
  <2>1. ContentInv' BY <1>2, <1>8, WriteContent
  <2> QED BY <2>1 DEF ContentInv
<1> QED BY <1>3, <1>4, <1>5, <1>6, <1>7, <1>8, AllocHitContent, CommitStepContent, FreeStepContent,
           AllocReturnContent, TokensContent
        DEF KVNext, CallStep

\* The invariant always holds.
LEMMA ContentSafe == KVSpec => []ContentInv
<1>1. ContentInv /\ [KVNext]_kvVars => ContentInv' BY NextContent
<1> QED BY <1>1, InitContent, PTL DEF KVSpec

\* A block in the prefix cache holds the K/V of exactly the tokens its hash stands
\* for, whoever computed them and whatever was evicted or recomputed since.
THEOREM CacheHoldsWhatItSays == KVSpec => []PublishedContent
<1>1. ContentInv => PublishedContent BY DEF ContentInv
<1> QED BY <1>1, ContentSafe, PTL

\* The attention kernels read, for every sequence and position, the K/V of that
\* sequence's own tokens: sharing, duplicates, eviction and preemption never show.
THEOREM SequencesReadTheirOwn == KVSpec => []OwnContent
<1>1. ContentInv => OwnContent BY DEF ContentInv
<1> QED BY <1>1, ContentSafe, PTL

\* While a block stays published under one hash nobody changes its contents, although
\* a fully cached prompt recomputes its last token into a shared block.
THEOREM PublishedNotOverwritten == KVSpec => PublishedImmutable
<1>1. ASSUME ContentInv, ContentInv'
      PROVE  \A b \in Blocks :
                block_hash[b] # NoHash /\ block_hash'[b] = block_hash[b] => data'[b] = data[b]
  <2> SUFFICES ASSUME NEW b \in Blocks, block_hash[b] # NoHash, block_hash'[b] = block_hash[b]
               PROVE data'[b] = data[b]
    OBVIOUS
  <2>1. TypeOK /\ TypeOK' /\ PublishedContent /\ PublishedContent'
    BY <1>1 DEF ContentInv, SharingInv, TypeInv
  <2>2. data[b] \in [1..BlockSize -> Seq(Token)] /\ data'[b] \in [1..BlockSize -> Seq(Token)]
    BY <2>1 DEF TypeOK
  <2>3. \A o \in 1..BlockSize : data'[b][o] = data[b][o] BY <2>1 DEF PublishedContent
  <2>4. /\ data[b] = [o \in 1..BlockSize |-> data[b][o]]
        /\ data'[b] = [o \in 1..BlockSize |-> data'[b][o]]
    BY <2>2
  <2> QED BY <2>3, <2>4, Zenon
<1>2. ContentInv /\ ContentInv' =>
        [\A b \in Blocks :
            block_hash[b] # NoHash /\ block_hash'[b] = block_hash[b] => data'[b] = data[b]]_kvVars
  BY <1>1
<1> QED BY <1>2, ContentSafe, PTL DEF PublishedImmutable

-----------------------------------------------------------------------------
(* Eviction.                                                               *)

\* In the LRU list a block stands before the block it continues: it is evicted
\* first.
EvictionOrder ==
    \A j, k \in 1..Len(lru) : Parent(block_hash[lru[k]]) = block_hash[lru[j]] => k < j

\* Without prefix caching nothing is published and commit_computed returns at once.
CachingOff ==
    ~PrefixCaching => DOMAIN hash_to_block = {} /\ call.op # "commit"

\* The inductive invariant behind NoOrphans.
ReachInv == SharingInv /\ NoOrphans /\ EvictionOrder /\ CachingOff

-----------------------------------------------------------------------------
(* Chains of hashes.                                                       *)

\* The hash of a block continues the hash of the block before it.
LEMMA ParentOf ==
    ASSUME NEW t \in Seq(Token), NEW i \in Nat \ {0}, i * BlockSize <= Len(t)
    PROVE  /\ Parent(HashOf(t, i)) = HashOf(t, i - 1)
           /\ (i - 1) * BlockSize <= Len(t)
           /\ Parent(HashOf(t, i)) # HashOf(t, i)
           /\ i = 1 => Parent(HashOf(t, i)) = NoHash
<1> DEFINE m == (i - 1) * BlockSize
           h == HashOf(t, i)
<1>1. BlockSize \in Nat \ {0} BY KVAssumption
<1>2. m \in Nat /\ m + BlockSize = i * BlockSize /\ i - 1 \in Nat /\ m <= Len(t)
  BY <1>1, SMT
<1>3. /\ h \in Seq(Token) /\ Len(h) = m + BlockSize
      /\ \A k \in 1..(m + BlockSize) : h[k] = t[k]
  BY <1>2, HashOfFacts
<1>4. /\ HashOf(t, i - 1) \in Seq(Token) /\ Len(HashOf(t, i - 1)) = m
      /\ \A k \in 1..m : HashOf(t, i - 1)[k] = t[k]
  BY <1>2, HashOfFacts
<1> HIDE DEF m, h
<1>5. /\ Parent(h) \in Seq(Token) /\ Len(Parent(h)) = m
      /\ \A k \in 1..m : Parent(h)[k] = h[k]
  <2>1. Len(h) - BlockSize = m /\ m \in 0..Len(h) BY <1>1, <1>2, <1>3
  <2> QED BY <1>3, <2>1, PrefixType DEF Parent
<1>6. \A k \in 1..m : Parent(h)[k] = HashOf(t, i - 1)[k]
  BY <1>1, <1>2, <1>3, <1>4, <1>5
<1>7. Parent(h) = HashOf(t, i - 1) BY <1>4, <1>5, <1>6, SeqEqual
<1>8. Parent(h) # h BY <1>1, <1>2, <1>3, <1>5
<1>9. i = 1 => Parent(h) = NoHash
  <2>1. i = 1 => m = 0 BY <1>1, SMT DEF m
  <2> QED BY <1>5, <2>1 DEF NoHash
<1> QED BY <1>2, <1>7, <1>8, <1>9 DEF h, m

\* A published block of a table either starts its sequence or continues the block
\* before it in the table, which is referenced and published too.
LEMMA TableContinues ==
    ASSUME SharingInv, NEW s \in Seqs, NEW i \in 1..Len(blocks[s]), hashes[s][i] # NoHash
    PROVE  /\ Parent(hashes[s][i]) # hashes[s][i]
           /\ \/ Parent(hashes[s][i]) = NoHash
              \/ /\ i - 1 \in 1..Len(blocks[s])
                 /\ blocks[s][i - 1] \in Blocks
                 /\ ref_count[blocks[s][i - 1]] # 0
                 /\ block_hash[blocks[s][i - 1]] = Parent(hashes[s][i])
<1>a. TypeOK /\ RefCounts /\ HashChain BY DEF SharingInv, TypeInv
<1>b. tokens[s] \in Seq(Token) /\ Len(blocks[s]) \in Nat /\ i \in Nat \ {0} BY <1>a DEF TypeOK
<1>1. i * BlockSize <= Len(tokens[s]) /\ hashes[s][i] = HashOf(tokens[s], i)
  BY <1>a DEF HashChain
<1>2. /\ Parent(hashes[s][i]) = HashOf(tokens[s], i - 1)
      /\ Parent(hashes[s][i]) # hashes[s][i]
      /\ i = 1 => Parent(hashes[s][i]) = NoHash
  BY <1>b, <1>1, ParentOf
<1>3. CASE i > 1
  <2>1. i - 1 \in 1..Len(blocks[s]) BY <1>b, <1>3
  <2>2. hashes[s][i - 1] # NoHash BY <1>a, <1>3 DEF HashChain
  <2>3. block_hash[blocks[s][i - 1]] = HashOf(tokens[s], i - 1)
    BY <1>a, <2>1, <2>2 DEF HashChain
  <2> QED BY <1>a, <1>2, <2>1, <2>3, TableReferenced
<1> QED BY <1>b, <1>2, <1>3

\* A referenced block is in a table.
LEMMA ReferencedInTable ==
    ASSUME RefCounts, NEW b \in Blocks, ref_count[b] # 0
    PROVE  \E s \in Seqs : \E i \in 1..Len(blocks[s]) : blocks[s][i] = b
<1>1. Owners(b) # {} BY FS_EmptySet DEF RefCounts
<1> QED BY <1>1 DEF Owners

\* What a cached block continues is cached no shorter: the block that holds the
\* parent of an indexed hash is unreferenced only if it stands later in lru_.
LEMMA VictimContinuedByNone ==
    ASSUME ReachInv, lru # <<>>, NEW h \in DOMAIN hash_to_block
    PROVE  Parent(h) # block_hash[lru[1]]
<1>a. /\ TypeOK /\ RefCounts /\ HashChain /\ IndexCoherent /\ PoolPartition /\ EvictionOrder
  BY DEF ReachInv, SharingInv, TypeInv
<1>b. lru \in Seq(Blocks) /\ Len(lru) \in Nat /\ 1 \in 1..Len(lru) BY <1>a DEF TypeOK
<1>c. PICK v \in Blocks : v = lru[1] BY <1>b
<1>d. v \in Cached BY <1>b, <1>c DEF Cached
<1>1. ref_count[v] = 0 /\ block_hash[v] # NoHash BY <1>a, <1>d DEF PoolPartition
<1>e. PICK c \in Blocks : c = hash_to_block[h] BY <1>a DEF TypeOK
<1>2. block_hash[c] = h /\ h # NoHash BY <1>a, <1>e DEF IndexCoherent, TypeOK
<1> SUFFICES ASSUME Parent(h) = block_hash[v] PROVE FALSE BY <1>c
<1>3. CASE ref_count[c] = 0
  <2>1. c \in Cached BY <1>a, <1>2, <1>3 DEF PoolPartition
  <2>2. PICK k \in 1..Len(lru) : lru[k] = c BY <2>1 DEF Cached
  <2>3. k < 1 BY <1>a, <1>b, <1>c, <1>2, <2>2 DEF EvictionOrder
  <2> QED BY <1>b, <2>2, <2>3
<1>4. CASE ref_count[c] # 0
  <2>1. PICK s \in Seqs : \E i \in 1..Len(blocks[s]) : blocks[s][i] = c
    BY <1>a, <1>4, ReferencedInTable
  <2>2. PICK i \in 1..Len(blocks[s]) : blocks[s][i] = c BY <2>1
  <2>3. hashes[s][i] = h BY <1>a, <1>2, <2>2 DEF HashChain
  <2>4. PICK p \in Blocks : ref_count[p] # 0 /\ block_hash[p] = block_hash[v]
    BY <1>1, <1>2, <2>3, TableContinues DEF ReachInv
  <2>5. p = v BY <1>a, <1>1, <2>4 DEF IndexCoherent
  <2> QED BY <1>1, <2>4, <2>5
<1> QED BY <1>3, <1>4

-----------------------------------------------------------------------------
(* The steps.                                                              *)

\* Erasing a block from lru_ keeps the others in their order.
LEMMA DropKeepsOrder ==
    ASSUME TypeOK, EvictionOrder, NEW k \in 1..Len(lru), lru' = DropAt(lru, k),
           \A j \in 1..Len(lru) : j # k => block_hash'[lru[j]] = block_hash[lru[j]]
    PROVE  EvictionOrder'
<1> DEFINE n == Len(lru)
           at(m) == IF m < k THEN m ELSE m + 1
<1>1. lru \in Seq(Blocks) /\ n \in Nat /\ k \in 1..n BY DEF TypeOK
<1>2. /\ Len(lru') = n - 1
      /\ \A j \in 1..(n - 1) : lru'[j] = IF j < k THEN lru[j] ELSE lru[j + 1]
  BY <1>1, DropAtType
<1> SUFFICES ASSUME NEW i \in 1..(n - 1), NEW j \in 1..(n - 1),
                    Parent(block_hash'[lru'[j]]) = block_hash'[lru'[i]]
             PROVE  j < i
  BY <1>2 DEF EvictionOrder, Parent, Prefix
<1>3. at(i) \in 1..n /\ at(j) \in 1..n /\ at(i) # k /\ at(j) # k BY <1>1
<1>4. lru'[i] = lru[at(i)] /\ lru'[j] = lru[at(j)] BY <1>2
<1>5. at(j) < at(i)
  <2> HIDE DEF at
  <2> QED BY <1>3, <1>4 DEF EvictionOrder
<1> QED BY <1>1, <1>5

\* Handing out a block, evicting or not, in allocate_prompt or ensure_slot.
LEMMA GrowTableReach ==
    ASSUME ReachInv, NEW s \in Seqs, NEW b \in Blocks, GrowTable(s, b), UNCHANGED call
    PROVE  NoOrphans' /\ EvictionOrder' /\ CachingOff'
<1>a. TypeOK /\ PoolPartition /\ NoOrphans /\ EvictionOrder /\ CachingOff
  BY DEF ReachInv, SharingInv, TypeInv
<1>1. take_block(b) BY DEF GrowTable
<1>2. CASE UNCHANGED <<lru, block_hash, hash_to_block, data>>
  BY <1>a, <1>2 DEF NoOrphans, EvictionOrder, CachingOff, Parent, Prefix
<1>3. CASE /\ lru # <<>> /\ b = lru[1] /\ lru' = DropAt(lru, 1)
           /\ hash_to_block' = Unindexed(block_hash[b])
           /\ block_hash' = [block_hash EXCEPT ![b] = NoHash]
  <2>1. lru \in Seq(Blocks) /\ 1 \in 1..Len(lru) BY <1>a, <1>3 DEF TypeOK
  <2>2. DOMAIN hash_to_block' = DOMAIN hash_to_block \ {block_hash[b]}
    BY <1>a, <1>3, UnindexedType
  <2>3. \A h \in DOMAIN hash_to_block : Parent(h) # block_hash[b]
    BY <1>3, VictimContinuedByNone
  <2>4. NoOrphans'
    <3>1. \A h \in DOMAIN hash_to_block' : Parent(h) = NoHash \/ Parent(h) \in DOMAIN hash_to_block'
      BY <1>a, <2>2, <2>3 DEF NoOrphans
    <3> QED BY <3>1 DEF NoOrphans, Parent, Prefix, NoHash
  <2>5. \A j \in 1..Len(lru) : j # 1 => block_hash'[lru[j]] = block_hash[lru[j]]
    <3>1. \A j \in 1..Len(lru) : lru[j] \in Blocks /\ (j # 1 => lru[j] # lru[1])
      BY <1>a, <2>1 DEF PoolPartition
    <3>2. \A c \in Blocks \ {b} : block_hash'[c] = block_hash[c] BY <1>a, <1>3 DEF TypeOK
    <3> QED BY <1>3, <3>1, <3>2
  <2>6. EvictionOrder' BY <1>a, <1>3, <2>1, <2>5, DropKeepsOrder
  <2>7. CachingOff' BY <1>a, <2>2 DEF CachingOff
  <2> QED BY <2>4, <2>6, <2>7
<1> QED BY <1>1, <1>2, <1>3 DEF take_block, LruVictim

\* A hit takes its block out of lru_, wherever it stands.
LEMMA AllocHitReach ==
    ASSUME ReachInv, AllocHit
    PROVE  NoOrphans' /\ EvictionOrder' /\ CachingOff'
<1>a. TypeOK /\ NoOrphans /\ EvictionOrder /\ CachingOff
  BY DEF ReachInv, SharingInv, TypeInv
<1>1. UNCHANGED <<block_hash, hash_to_block, call>> BY DEF AllocHit
<1>2. lru' = lru \/ \E k \in 1..Len(lru) : lru' = DropAt(lru, k)
  BY DEF AllocHit, touch_cached
<1>3. NoOrphans' /\ CachingOff' BY <1>a, <1>1 DEF NoOrphans, CachingOff, Parent, Prefix, NoHash
<1>4. CASE lru' = lru BY <1>a, <1>1, <1>3, <1>4 DEF EvictionOrder, Parent, Prefix
<1>5. ASSUME NEW k \in 1..Len(lru), lru' = DropAt(lru, k) PROVE EvictionOrder'
  BY <1>a, <1>1, <1>5, DropKeepsOrder
<1> QED BY <1>2, <1>3, <1>4, <1>5

\* A block is published after the block it continues: hash_full_block leaves a
\* block unhashed when the one before it is.
LEMMA CommitStepReach ==
    ASSUME ReachInv, CommitStep
    PROVE  NoOrphans' /\ EvictionOrder' /\ CachingOff'
<1>a. /\ TypeOK /\ TypeInv /\ CallContract /\ TableBounds /\ RefCounts /\ PoolPartition
      /\ HashChain /\ IndexCoherent /\ NoOrphans /\ EvictionOrder /\ CachingOff
  BY DEF ReachInv, SharingInv, TypeInv
<1>b. PICK s \in Seqs : s = call.seq BY <1>a, CallTypes DEF CommitStep
<1>c. PICK i \in Nat : i = num_committed[s] + 1 BY <1>a DEF TypeOK
<1>1. /\ call.op = "commit" /\ call.n \in Nat
      /\ i \in 1..Len(blocks[s]) /\ i * BlockSize <= call.n
      /\ hash_full_block(s, i)
      /\ UNCHANGED <<lru, call>>
  <2>1. call.op = "commit" /\ call.n \in Nat BY <1>a, CallTypes DEF CommitStep
  <2>2. num_committed[s] \in Nat /\ Len(blocks[s]) \in Nat BY <1>a DEF TypeOK
  <2> QED BY <1>b, <1>c, <2>1, <2>2 DEF CommitStep, CommitMore
<1>2. i * BlockSize <= Len(tokens[s]) /\ tokens[s] \in Seq(Token) /\ i \in Nat \ {0}
  <2>1. call.n <= written[s] /\ written[s] <= Len(tokens[s])
    BY <1>a, <1>b, <1>1 DEF CallContract, TableBounds
  <2>2. i * BlockSize \in Nat /\ written[s] \in Nat /\ Len(tokens[s]) \in Nat /\ tokens[s] \in Seq(Token)
    BY <1>a, <1>1, Scaled DEF TypeOK
  <2> QED BY <1>1, <2>1, <2>2
<1>3. CachingOff' BY <1>a, <1>1 DEF CachingOff
<1>4. CASE UNCHANGED <<hash_to_block, block_hash, hashes>>
  BY <1>a, <1>1, <1>3, <1>4 DEF NoOrphans, EvictionOrder, Parent, Prefix, NoHash
<1>d. PICK b \in Blocks : b = blocks[s][i] BY <1>a, <1>1 DEF TypeOK
<1>e. PICK h : h = ChainedHash(s, i) OBVIOUS
<1>5. CASE /\ Publishable(s, i)
           /\ hash_to_block' = [g \in DOMAIN hash_to_block \union {h} |->
                                   IF g = h THEN b ELSE hash_to_block[g]]
           /\ block_hash' = [block_hash EXCEPT ![b] = h]
  <2>1. DOMAIN hash_to_block' = DOMAIN hash_to_block \union {h} BY <1>5
  <2>2. h = HashOf(tokens[s], i) BY <1>a, <1>e, <1>1, <1>2, <1>5, ChainedHashOf
  <2>3. Parent(h) = HashOf(tokens[s], i - 1) /\ (i = 1 => Parent(h) = NoHash)
    BY <1>2, <2>2, ParentOf
  <2>4. Parent(h) = NoHash \/ Parent(h) \in DOMAIN hash_to_block
    <3>1. CASE i > 1
      <4>1. i - 1 \in 1..Len(blocks[s]) /\ hashes[s][i - 1] # NoHash
        BY <1>a, <1>1, <1>5, <3>1, SMTT(30) DEF Publishable, TypeOK
      <4>2. hashes[s][i - 1] = Parent(h) /\ block_hash[blocks[s][i - 1]] = Parent(h)
        BY <1>a, <2>3, <4>1 DEF HashChain
      <4>3. blocks[s][i - 1] \in Blocks BY <1>a, <4>1 DEF TypeOK
      <4> QED BY <1>a, <4>1, <4>2, <4>3 DEF IndexCoherent
    <3> QED BY <1>2, <2>3, <3>1
  <2>5. NoOrphans'
    <3>1. \A g \in DOMAIN hash_to_block' : Parent(g) = NoHash \/ Parent(g) \in DOMAIN hash_to_block'
      BY <1>a, <2>1, <2>4 DEF NoOrphans
    <3> QED BY <3>1 DEF NoOrphans, Parent, Prefix, NoHash
  <2>6. ref_count[b] # 0 BY <1>a, <1>d, <1>1, TableReferenced
  <2>7. \A k \in 1..Len(lru) : block_hash'[lru[k]] = block_hash[lru[k]]
    <3>1. \A k \in 1..Len(lru) : lru[k] \in Blocks /\ lru[k] \in Cached BY <1>a DEF Cached, TypeOK
    <3>2. \A k \in 1..Len(lru) : lru[k] # b BY <1>a, <2>6, <3>1 DEF PoolPartition
    <3> QED BY <1>a, <1>5, <3>1, <3>2 DEF TypeOK
  <2>8. EvictionOrder' BY <1>a, <1>1, <2>7, SMTT(20) DEF EvictionOrder, Parent, Prefix
  <2> QED BY <1>3, <2>5, <2>8
<1> QED BY <1>d, <1>e, <1>1, <1>4, <1>5 DEF hash_full_block

\* free releases a block before the one it continues.
LEMMA FreeStepReach ==
    ASSUME ReachInv, FreeStep
    PROVE  NoOrphans' /\ EvictionOrder' /\ CachingOff'
<1>a. /\ TypeOK /\ RefCounts /\ PoolPartition /\ HashChain /\ IndexCoherent
      /\ NoOrphans /\ EvictionOrder /\ CachingOff /\ SharingInv
  BY DEF ReachInv, SharingInv, TypeInv
<1>b. PICK s \in Seqs : s = call.seq BY <1>a, CallTypes DEF FreeStep
<1>c. PICK n \in 1..Len(blocks[s]) : n = Len(blocks[s])
  <2>1. blocks[s] \in Seq(Blocks) /\ blocks[s] # <<>> BY <1>a, <1>b DEF FreeStep, TypeOK
  <2> QED BY <2>1
<1>d. PICK b \in Blocks : b = blocks[s][n] BY <1>a, <1>c DEF TypeOK
<1>e. PICK h : h = hashes[s][n] OBVIOUS
<1>1. release_block(b, h) /\ UNCHANGED call BY <1>b, <1>c, <1>d, <1>e DEF FreeStep, ReleaseIndex
<1>2. block_hash[b] = h /\ ref_count[b] # 0
  BY <1>a, <1>c, <1>d, <1>e, TableReferenced DEF HashChain
<1>3. lru \in Seq(Blocks) /\ Len(lru) \in Nat BY <1>a DEF TypeOK
<1>4. CASE UNCHANGED <<free, lru, block_hash, hash_to_block, data>>
  BY <1>a, <1>1, <1>4 DEF NoOrphans, EvictionOrder, CachingOff, Parent, Prefix, NoHash
<1>5. CASE /\ h # NoHash /\ lru' = Append(lru, b) /\ UNCHANGED <<free, block_hash, hash_to_block, data>>
  <2>1. NoOrphans' /\ CachingOff'
    BY <1>a, <1>1, <1>5 DEF NoOrphans, CachingOff, Parent, Prefix, NoHash
  <2>2. /\ Len(lru') = Len(lru) + 1 /\ lru'[Len(lru) + 1] = b
        /\ \A k \in 1..Len(lru) : lru'[k] = lru[k]
    BY <1>3, <1>5
  <2>3. Parent(h) # h
    BY <1>a, <1>c, <1>e, <1>5, TableContinues
  <2>4. \A j \in 1..Len(lru) : block_hash[lru[j]] # Parent(h)
    <3> SUFFICES ASSUME NEW j \in 1..Len(lru), block_hash[lru[j]] = Parent(h) PROVE FALSE OBVIOUS
    <3>1. lru[j] \in Cached /\ lru[j] \in Blocks BY <1>3 DEF Cached
    <3>2. ref_count[lru[j]] = 0 /\ block_hash[lru[j]] # NoHash BY <1>a, <3>1 DEF PoolPartition
    <3>3. PICK p \in Blocks : ref_count[p] # 0 /\ block_hash[p] = Parent(h)
      BY <1>a, <1>c, <1>e, <1>5, <3>2, TableContinues
    <3>4. p = lru[j] BY <1>a, <3>1, <3>2, <3>3 DEF IndexCoherent
    <3> QED BY <3>2, <3>3, <3>4
  <2>5. ASSUME NEW j \in 1..Len(lru'), NEW k \in 1..Len(lru'),
               Parent(block_hash[lru'[k]]) = block_hash[lru'[j]]
        PROVE  k < j
    <3>1. CASE k = Len(lru) + 1
      <4>1. Parent(h) = block_hash[lru'[j]] BY <1>2, <2>2, <2>5, <3>1
      <4>2. j = Len(lru) + 1 BY <1>3, <2>2, <2>4, <4>1
      <4> QED BY <1>2, <2>2, <2>3, <4>1, <4>2
    <3>2. CASE k # Len(lru) + 1
      <4>1. k \in 1..Len(lru) /\ lru'[k] = lru[k] BY <1>3, <2>2, <3>2
      <4>2. CASE j = Len(lru) + 1 BY <1>3, <4>1, <4>2
      <4>3. CASE j # Len(lru) + 1
        <5>1. j \in 1..Len(lru) /\ lru'[j] = lru[j] BY <1>3, <2>2, <4>3
        <5> QED BY <1>a, <2>5, <4>1, <5>1 DEF EvictionOrder
      <4> QED BY <4>2, <4>3
    <3> QED BY <3>1, <3>2
  <2>6. EvictionOrder' BY <1>5, <2>5, SMTT(20) DEF EvictionOrder, Parent, Prefix
  <2> QED BY <2>1, <2>6
<1>6. CASE /\ ~(PrefixCaching /\ h # NoHash /\ block_hash[b] = h)
           /\ hash_to_block' = Unindexed(block_hash[b])
           /\ block_hash' = [block_hash EXCEPT ![b] = NoHash]
           /\ UNCHANGED lru
  <2>1. h = NoHash BY <1>a, <1>2, <1>6 DEF CachingOff, IndexCoherent
  <2>2. DOMAIN hash_to_block' = DOMAIN hash_to_block
    BY <1>a, <1>2, <1>6, <2>1, UnindexedType DEF TypeOK
  <2>3. block_hash' = block_hash BY <1>a, <1>2, <1>6, <2>1 DEF TypeOK
  <2>4. NoOrphans'
    <3>1. \A g \in DOMAIN hash_to_block' : Parent(g) = NoHash \/ Parent(g) \in DOMAIN hash_to_block'
      BY <1>a, <2>2 DEF NoOrphans
    <3> QED BY <3>1 DEF NoOrphans, Parent, Prefix, NoHash
  <2>5. EvictionOrder' BY <1>a, <1>6, <2>3 DEF EvictionOrder, Parent, Prefix
  <2>6. CachingOff' BY <1>a, <1>1, <2>2 DEF CachingOff
  <2> QED BY <2>4, <2>5, <2>6
<1> QED BY <1>1, <1>4, <1>5, <1>6 DEF release_block

\* Every step of the cache and of its client keeps the invariant.
LEMMA NextReach == ASSUME ReachInv, [KVNext]_kvVars PROVE ReachInv'
<1>a. /\ SharingInv /\ TypeOK /\ NoOrphans /\ EvictionOrder /\ CachingOff
  BY DEF ReachInv, SharingInv, TypeInv
<1>1. SharingInv' BY <1>a, NextSharing
<1>2. CASE UNCHANGED pool /\ (call'.op = "commit" => PrefixCaching \/ call' = call)
  BY <1>a, <1>1, <1>2 DEF ReachInv, NoOrphans, EvictionOrder, CachingOff, pool, Parent, Prefix, NoHash
<1>3. CASE AllocTake
  <2>1. PICK b \in Blocks : GrowTable(call.seq, b) BY <1>3 DEF AllocTake
  <2>2. call.seq \in Seqs /\ UNCHANGED call BY <1>a, <1>3, CallTypes DEF AllocTake
  <2>3. PICK s \in Seqs : s = call.seq BY <2>2
  <2> QED BY <1>1, <2>1, <2>2, <2>3, GrowTableReach DEF ReachInv
<1>4. ASSUME NEW s \in Seqs, ensure_slot(s) PROVE ReachInv'
  <2>1. PICK b \in Blocks : GrowTable(s, b) BY <1>4 DEF ensure_slot
  <2> QED BY <1>1, <1>4, <2>1, GrowTableReach DEF ReachInv, ensure_slot
<1>5. CASE AllocHit \/ CommitStep \/ FreeStep
  BY <1>1, <1>5, AllocHitReach, CommitStepReach, FreeStepReach DEF ReachInv
<1>6. CASE AllocReturn \/ CommitReturn \/ FreeReturn
  BY <1>2, <1>6 DEF AllocReturn, CommitReturn, FreeReturn, Returned, Idle
<1>7. CASE \E s \in Seqs :
              \/ \E t \in Prompts : SetPrompt(s, t)
              \/ \E t \in Token : AppendToken(s, t)
              \/ \E n \in 0..MaxTokens : allocate_prompt(s, n)
              \/ \E n \in 0..MaxTokens : commit_computed(s, n)
              \/ \E lo, hi \in 0..MaxTokens : Write(s, lo, hi)
              \/ free_table(s)
  BY <1>2, <1>7 DEF SetPrompt, AppendToken, allocate_prompt, commit_computed, Write, free_table
<1>8. CASE UNCHANGED kvVars BY <1>2, <1>8 DEF kvVars
<1> QED BY <1>3, <1>4, <1>5, <1>6, <1>7, <1>8 DEF KVNext, CallStep

\* The walk of allocate_prompt reaches every block in the index: eviction never
\* leaves the continuation of a block it evicts.
THEOREM NothingOrphaned == KVSpec => []NoOrphans
<1>1. KVInit => ReachInv
  <2> SUFFICES ASSUME KVInit PROVE ReachInv OBVIOUS
  <2>1. DOMAIN hash_to_block = {} /\ Len(lru) = 0 /\ call.op = "idle" BY DEF KVInit, Idle
  <2> QED BY <2>1, InitSharing DEF ReachInv, NoOrphans, EvictionOrder, CachingOff
<1>2. ReachInv /\ [KVNext]_kvVars => ReachInv' BY NextReach
<1>3. ReachInv => NoOrphans BY DEF ReachInv
<1> QED BY <1>1, <1>2, <1>3, PTL DEF KVSpec

-----------------------------------------------------------------------------
(* Capacity: what PromptFits promised is kept until the last block is      *)
(* taken.  A hit on an unreferenced block takes it out of lru_ and out of  *)
(* the hits still to come; any other hit changes neither.                  *)

\* The inductive invariant behind PromisedBlocksRemain.
CapacityInv == SharingInv /\ PromisedBlocksRemain

\* Block counts are numbers, and the pool is finite.
LEMMA PoolCounts ==
    ASSUME TypeOK, NEW t \in Seq(Token), NEW from \in Nat, NEW n \in Nat
    PROVE  /\ blocks_needed(Len(t)) \in Int
           /\ IsFiniteSet(free) /\ Cardinality(free) \in Nat
           /\ Len(lru) \in Nat /\ num_available_blocks \in Nat
<1>1. blocks_needed(Len(t)) \in Int BY KVAssumption DEF blocks_needed
<1>2. IsFiniteSet(free) /\ Cardinality(free) \in Nat
  BY KVAssumption, FS_Subset, FS_CardinalityType DEF TypeOK
<1>3. Len(lru) \in Nat BY DEF TypeOK
<1> QED BY <1>1, <1>2, <1>3 DEF num_available_blocks

\* A cache hit uses up none of the blocks promised to the rest of the prompt.
LEMMA AllocHitCapacity == ASSUME CapacityInv, AllocHit PROVE PromisedBlocksRemain'
<1>a. /\ TypeOK /\ CallContract /\ PoolPartition /\ IndexCoherent /\ PromisedBlocksRemain
  BY DEF CapacityInv, SharingInv, TypeInv
<1>b. PICK s \in Seqs : s = call.seq BY <1>a, CallTypes DEF AllocHit
<1>c. PICK n \in Nat : n = call.n BY <1>a, CallTypes DEF AllocHit
<1>d. blocks[s] \in Seq(Blocks) /\ Len(blocks[s]) \in Nat /\ tokens[s] \in Seq(Token)
  BY <1>a DEF TypeOK
<1>e. PICK g \in Nat : g = Len(blocks[s]) BY <1>d
<1>f. PICK h : h = HashOf(tokens[s], g + 1) OBVIOUS
<1>g. PICK b : b = hash_to_block[h] OBVIOUS
<1>1. /\ call.op = "alloc" /\ g < n /\ touch_cached(b) /\ ref_count' = Referenced(b)
      /\ blocks' = [blocks EXCEPT ![s] = Append(@, b)]
      /\ UNCHANGED <<free, block_hash, hash_to_block, tokens, call>>
  BY <1>b, <1>c, <1>e, <1>f, <1>g DEF AllocHit
<1>2. \A k \in (g + 1)..n : HashOf(tokens[s], k) \in DOMAIN hash_to_block
  BY <1>a, <1>b, <1>c, <1>e, <1>1 DEF CallContract
<1>3. h \in DOMAIN hash_to_block /\ b \in Blocks /\ block_hash[b] = h /\ h # NoHash
  <2>1. g + 1 \in (g + 1)..n BY <1>1
  <2>2. h \in DOMAIN hash_to_block BY <1>f, <1>2, <2>1
  <2> QED BY <1>a, <1>g, <2>2 DEF TypeOK, IndexCoherent
<1>4. /\ ref_count'[b] = ref_count[b] + 1 /\ ref_count[b] \in Nat
      /\ \A c \in Blocks \ {b} : ref_count'[c] = ref_count[c]
  BY <1>a, <1>1, <1>3 DEF Referenced, TypeOK
<1>5. Len(blocks'[s]) = g + 1 BY <1>a, <1>d, <1>e, <1>1 DEF TypeOK
<1> DEFINE t == tokens[s]
           A == LruHits(t, g + 1, n)
           B == {c \in {hash_to_block[HashOf(t, k)] : k \in (g + 2)..n} : ref_count'[c] = 0}
<1>6. A \subseteq Blocks /\ IsFiniteSet(A) /\ Cardinality(A) \in Nat
  <2>1. A \subseteq Blocks BY <1>a, <1>2 DEF LruHits, TypeOK
  <2> QED BY <2>1, KVAssumption, FS_Subset, FS_CardinalityType
<1>7. B = A \ {b}
  <2>1. (g + 1)..n = {g + 1} \union (g + 2)..n BY <1>1
  <2>2. \A k \in (g + 2)..n : hash_to_block[HashOf(t, k)] \in Blocks BY <1>a, <1>2, <2>1 DEF TypeOK
  <2>3. ref_count'[b] # 0 BY <1>4
  <2> QED BY <1>f, <1>g, <1>4, <2>1, <2>2, <2>3 DEF LruHits
<1> HIDE DEF A, B
<1>8. (Cardinality(free') + Len(lru')) - Cardinality(B) = num_available_blocks - Cardinality(A)
  <2>1. Cardinality(free) \in Nat /\ Len(lru) \in Nat /\ lru \in Seq(Blocks)
    BY <1>a, <1>d, PoolCounts DEF TypeOK
  <2>2. CASE ref_count[b] = 0
    <3>1. b \in Cached BY <1>a, <1>3, <2>2 DEF PoolPartition
    <3>2. PICK k \in 1..Len(lru) : lru' = DropAt(lru, k)
      BY <1>1, <3>1 DEF touch_cached, Cached
    <3>3. Len(lru') = Len(lru) - 1 BY <2>1, <3>2, DropAtType
    <3>4. b \in A
      <4>1. g + 1 \in (g + 1)..n BY <1>1
      <4> QED BY <1>f, <1>g, <2>2, <4>1 DEF LruHits, A
    <3>5. Cardinality(B) = Cardinality(A) - 1 BY <1>6, <1>7, <3>4, FS_RemoveElement
    <3> QED BY <1>1, <1>6, <2>1, <3>3, <3>5 DEF num_available_blocks
  <2>3. CASE ref_count[b] # 0
    <3>1. b \notin Cached BY <1>a, <2>3 DEF PoolPartition
    <3>2. lru' = lru BY <1>1, <3>1 DEF touch_cached, Cached
    <3>3. b \notin A BY <2>3 DEF LruHits, A
    <3>4. B = A BY <1>7, <3>3
    <3> QED BY <1>1, <1>6, <2>1, <3>2, <3>4 DEF num_available_blocks
  <2> QED BY <2>2, <2>3
<1>9. LruHits(t, g + 2, n)' = B BY <1>1 DEF LruHits, HashOf, Prefix, B
<1>10. blocks_needed(Len(t)) - n <= num_available_blocks - Cardinality(A)
  BY <1>a, <1>b, <1>c, <1>e, <1>1 DEF PromisedBlocksRemain, A
<1>11. num_available_blocks' - Cardinality(LruHits(t, g + 2, n)')
           = num_available_blocks - Cardinality(A)
  <2>1. Cardinality(LruHits(t, g + 2, n)') = Cardinality(B) BY <1>9
  <2>2. num_available_blocks' = Cardinality(free') + Len(lru') BY DEF num_available_blocks
  <2> QED BY <1>8, <2>1, <2>2
<1>12. blocks_needed(Len(t))' = blocks_needed(Len(t)) /\ blocks_needed(Len(t)) \in Int
  BY <1>a, <1>d, <1>1, PoolCounts DEF blocks_needed
<1>13. (IF g + 1 < n THEN n ELSE g + 1) = n /\ (g + 1) + 1 = g + 2 BY <1>1
<1> QED BY <1>b, <1>c, <1>1, <1>5, <1>10, <1>11, <1>12, <1>13
        DEF PromisedBlocksRemain, blocks_needed

\* Taking a block for the uncached part uses up exactly one promised block.
LEMMA AllocTakeCapacity == ASSUME CapacityInv, AllocTake PROVE PromisedBlocksRemain'
<1>a. TypeOK /\ PromisedBlocksRemain BY DEF CapacityInv, SharingInv, TypeInv
<1>b. PICK s \in Seqs : s = call.seq BY <1>a, CallTypes DEF AllocTake
<1>c. PICK n \in Nat : n = call.n BY <1>a, CallTypes DEF AllocTake
<1>d. blocks[s] \in Seq(Blocks) /\ Len(blocks[s]) \in Nat /\ tokens[s] \in Seq(Token)
  BY <1>a DEF TypeOK
<1>e. PICK g \in Nat : g = Len(blocks[s]) BY <1>d
<1>f. PICK b \in Blocks : GrowTable(s, b) BY <1>b DEF AllocTake
<1>1. /\ call.op = "alloc" /\ n <= g /\ take_block(b)
      /\ blocks' = [blocks EXCEPT ![s] = Append(@, b)]
      /\ UNCHANGED <<tokens, call>>
  BY <1>b, <1>c, <1>e, <1>f DEF AllocTake, GrowTable
<1>2. Len(blocks'[s]) = g + 1 BY <1>a, <1>d, <1>e, <1>1 DEF TypeOK
<1>3. /\ IsFiniteSet(free) /\ Cardinality(free) \in Nat
      /\ Len(lru) \in Nat /\ num_available_blocks \in Nat /\ lru \in Seq(Blocks)
      /\ blocks_needed(Len(tokens[s])) \in Int
  BY <1>a, <1>d, PoolCounts DEF TypeOK
<1>4. num_available_blocks' = num_available_blocks - 1
  <2>1. CASE b \in free /\ free' = free \ {b} /\ UNCHANGED lru
    <3>1. Cardinality(free') = Cardinality(free) - 1 BY <1>3, <2>1, FS_RemoveElement
    <3> QED BY <1>3, <2>1, <3>1 DEF num_available_blocks
  <2>2. CASE lru # <<>> /\ lru' = DropAt(lru, 1) /\ UNCHANGED free
    <3>1. 1 \in 1..Len(lru) BY <1>3, <2>2
    <3>2. Len(lru') = Len(lru) - 1 BY <1>3, <2>2, <3>1, DropAtType
    <3> QED BY <1>3, <2>2, <3>2 DEF num_available_blocks
  <2> QED BY <1>1, <2>1, <2>2 DEF take_block, LruVictim
<1>5. Cardinality(LruHits(tokens[s], g + 1, n)) = 0 /\ Cardinality(LruHits(tokens[s], g + 2, n)') = 0
  <2>1. (g + 1)..n = {} /\ (g + 2)..n = {} BY <1>1
  <2>2. LruHits(tokens[s], g + 1, n) = {} /\ LruHits(tokens[s], g + 2, n)' = {}
    BY <2>1 DEF LruHits
  <2> QED BY <2>2, FS_EmptySet
<1>6. blocks_needed(Len(tokens[s])) - g <= num_available_blocks
  <2>1. (IF g < n THEN n ELSE g) = g BY <1>1
  <2>2. blocks_needed(Len(tokens[s])) - g
           <= num_available_blocks - Cardinality(LruHits(tokens[s], g + 1, n))
    BY <1>a, <1>b, <1>c, <1>e, <1>1, <2>1 DEF PromisedBlocksRemain
  <2> QED BY <1>3, <1>5, <2>2
<1>7. (IF g + 1 < n THEN n ELSE g + 1) = g + 1 /\ (g + 1) + 1 = g + 2 BY <1>1
<1>8. blocks_needed(Len(tokens[s]))' = blocks_needed(Len(tokens[s])) BY <1>1 DEF blocks_needed
<1>9. blocks_needed(Len(tokens[s])) - (g + 1) <= num_available_blocks' - 0
  BY <1>3, <1>4, <1>6
<1> QED BY <1>b, <1>c, <1>1, <1>2, <1>5, <1>7, <1>8, <1>9
        DEF PromisedBlocksRemain, blocks_needed

\* The capacity check itself makes the promise.
LEMMA AllocatePromptCapacity ==
    ASSUME CapacityInv, NEW s \in Seqs, NEW n \in Nat, allocate_prompt(s, n)
    PROVE  PromisedBlocksRemain'
<1>1. /\ call' = [op |-> "alloc", seq |-> s, n |-> n] /\ blocks[s] = <<>>
      /\ PromptFits(tokens[s], n) /\ UNCHANGED <<pool, blocks, tokens>>
  BY DEF allocate_prompt, tables
<1>2. call'.seq = s /\ call'.n = n /\ Len(blocks'[s]) = 0 BY <1>1
<1>3. /\ (IF 0 < n THEN n ELSE 0) = n /\ 0 + 1 = 1 OBVIOUS
<1>4. /\ num_available_blocks' = num_available_blocks
      /\ LruHits(tokens[s], 1, n)' = LruHits(tokens[s], 1, n)
      /\ blocks_needed(Len(tokens[s]))' = blocks_needed(Len(tokens[s]))
  BY <1>1 DEF pool, num_available_blocks, LruHits, HashOf, Prefix, blocks_needed
<1> QED BY <1>1, <1>2, <1>3, <1>4 DEF PromisedBlocksRemain, PromptFits

\* Every step of the cache and of its client keeps the invariant.
LEMMA NextCapacity == ASSUME CapacityInv, [KVNext]_kvVars PROVE CapacityInv'
<1>a. SharingInv /\ TypeOK /\ PromisedBlocksRemain BY DEF CapacityInv, SharingInv, TypeInv
<1>1. SharingInv' BY <1>a, NextSharing
<1>2. CASE call'.op # "alloc" BY <1>1, <1>2 DEF CapacityInv, PromisedBlocksRemain
<1>3. CASE UNCHANGED kvVars
  BY <1>a, <1>1, <1>3 DEF kvVars, pool, tables, CapacityInv, PromisedBlocksRemain, LruHits,
     num_available_blocks, blocks_needed, HashOf, Prefix
<1>4. CASE AllocHit \/ AllocTake
  BY <1>1, <1>4, AllocHitCapacity, AllocTakeCapacity DEF CapacityInv
<1>5. ASSUME NEW s \in Seqs, NEW n \in 0..MaxTokens, allocate_prompt(s, n) PROVE CapacityInv'
  <2>1. n \in Nat BY KVAssumption
  <2> QED BY <1>1, <1>5, <2>1, AllocatePromptCapacity DEF CapacityInv
<1>6. CASE AllocReturn \/ CommitStep \/ CommitReturn \/ FreeStep \/ FreeReturn
  BY <1>2, <1>6 DEF AllocReturn, CommitStep, CommitReturn, FreeStep, FreeReturn, Returned, Idle
<1>7. CASE \E s \in Seqs :
              \/ \E t \in Prompts : SetPrompt(s, t)
              \/ \E t \in Token : AppendToken(s, t)
              \/ \E n \in 0..MaxTokens : commit_computed(s, n)
              \/ \E lo, hi \in 0..MaxTokens : Write(s, lo, hi)
              \/ ensure_slot(s)
              \/ free_table(s)
  BY <1>2, <1>7
     DEF SetPrompt, AppendToken, commit_computed, Write, ensure_slot, free_table, Idle
<1> QED BY <1>3, <1>4, <1>5, <1>6, <1>7 DEF KVNext, CallStep

\* The promise of allocate_prompt's capacity check is kept through its loop,
\* whatever is cached, shared or evicted on the way.
THEOREM PromiseKept == KVSpec => []PromisedBlocksRemain
<1>1. KVInit => CapacityInv
  BY InitSharing DEF KVInit, CapacityInv, PromisedBlocksRemain, Idle
<1>2. CapacityInv /\ [KVNext]_kvVars => CapacityInv' BY NextCapacity
<1>3. CapacityInv => PromisedBlocksRemain BY DEF CapacityInv
<1> QED BY <1>1, <1>2, <1>3, PTL DEF KVSpec

\* The assertion in allocate_prompt's loop: when the loop takes a block there is
\* one to take, so an admitted prompt is never left half allocated.
TakeNeverFails ==
    call.op = "alloc" /\ call.n <= Len(blocks[call.seq])
      /\ Len(blocks[call.seq]) < blocks_needed(Len(tokens[call.seq]))
    => free # {} \/ lru # <<>>

\* The pool is never exhausted inside allocate_prompt.
THEOREM AllocationNeverStuck == KVSpec => []TakeNeverFails
<1>1. CapacityInv => TakeNeverFails
  <2> SUFFICES ASSUME CapacityInv, call.op = "alloc", call.n <= Len(blocks[call.seq]),
                      Len(blocks[call.seq]) < blocks_needed(Len(tokens[call.seq])),
                      free = {}, lru = <<>>
               PROVE  FALSE
    BY DEF TakeNeverFails
  <2>a. TypeOK /\ PromisedBlocksRemain BY DEF CapacityInv, SharingInv, TypeInv
  <2>b. PICK s \in Seqs : s = call.seq BY <2>a, CallTypes
  <2>c. PICK n \in Nat : n = call.n BY <2>a, CallTypes
  <2>d. Len(blocks[s]) \in Nat /\ tokens[s] \in Seq(Token) BY <2>a DEF TypeOK
  <2>e. PICK g \in Nat : g = Len(blocks[s]) BY <2>d
  <2>1. num_available_blocks = 0 BY FS_EmptySet DEF num_available_blocks
  <2>2. LruHits(tokens[s], g + 1, n) = {}
    <3>1. (g + 1)..n = {} BY <2>b, <2>c, <2>e
    <3> QED BY <3>1 DEF LruHits
  <2>3. (IF g < n THEN n ELSE g) = g BY <2>b, <2>c, <2>e
  <2>4. blocks_needed(Len(tokens[s])) - g <= 0
    <3>1. blocks_needed(Len(tokens[s])) - g
             <= num_available_blocks - Cardinality(LruHits(tokens[s], g + 1, n))
      BY <2>a, <2>b, <2>c, <2>e, <2>3 DEF PromisedBlocksRemain
    <3>2. Cardinality(LruHits(tokens[s], g + 1, n)) = 0 BY <2>2, FS_EmptySet
    <3> QED BY <2>1, <3>1, <3>2
  <2>5. blocks_needed(Len(tokens[s])) \in Int BY <2>a, <2>d, PoolCounts
  <2> QED BY <2>b, <2>e, <2>4, <2>5
<1>2. KVInit => CapacityInv
  BY InitSharing DEF KVInit, CapacityInv, PromisedBlocksRemain, Idle
<1>3. CapacityInv /\ [KVNext]_kvVars => CapacityInv' BY NextCapacity
<1> QED BY <1>1, <1>2, <1>3, PTL DEF KVSpec

===============================================================================
