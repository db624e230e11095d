------------------------------- MODULE KVCache -------------------------------
(***************************************************************************)
(* The paged KV cache: KVCacheManager of kv_cache/block_allocator.cpp, the *)
(* BlockTable of every sequence (kv_cache.h), and the K/V slots that the   *)
(* model's forward pass fills through those tables.                        *)
(*                                                                         *)
(* The manager is used by the engine thread alone, so its public methods   *)
(* never interleave.  A method that loops (allocate_prompt,                *)
(* commit_computed, free) is one action per loop iteration; `call' names   *)
(* the method in progress, and every action of a caller requires call =    *)
(* Idle, so nothing happens between two iterations.                        *)
(*                                                                         *)
(* Abstractions.  A content hash is the token prefix it stands for         *)
(* (hash_block is taken to be injective).  The K/V stored in a slot is the *)
(* token prefix it was computed from; a block nobody may read any more     *)
(* loses its contents.  free_ is a set: which unhashed block is handed out *)
(* is observed by nobody.                                                  *)
(***************************************************************************)
EXTENDS Integers, Sequences, FiniteSets

CONSTANTS
    Blocks,         \* physical block ids, 0 .. num_blocks_-1
    BlockSize,      \* block_size_
    PrefixCaching,  \* prefix_caching_
    Seqs,           \* Sequence objects
    Token,          \* vocabulary
    Prompts,        \* prompts requests may have
    MaxTokens       \* bound on a sequence's length (the model's context window)

ASSUME KVAssumption ==
    /\ IsFiniteSet(Blocks) /\ Blocks # {}
    /\ BlockSize \in Nat \ {0}
    /\ PrefixCaching \in BOOLEAN
    /\ IsFiniteSet(Seqs)
    /\ Prompts \subseteq Seq(Token)
    /\ MaxTokens \in Nat

VARIABLES
    free,           \* free_
    lru,            \* lru_; the front is the least recently released block
    ref_count,      \* ref_count_[b]
    block_hash,     \* block_hash_[b]
    hash_to_block,  \* hash_to_block_, a function on the published hashes
    blocks,         \* block_table.blocks of each sequence
    hashes,         \* block_table.hashes
    num_committed,  \* block_table.num_committed
    tokens,         \* Sequence::tokens, the prompt followed by generated tokens
    written,        \* leading positions whose K/V are in the sequence's slots
    data,           \* contents of the K/V slots
    call            \* the manager's method in progress

pool == <<free, lru, ref_count, block_hash, hash_to_block>>
tables == <<blocks, hashes, num_committed>>
kvVars == <<pool, tables, tokens, written, data, call>>

-----------------------------------------------------------------------------
(* Prefixes, hashes, slots.                                                *)

\* The first n elements of t, n <= Len(t).
Prefix(t, n) == [k \in 1..n |-> t[k]]

\* 0 is reserved for "unhashed".
NoHash == <<>>

\* The tokens of the i-th full block of t (blocks are numbered from 1).
Chunk(t, i) == [o \in 1..BlockSize |-> t[(i - 1) * BlockSize + o]]

\* Mutant: the hash is the block's own tokens, wherever they stand.
hash_block_unchained(prev, chunk) == chunk

\* hash_block: position aware, because the previous block's hash is chained in.
hash_block(prev, chunk) == prev \o chunk

\* The hash of block i of t when every block before it is hashed too.
HashOf(t, i) == Prefix(t, i * BlockSize)

\* The hash that the hash h was chained from.
Parent(h) == Prefix(h, Len(h) - BlockSize)

Hash == Seq(Token)

\* The 1-based token position held by offset o of a sequence's i-th block.
Position(i, o) == (i - 1) * BlockSize + o

Unwritten == [o \in 1..BlockSize |-> <<>>]

blocks_needed(n) == (n + BlockSize - 1) \div BlockSize

num_available_blocks == Cardinality(free) + Len(lru)

Idle == [op |-> "idle"]

Returned == call' = Idle

-----------------------------------------------------------------------------
(* Private methods.                                                        *)

\* s without its k-th element.
DropAt(s, k) == [j \in 1..(Len(s) - 1) |-> IF j < k THEN s[j] ELSE s[j + 1]]

\* Mutant: the index keeps a hash whose block is handed out.
Unindexed_noop(h) == hash_to_block

\* hash_to_block_.erase(h)
Unindexed(h) == [g \in DOMAIN hash_to_block \ {h} |-> hash_to_block[g]]

\* Mutant: the most recently released block is evicted first.
LruVictim_youngest == Len(lru)

\* The position in the LRU list of the block to evict.
LruVictim == 1

\* The block handed out is a free one, else the least recently released cached
\* one, which leaves the prefix cache.  Disabled when the pool is exhausted.
take_block(b) ==
    \/ /\ b \in free
       /\ free' = free \ {b}
       /\ UNCHANGED <<lru, block_hash, hash_to_block, data>>
    \/ /\ free = {} /\ lru # <<>>
       /\ b = lru[LruVictim]
       /\ lru' = DropAt(lru, LruVictim)
       /\ hash_to_block' = Unindexed(block_hash[b])
       /\ block_hash' = [block_hash EXCEPT ![b] = NoHash]
       /\ data' = [data EXCEPT ![b] = Unwritten]
       /\ UNCHANGED free

\* A re-referenced block leaves the LRU list, wherever in it it stands.
touch_cached(b) ==
    \/ /\ \A k \in 1..Len(lru) : lru[k] # b
       /\ UNCHANGED lru
    \/ \E k \in 1..Len(lru) : lru[k] = b /\ lru' = DropAt(lru, k)

\* Mutant: a block is released although another sequence still references it.
LastReference_always(b) == TRUE

LastReference(b) == ref_count[b] = 1

\* The last reference gone, a published block stays cached at the young end of
\* the LRU list and any other block goes back to the free list.
release_block(b, h) ==
    /\ ref_count[b] > 0
    /\ ref_count' = [ref_count EXCEPT ![b] = @ - 1]
    /\ \/ /\ ~LastReference(b)
          /\ UNCHANGED <<free, lru, block_hash, hash_to_block, data>>
       \/ /\ LastReference(b)
          /\ PrefixCaching /\ h # NoHash /\ block_hash[b] = h
          /\ lru' = Append(lru, b)
          /\ UNCHANGED <<free, block_hash, hash_to_block, data>>
       \/ /\ LastReference(b)
          /\ ~(PrefixCaching /\ h # NoHash /\ block_hash[b] = h)
          /\ hash_to_block' = Unindexed(block_hash[b])
          /\ block_hash' = [block_hash EXCEPT ![b] = NoHash]
          /\ free' = free \union {b}
          /\ data' = [data EXCEPT ![b] = Unwritten]
          /\ UNCHANGED lru

\* The hash under which block i of s would be published.
ChainedHash(s, i) ==
    hash_block(IF i = 1 THEN NoHash ELSE hashes[s][i - 1], Chunk(tokens[s], i))

\* A block is published unless an earlier one of the table is a duplicate (the
\* chain stays unhashed) or another block already represents its content.
Publishable(s, i) ==
    /\ i > 1 => hashes[s][i - 1] # NoHash
    /\ ChainedHash(s, i) \notin DOMAIN hash_to_block

hash_full_block(s, i) ==
    LET h == ChainedHash(s, i)
        b == blocks[s][i]
    IN  \/ /\ Publishable(s, i)
           /\ hash_to_block' = [g \in DOMAIN hash_to_block \union {h} |->
                                   IF g = h THEN b ELSE hash_to_block[g]]
           /\ block_hash' = [block_hash EXCEPT ![b] = h]
           /\ hashes' = [hashes EXCEPT ![s][i] = h]
        \/ /\ ~Publishable(s, i)
           /\ UNCHANGED <<hash_to_block, block_hash, hashes>>

-----------------------------------------------------------------------------
(* Public methods.                                                         *)

\* n is the length, in blocks, of the longest cached prefix of t: the walk of
\* lookup_cached_prefix and allocate_prompt stops at the first miss.
CachedPrefix(t, n) ==
    /\ n * BlockSize <= Len(t)
    /\ \A i \in 1..n : HashOf(t, i) \in DOMAIN hash_to_block
    /\ \/ ~PrefixCaching /\ n = 0
       \/ PrefixCaching /\ ~(/\ (n + 1) * BlockSize <= Len(t)
                             /\ HashOf(t, n + 1) \in DOMAIN hash_to_block)

\* Cached blocks from..n of t that nobody references: they sit in the LRU list.
LruHits(t, from, n) ==
    {b \in {hash_to_block[HashOf(t, i)] : i \in from..n} : ref_count[b] = 0}

\* Mutant: unreferenced hits are counted as capacity as well.
PromptFits_counts_hits(t, n) == blocks_needed(Len(t)) - n <= num_available_blocks

PromptFits(t, n) ==
    blocks_needed(Len(t)) - n <= num_available_blocks - Cardinality(LruHits(t, 1, n))

\* allocate_prompt, up to the capacity check; n blocks will be shared.
allocate_prompt(s, n) ==
    /\ call = Idle
    /\ blocks[s] = <<>>
    /\ CachedPrefix(tokens[s], n)
    /\ PromptFits(tokens[s], n)
    /\ call' = [op |-> "alloc", seq |-> s, n |-> n]
    /\ UNCHANGED <<pool, tables, tokens, written, data>>

\* Mutant: the count is set as for a fresh block.
Referenced_once(b) == [ref_count EXCEPT ![b] = 1]

Referenced(b) == [ref_count EXCEPT ![b] = @ + 1]

\* Reference the next cached block of the prompt.
AllocHit ==
    /\ call.op = "alloc"
    /\ Len(blocks[call.seq]) < call.n
    /\ LET s == call.seq
           h == HashOf(tokens[s], Len(blocks[s]) + 1)
           b == hash_to_block[h]
       IN  /\ touch_cached(b)
           /\ ref_count' = Referenced(b)
           /\ blocks' = [blocks EXCEPT ![s] = Append(@, b)]
           /\ hashes' = [hashes EXCEPT ![s] = Append(@, h)]
    /\ UNCHANGED <<free, block_hash, hash_to_block, num_committed, tokens, written, data, call>>

\* Mutant: the table's two vectors get out of step.
GrowTable_no_hash(s, b) ==
    /\ take_block(b)
    /\ ref_count' = [ref_count EXCEPT ![b] = 1]
    /\ blocks' = [blocks EXCEPT ![s] = Append(@, b)]
    /\ UNCHANGED <<hashes, num_committed, tokens, written>>

\* Take a block and put it, unhashed, at the end of the table of s.
GrowTable(s, b) ==
    /\ take_block(b)
    /\ ref_count' = [ref_count EXCEPT ![b] = 1]
    /\ blocks' = [blocks EXCEPT ![s] = Append(@, b)]
    /\ hashes' = [hashes EXCEPT ![s] = Append(@, NoHash)]
    /\ UNCHANGED <<num_committed, tokens, written>>

\* Take a block for the next uncached part of the prompt.
AllocTake ==
    /\ call.op = "alloc"
    /\ call.n <= Len(blocks[call.seq])
    /\ Len(blocks[call.seq]) < blocks_needed(Len(tokens[call.seq]))
    /\ \E b \in Blocks : GrowTable(call.seq, b)
    /\ UNCHANGED call

AllocReturn ==
    /\ call.op = "alloc"
    /\ call.n <= Len(blocks[call.seq])
    /\ Len(blocks[call.seq]) >= blocks_needed(Len(tokens[call.seq]))
    /\ num_committed' = [num_committed EXCEPT ![call.seq] = call.n]
    /\ written' = [written EXCEPT ![call.seq] = call.n * BlockSize]
    /\ Returned
    /\ UNCHANGED <<pool, blocks, hashes, tokens, data>>

\* ensure_slot when the last token has no slot yet; EnsureSlotHolds is the case
\* in which the table is long enough already, EnsureSlotFails the exhausted pool.
ensure_slot(s) ==
    /\ call = Idle
    /\ blocks_needed(Len(tokens[s])) = Len(blocks[s]) + 1
    /\ \E b \in Blocks : GrowTable(s, b)
    /\ UNCHANGED call

EnsureSlotHolds(s) == blocks_needed(Len(tokens[s])) <= Len(blocks[s])

EnsureSlotFails(s) ==
    /\ blocks_needed(Len(tokens[s])) > Len(blocks[s])
    /\ free = {} /\ lru = <<>>

\* commit_computed(bt, tokens, n), which returns at once without prefix caching.
commit_computed(s, n) ==
    /\ call = Idle
    /\ PrefixCaching
    /\ n <= written[s]
    /\ call' = [op |-> "commit", seq |-> s, n |-> n]
    /\ UNCHANGED <<pool, tables, tokens, written, data>>

\* Mutant: a block is published one slot before it is complete.
CommitMore_early(s, n) ==
    /\ num_committed[s] < Len(blocks[s])
    /\ (num_committed[s] + 1) * BlockSize <= n + 1

CommitMore(s, n) ==
    /\ num_committed[s] < Len(blocks[s])
    /\ (num_committed[s] + 1) * BlockSize <= n

CommitStep ==
    /\ call.op = "commit"
    /\ CommitMore(call.seq, call.n)
    /\ hash_full_block(call.seq, num_committed[call.seq] + 1)
    /\ num_committed' = [num_committed EXCEPT ![call.seq] = @ + 1]
    /\ UNCHANGED <<free, lru, ref_count, blocks, tokens, written, data, call>>

CommitReturn ==
    /\ call.op = "commit"
    /\ ~CommitMore(call.seq, call.n)
    /\ Returned
    /\ UNCHANGED <<pool, tables, tokens, written, data>>

\* free(bt): the blocks are released in reverse table order.  The table shrinks
\* with each release; the code clears it at the end, which nobody can tell.
free_table(s) ==
    /\ call = Idle
    /\ call' = [op |-> "free", seq |-> s, n |-> 0]
    /\ written' = [written EXCEPT ![s] = 0]
    /\ UNCHANGED <<pool, tables, tokens, data>>

ReleaseIndex(s) == Len(blocks[s])

FreeStep ==
    /\ call.op = "free"
    /\ blocks[call.seq] # <<>>
    /\ LET s == call.seq
           i == ReleaseIndex(s)
       IN  /\ release_block(blocks[s][i], hashes[s][i])
           /\ blocks' = [blocks EXCEPT ![s] = DropAt(@, i)]
           /\ hashes' = [hashes EXCEPT ![s] = DropAt(@, i)]
    /\ UNCHANGED <<num_committed, tokens, written, call>>

FreeReturn ==
    /\ call.op = "free"
    /\ blocks[call.seq] = <<>>
    /\ num_committed' = [num_committed EXCEPT ![call.seq] = 0]
    /\ Returned
    /\ UNCHANGED <<pool, blocks, hashes, tokens, written, data>>

-----------------------------------------------------------------------------
(* The manager's client: a sequence gets a prompt, the forward pass writes *)
(* K/V through the table, a sampled token is appended.                     *)

\* A new request's tokens.
SetPrompt(s, t) ==
    /\ call = Idle
    /\ blocks[s] = <<>>
    /\ tokens' = [tokens EXCEPT ![s] = t]
    /\ UNCHANGED <<pool, tables, written, data, call>>

\* Forward of the slice lo+1 .. hi of s.  The K/V of a position are stored at
\* blocks[pos / block_size], offset pos % block_size.  A slice may start before
\* the last cached position (a fully cached prompt recomputes its last token),
\* never after it, and never past the table.
Write(s, lo, hi) ==
    /\ call = Idle
    /\ lo <= written[s] /\ lo < hi
    /\ hi <= Len(tokens[s]) /\ hi <= Len(blocks[s]) * BlockSize
    /\ LET Slots(b, o) == {p \in (lo + 1)..hi :
               \E i \in 1..Len(blocks[s]) : blocks[s][i] = b /\ p = Position(i, o)}
       IN  data' = [b \in Blocks |-> [o \in 1..BlockSize |->
                       IF Slots(b, o) = {} THEN data[b][o]
                       ELSE Prefix(tokens[s], CHOOSE p \in Slots(b, o) : TRUE)]]
    /\ written' = [written EXCEPT ![s] = IF hi > @ THEN hi ELSE @]
    /\ UNCHANGED <<pool, tables, tokens, call>>

AppendToken(s, t) ==
    /\ call = Idle
    /\ blocks[s] # <<>>
    /\ Len(tokens[s]) < MaxTokens
    /\ tokens' = [tokens EXCEPT ![s] = Append(@, t)]
    /\ UNCHANGED <<pool, tables, written, data, call>>

-----------------------------------------------------------------------------
KVInit ==
    /\ free = Blocks
    /\ lru = <<>>
    /\ ref_count = [b \in Blocks |-> 0]
    /\ block_hash = [b \in Blocks |-> NoHash]
    /\ hash_to_block = <<>>
    /\ blocks = [s \in Seqs |-> <<>>]
    /\ hashes = [s \in Seqs |-> <<>>]
    /\ num_committed = [s \in Seqs |-> 0]
    /\ tokens = [s \in Seqs |-> <<>>]
    /\ written = [s \in Seqs |-> 0]
    /\ data = [b \in Blocks |-> Unwritten]
    /\ call = Idle

\* The iterations of the method in progress.
CallStep ==
    \/ AllocHit \/ AllocTake \/ AllocReturn
    \/ CommitStep \/ CommitReturn
    \/ FreeStep \/ FreeReturn

KVNext ==
    \/ CallStep
    \/ \E s \in Seqs :
        \/ \E t \in Prompts : SetPrompt(s, t)
        \/ \E t \in Token : AppendToken(s, t)
        \/ \E n \in 0..MaxTokens : allocate_prompt(s, n)
        \/ \E n \in 0..MaxTokens : commit_computed(s, n)
        \/ \E lo, hi \in 0..MaxTokens : Write(s, lo, hi)
        \/ ensure_slot(s)
        \/ free_table(s)

KVSpec == KVInit /\ [][KVNext]_kvVars

-----------------------------------------------------------------------------
(* Invariants.                                                             *)

Calls == [op : {"alloc", "commit", "free"}, seq : Seqs, n : Nat]

\* Every variable has the type its C++ declaration and its use give it.
TypeOK ==
    /\ free \subseteq Blocks
    /\ lru \in Seq(Blocks)
    /\ ref_count \in [Blocks -> Nat]
    /\ block_hash \in [Blocks -> Hash]
    /\ DOMAIN hash_to_block \subseteq Hash \ {NoHash}
    /\ hash_to_block \in [DOMAIN hash_to_block -> Blocks]
    /\ blocks \in [Seqs -> Seq(Blocks)]
    /\ hashes \in [Seqs -> Seq(Hash)]
    /\ \A s \in Seqs : Len(hashes[s]) = Len(blocks[s])
    /\ num_committed \in [Seqs -> Nat]
    /\ tokens \in [Seqs -> Seq(Token)]
    /\ written \in [Seqs -> Nat]
    /\ data \in [Blocks -> [1..BlockSize -> Seq(Token)]]
    /\ call \in Calls \union {Idle}

Cached == {lru[k] : k \in 1..Len(lru)}

Owners(b) == {s \in Seqs : \E i \in 1..Len(blocks[s]) : blocks[s][i] = b}

\* No block leaks and none is in two places: an unreferenced block is in the free
\* list if it is unhashed and in the LRU list, once, if it is published; a
\* referenced block is in neither.
PoolPartition ==
    /\ free = {b \in Blocks : ref_count[b] = 0 /\ block_hash[b] = NoHash}
    /\ Cached = {b \in Blocks : ref_count[b] = 0 /\ block_hash[b] # NoHash}
    /\ \A j, k \in 1..Len(lru) : lru[j] = lru[k] => j = k

\* ref_count_ is the number of block tables a block is in, and no table names a
\* block twice.
RefCounts ==
    /\ \A b \in Blocks : ref_count[b] = Cardinality(Owners(b))
    /\ \A s \in Seqs : \A i, j \in 1..Len(blocks[s]) :
           blocks[s][i] = blocks[s][j] => i = j

\* hash_to_block_ and block_hash_ are inverse to each other: the cache never
\* names a block that was handed out for other content.
IndexCoherent ==
    /\ \A h \in DOMAIN hash_to_block : block_hash[hash_to_block[h]] = h
    /\ \A b \in Blocks : block_hash[b] # NoHash =>
           /\ block_hash[b] \in DOMAIN hash_to_block
           /\ hash_to_block[block_hash[b]] = b

\* What a block table says of a block's hash is what the pool says of it; a hashed
\* block stands for the sequence's own tokens, and so does every block before it.
HashChain ==
    \A s \in Seqs : \A i \in 1..Len(blocks[s]) :
        /\ block_hash[blocks[s][i]] = hashes[s][i]
        /\ hashes[s][i] # NoHash =>
              /\ i * BlockSize <= Len(tokens[s])
              /\ hashes[s][i] = HashOf(tokens[s], i)
              /\ i > 1 => hashes[s][i - 1] # NoHash

\* A block that is not published is in one block table at most: what a forward
\* pass writes into it is read by its owner alone.
UnpublishedPrivate ==
    \A s1, s2 \in Seqs : \A i \in 1..Len(blocks[s1]), j \in 1..Len(blocks[s2]) :
        s1 # s2 /\ blocks[s1][i] = blocks[s2][j] => hashes[s1][i] # NoHash

\* No cached block is orphaned: the walk of allocate_prompt, which stops at the
\* first miss, reaches every block in the index.  This is why free() releases in
\* reverse order and why eviction takes the least recently released block.
NoOrphans ==
    \A h \in DOMAIN hash_to_block : Parent(h) = NoHash \/ Parent(h) \in DOMAIN hash_to_block

\* A published block holds, slot by slot, the K/V of exactly the tokens its hash
\* stands for.
PublishedContent ==
    \A b \in Blocks : block_hash[b] # NoHash =>
        /\ Len(block_hash[b]) >= BlockSize
        /\ \A o \in 1..BlockSize :
              data[b][o] = Prefix(block_hash[b], Len(block_hash[b]) - BlockSize + o)

\* Attention of s over its first written[s] positions reads the K/V of its own
\* tokens, whichever sequence computed them.
OwnContent ==
    \A s \in Seqs : \A i \in 1..Len(blocks[s]), o \in 1..BlockSize :
        Position(i, o) <= written[s] =>
            data[blocks[s][i]][o] = Prefix(tokens[s], Position(i, o))

\* The assertion in allocate_prompt's loop never fires: what the capacity check
\* promised is still there when the last block is taken.
PromisedBlocksRemain ==
    call.op = "alloc" =>
        LET s == call.seq
            got == Len(blocks[s])
        IN  blocks_needed(Len(tokens[s])) - (IF got < call.n THEN call.n ELSE got)
              <= num_available_blocks - Cardinality(LruHits(tokens[s], got + 1, call.n))

\* As long as a block stays published under the same hash, no step changes its
\* contents, although sequences do write into shared blocks.
PublishedImmutable ==
    [][\A b \in Blocks :
          block_hash[b] # NoHash /\ block_hash'[b] = block_hash[b] => data'[b] = data[b]]_kvVars

=============================================================================
