---------------------------- MODULE PrefixCache ----------------------------
(***************************************************************************)
(* vLLM's automatic prefix cache, as the code in src/ relies on it: one    *)
(* pool of full blocks for every request the engine ever served            *)
(* (bench/divergence.py:115-125, policies/naive.py:30-34), each block      *)
(* known by the whole token prefix it ends.  vLLM itself is not in src/.   *)
(*                                                                         *)
(* A pool is the sequence of cached blocks, the first to be evicted first. *)
(* Partial blocks and the blocks of decoded tokens are not modelled.       *)
(***************************************************************************)
EXTENDS Naturals, Sequences, Lists
LOCAL INSTANCE SequencesExt

CONSTANTS
    BlockSize,    \* block_size
    Capacity      \* bound: blocks the pool holds

ASSUME PrefixCacheAssumption ==
    /\ BlockSize \in Nat \ {0}
    /\ Capacity \in Nat

\* Block n of a prompt, known by the prefix it ends.
Block(ids, n) == SubSeq(ids, 1, n * BlockSize)

FullBlocks(ids) == [n \in 1..(Len(ids) \div BlockSize) |-> Block(ids, n)]

\* A prefix-cache hit counts whole blocks from the front and always leaves at
\* least one token of the prompt to compute.
HitBlocks(pool, ids) ==
    LET reusable == { n \in 0..((Len(ids) - 1) \div BlockSize) :
                        \A k \in 1..n : Contains(pool, Block(ids, k)) }
    IN  CHOOSE n \in reusable : \A k \in reusable : k <= n

CachedTokens(pool, ids) == HitBlocks(pool, ids) * BlockSize

\* Serving a request touches its blocks; the least recently used ones make
\* room, and a request's own tail goes before its head.
Served(pool, ids) ==
    LET all == Filter(pool, ToSet(pool) \ ToSet(FullBlocks(ids))) \o Reverse(FullBlocks(ids))
    IN  IF Len(all) <= Capacity THEN all ELSE SubSeq(all, Len(all) - Capacity + 1, Len(all))
=============================================================================
