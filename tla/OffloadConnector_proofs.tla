----------------------- MODULE OffloadConnector_proofs -----------------------
(***************************************************************************)
(* Proofs about OffloadConnector, for every block size, size of the GPU's  *)
(* cache, set of prompts and number of requests: its types; that both      *)
(* caches hold their own KV unless a prompt is one token too long; that    *)
(* the tier never forgets a prompt; and that every full block is judged by *)
(* the turns its tokens start in, which is a statement about the spans of  *)
(* a text, the binary search for their ends and the counting of a block.   *)
(***************************************************************************)
EXTENDS OffloadConnector, SharedLemmas, FiniteSetTheorems
LOCAL INSTANCE SequencesExt

\* The tokens prompts are made of, and the prefixes blocks are known by.
Token == UNION { ToSet(p) : p \in Prompts }
Prefix == Seq(Token)

\* What a prompt is, the assumption on Prompts said with one set of tokens.
LEMMA PromptType ==
    ASSUME NEW p \in Prompts
    PROVE  p \in Prefix /\ Len(p) \in Nat /\ Len(p) > 1
<1>1. p \in Seq(ToSet(p)) /\ Len(p) > 1
  BY OffloadAssumption
<1>2. ToSet(p) \subseteq Token
  BY DEF Token
<1>3. p \in Seq(Token)
  BY <1>1, <1>2, SeqMonotonic
<1> QED
  BY <1>1, <1>3, LenProperties DEF Prefix

\* _align_to_block_size gives whole blocks and never more than it is given.
LEMMA AlignProperties ==
    ASSUME NEW n \in Nat, n > 0
    PROVE  /\ Align(n) \in Nat /\ Align(n) < n /\ Align(n) % BlockSize = 0
           /\ Align(n) <= (n \div BlockSize) * BlockSize
<1> DEFINE q == (n - 1) \div BlockSize
<1>1. BlockSize \in Nat \ {0} /\ n - 1 \in Nat
  BY PrefixCacheAssumption
<1>2. q \in Nat /\ q * BlockSize <= n - 1 /\ (q * BlockSize) % BlockSize = 0
  BY <1>1
<1>3. q <= n \div BlockSize /\ n \div BlockSize \in Nat
  BY <1>1
<1> HIDE DEF q
<1>4. q * BlockSize <= (n \div BlockSize) * BlockSize
  BY <1>1, <1>2, <1>3
<1>5. Align(n) = q * BlockSize
  BY DEF Align, q
<1>6. q * BlockSize \in Nat
  BY <1>1, <1>2
<1> QED
  BY <1>2, <1>4, <1>5, <1>6

\* The key of what is looked up, and of what is loaded and stored.
LEMMA KeysOfPrompt ==
    ASSUME NEW p \in Prompts
    PROVE  /\ ToCheck(p) \in 0..Len(p)
           /\ Trimmed(p) \in Prefix
           /\ Len(Trimmed(p)) = Align(Len(p)) /\ Len(Trimmed(p)) % BlockSize = 0
           /\ Len(Trimmed(p)) <= (Len(p) \div BlockSize) * BlockSize
           /\ ~OneAbove(p) => Trimmed(p) = SubSeq(p, 1, ToCheck(p))
<1>1. p \in Prefix /\ Len(p) \in Nat /\ Len(p) > 1
  BY PromptType
<1>2. Len(p) - 1 \in Nat /\ Len(p) - 1 > 0
  BY <1>1
<1>3. Align(Len(p) - 1) \in Nat /\ Align(Len(p) - 1) < Len(p) - 1
  BY <1>2, AlignProperties
<1>4. ToCheck(p) \in 0..Len(p)
  BY <1>1, <1>3 DEF ToCheck
<1>5. /\ Align(Len(p)) \in Nat /\ Align(Len(p)) < Len(p) /\ Align(Len(p)) % BlockSize = 0
      /\ Align(Len(p)) <= (Len(p) \div BlockSize) * BlockSize
  BY <1>1, AlignProperties
<1>6. Trimmed(p) \in Prefix /\ Len(Trimmed(p)) = Align(Len(p))
  <2>1. \A i \in 1..Align(Len(p)) : p[i] \in Token
    BY <1>1, <1>5, ElementOfSeq DEF Prefix
  <2> QED
    BY <1>1, <1>5, <2>1, SubSeqProperties DEF Trimmed, Prefix
<1>7. ~OneAbove(p) => Trimmed(p) = SubSeq(p, 1, ToCheck(p))
  BY <1>6 DEF OneAbove, Trimmed
<1> QED
  BY <1>4, <1>5, <1>6, <1>7

\* A prompt's prefix-cache hit exists, and leaves a token to compute.
LEMMA HitProperties ==
    ASSUME NEW p \in Prompts, NEW cache
    PROVE  /\ HitBlocks(cache, p) \in Nat
           /\ CachedTokens(cache, p) \in 0..Len(p)
<1> DEFINE b == (Len(p) - 1) \div BlockSize
           reusable == { n \in 0..b : \A k \in 1..n : Contains(cache, Block(p, k)) }
<1>1. Len(p) \in Nat /\ Len(p) > 1 /\ BlockSize \in Nat \ {0}
  BY PromptType, PrefixCacheAssumption
<1>2. b \in Nat /\ b * BlockSize <= Len(p) - 1
  BY <1>1
<1>3. 0 \in reusable /\ reusable \subseteq 0..b
  BY <1>2
<1>4. \E n \in reusable : \A k \in reusable : k <= n
  <2> HIDE DEF reusable, b
  <2> QED
    BY <1>2, <1>3, NatGreatest
<1>5. HitBlocks(cache, p) = CHOOSE n \in reusable : \A k \in reusable : k <= n
  BY DEF HitBlocks
<1>6. HitBlocks(cache, p) \in reusable
  <2> HIDE DEF reusable, b
  <2> QED
    BY <1>4, <1>5
<1>7. HitBlocks(cache, p) \in 0..b
  BY <1>3, <1>6
<1> HIDE DEF reusable, b
<1>8. HitBlocks(cache, p) * BlockSize <= b * BlockSize /\ HitBlocks(cache, p) * BlockSize \in Nat
  BY <1>1, <1>2, <1>7
<1>9. b * BlockSize \in Nat
  BY <1>1, <1>2
<1> QED
  BY <1>1, <1>2, <1>7, <1>8, <1>9 DEF CachedTokens

\* The pool after a request holds no more than it can.
LEMMA ServedFits ==
    ASSUME NEW p \in Prompts, NEW cache \in Seq(Prefix)
    PROVE  /\ Served(cache, p) \in Seq(Prefix)
           /\ Len(Served(cache, p)) <= Capacity
<1> DEFINE own == Reverse(FullBlocks(p))
           others == Filter(cache, ToSet(cache) \ ToSet(FullBlocks(p)))
           all == others \o own
<1>1. p \in Prefix /\ Len(p) \in Nat /\ BlockSize \in Nat \ {0} /\ Capacity \in Nat
  BY PromptType, PrefixCacheAssumption
<1>2. Len(p) \div BlockSize \in Nat /\ (Len(p) \div BlockSize) * BlockSize <= Len(p)
  BY <1>1
<1>3. ASSUME NEW n \in 1..(Len(p) \div BlockSize) PROVE Block(p, n) \in Prefix
  <2>1. n * BlockSize <= (Len(p) \div BlockSize) * BlockSize /\ n * BlockSize \in Nat
    BY <1>1, <1>2
  <2>2. (Len(p) \div BlockSize) * BlockSize \in Nat
    BY <1>1, <1>2
  <2>3. n * BlockSize <= Len(p)
    BY <1>1, <1>2, <2>1, <2>2
  <2>4. \A i \in 1..(n * BlockSize) : p[i] \in Token
    BY <1>1, <2>1, <2>3, ElementOfSeq DEF Prefix
  <2> QED
    BY <1>1, <2>1, <2>4, SubSeqProperties DEF Block, Prefix
<1>4. FullBlocks(p) \in Seq(Prefix)
  BY <1>2, <1>3 DEF FullBlocks
<1>5. own \in Seq(Prefix)
  <2>1. Len(FullBlocks(p)) \in Nat
    BY <1>4, LenProperties
  <2>2. \A i \in 1..Len(FullBlocks(p)) : FullBlocks(p)[(Len(FullBlocks(p)) - i) + 1] \in Prefix
    BY <1>4, <2>1, ElementOfSeq
  <2> HIDE DEF Prefix
  <2> QED
    BY <2>1, <2>2 DEF Reverse
<1>6. others \in Seq(Prefix)
  BY FilterKeeps
<1> HIDE DEF own, others
<1>7. all \in Seq(Prefix)
  BY <1>5, <1>6, ConcatProperties
<1>8. Served(cache, p) =
        IF Len(all) <= Capacity THEN all ELSE SubSeq(all, Len(all) - Capacity + 1, Len(all))
  BY DEF Served, own, others
<1> HIDE DEF all
<1>9. CASE Len(all) <= Capacity
  BY <1>7, <1>8, <1>9
<1>10. CASE ~(Len(all) <= Capacity)
  <2>1. Len(all) \in Nat
    BY <1>7, LenProperties
  <2>2. \A i \in (Len(all) - Capacity + 1)..Len(all) : all[i] \in Prefix
    BY <1>1, <1>7, <1>10, <2>1, ElementOfSeq
  <2>3. Len(all) - Capacity + 1 \in Int /\ Len(all) \in Int
    BY <1>1, <2>1
  <2> HIDE DEF Prefix
  <2>4. /\ SubSeq(all, Len(all) - Capacity + 1, Len(all)) \in Seq(Prefix)
        /\ Len(SubSeq(all, Len(all) - Capacity + 1, Len(all))) <= Capacity
    BY <1>1, <1>10, <2>1, <2>2, <2>3, SubSeqProperties
  <2> QED
    BY <1>8, <1>10, <2>4
<1> QED
  BY <1>9, <1>10
-----------------------------------------------------------------------------
\* TypeOK and what it needs to be inductive: the requests that are left, the
\* prompt in flight, and where what the scheduler announced comes from.
InFlight ==
    /\ ids \in Prompts
    /\ \/ condition = "baseline" /\ steps.baseline < MaxRequests
       \/ condition = "offload" /\ steps.offload < steps.baseline
    /\ \/ announced = CachedTokens(pool, ids)
       \/ Connected /\ FoundMatch(ids) /\ announced = ToCheck(ids)

\* What was ordered follows from what was announced, and the tier has not
\* changed since.
Ordered ==
    /\ pc # "scheduled" => meta = "none"
    /\ pc = "allocated" => (needLoad <=> announced > Hit * BlockSize)
    /\ pc = "scheduled" => (meta = "load" <=> announced > Hit * BlockSize)
    /\ pc = "scheduled" /\ meta = "store" => Connected
    /\ pc = "scheduled" /\ meta = "none" /\ Connected => ~WorthStoring(ids)

TInv ==
    /\ TypeOK
    /\ pool \in Seq(Prefix)
    /\ pc # "idle" => InFlight
    /\ Ordered

\* What a stored request adds is good or not.
LEMMA RunStores ==
    ASSUME RunRequest, meta = "store"
    PROVE  /\ \E good \in BOOLEAN : hostRam' = Saved(ids, good)
           /\ GoodBlocks * BlockSize >= Len(Trimmed(ids)) => hostRam' = Saved(ids, TRUE)
<1>1. CASE GoodBlocks * BlockSize >= Len(Trimmed(ids))
  <2>1. (GoodBlocks * BlockSize >= Len(Trimmed(ids))) = TRUE
    BY <1>1
  <2> QED
    BY <2>1, Zenon DEF RunRequest
<1>2. CASE ~(GoodBlocks * BlockSize >= Len(Trimmed(ids)))
  <2>1. (GoodBlocks * BlockSize >= Len(Trimmed(ids))) = FALSE
    BY <1>2
  <2> QED
    BY <1>2, <2>1, Zenon DEF RunRequest
<1> QED
  BY <1>1, <1>2

\* Before the first request the caches are empty.
LEMMA TInvInit == Init => TInv
<1> SUFFICES ASSUME Init PROVE TInv
  OBVIOUS
<1> USE PrefixCacheAssumption, OffloadAssumption DEF Init
<1>1. TypeOK
  <2>1. needLoad => pc = "allocated"
    BY Zenon
  <2>2. \A k \in DOMAIN hostRam : Len(k) % BlockSize = 0 /\ hostRam[k] \in BOOLEAN
    OBVIOUS
  <2>3. ids = <<>> /\ Len(ids) = 0
    OBVIOUS
  <2> QED
    BY <2>1, <2>2, <2>3 DEF TypeOK
<1>2. Ordered
  BY DEF Ordered
<1> QED
  BY <1>1, <1>2 DEF TInv

\* needLoad is a Boolean wherever it is set.
LEMMA NeedLoadNext ==
    ASSUME TInv, Next
    PROVE  needLoad' => pc' = "allocated"
<1>1. CASE GetNumNewMatchedTokens
  BY <1>1 DEF GetNumNewMatchedTokens, TInv, TypeOK
<1>2. CASE UpdateStateAfterAlloc
  BY <1>2, Zenon DEF UpdateStateAfterAlloc
<1>3. CASE BuildConnectorMeta
  BY <1>3, Zenon DEF BuildConnectorMeta
<1>4. CASE RunRequest
  BY <1>4 DEF RunRequest, TInv, TypeOK
<1>5. CASE NextCondition
  BY <1>5 DEF NextCondition, TInv, TypeOK
<1> QED
  BY <1>1, <1>2, <1>3, <1>4, <1>5 DEF Next

\* The scheduler's question: no state of the caches changes.
LEMMA MatchKeepsTypes ==
    ASSUME TInv, GetNumNewMatchedTokens
    PROVE  TInv'
<1>1. ids' \in Prompts /\ pc' = "matched" /\ Next
  BY Zenon DEF GetNumNewMatchedTokens, Next
<1>2. Len(ids') \in Nat
  BY <1>1, PromptType
<1>3. \/ announced' = CachedTokens(pool, ids')
      \/ Connected /\ FoundMatch(ids') /\ announced' = ToCheck(ids')
  BY Zenon DEF GetNumNewMatchedTokens
<1>4. announced' \in 0..Len(ids')
  BY <1>1, <1>3, HitProperties, KeysOfPrompt
<1>5. UNCHANGED <<condition, steps, needLoad, meta, hostRam, pool, bad, served>>
  BY DEF GetNumNewMatchedTokens
<1>6. TypeOK'
  BY <1>1, <1>4, <1>5, NeedLoadNext DEF TInv, TypeOK
<1>7. InFlight'
  <2>1. \/ announced' = CachedTokens(pool', ids')
        \/ Connected' /\ FoundMatch(ids)' /\ announced' = ToCheck(ids')
    BY <1>3, <1>5 DEF Connected, FoundMatch
  <2>2. \/ condition' = "baseline" /\ steps'.baseline < MaxRequests
        \/ condition' = "offload" /\ steps'.offload < steps'.baseline
    BY <1>5 DEF GetNumNewMatchedTokens
  <2> QED
    BY <1>1, <2>1, <2>2, Zenon DEF InFlight
<1>8. Ordered'
  BY <1>1, <1>5 DEF TInv, Ordered, GetNumNewMatchedTokens
<1> QED
  BY <1>5, <1>6, <1>7, <1>8 DEF TInv

\* The scheduler's allocation and the order it builds move nothing either.
LEMMA OrderKeepsTypes ==
    ASSUME TInv, UpdateStateAfterAlloc \/ BuildConnectorMeta
    PROVE  TInv'
<1>1. Next /\ UNCHANGED <<condition, steps, ids, announced, hostRam, pool, bad, served>>
  BY DEF UpdateStateAfterAlloc, BuildConnectorMeta, Next
<1>2. pc' \in {"allocated", "scheduled"} /\ pc # "idle"
  BY DEF UpdateStateAfterAlloc, BuildConnectorMeta
<1>3. meta' \in {"load", "store", "none"}
  <2>1. CASE UpdateStateAfterAlloc
    BY <2>1 DEF UpdateStateAfterAlloc, TInv, TypeOK
  <2>2. CASE BuildConnectorMeta
    BY <2>2 DEF BuildConnectorMeta
  <2> QED
    BY <2>1, <2>2
<1>4. TypeOK'
  BY <1>1, <1>2, <1>3, NeedLoadNext DEF TInv, TypeOK
<1>5. InFlight'
  BY <1>1, <1>2 DEF TInv, InFlight, Connected, FoundMatch
<1>6. Hit' = Hit /\ (WorthStoring(ids) <=> WorthStoring(ids)')
  BY <1>1, Zenon DEF Hit, WorthStoring, FoundMatch
<1>7. Ordered'
  <2>1. CASE UpdateStateAfterAlloc
    <3>1. pc' = "allocated" /\ meta' = "none"
      BY <2>1 DEF UpdateStateAfterAlloc, TInv, Ordered
    <3>2. needLoad' <=> announced > Hit * BlockSize
      BY <2>1, Zenon DEF UpdateStateAfterAlloc
    <3>3. needLoad' <=> announced' > Hit' * BlockSize
      BY <1>1, <1>6, <3>2, Zenon
    <3> QED
      BY <3>1, <3>3 DEF Ordered
  <2>2. CASE BuildConnectorMeta
    <3>1. pc' = "scheduled" /\ (needLoad <=> announced > Hit * BlockSize)
      BY <2>2 DEF BuildConnectorMeta, TInv, Ordered
    <3>2. meta' = CASE needLoad -> "load"
                    [] Connected /\ ~needLoad /\ WorthStoring(ids) -> "store"
                    [] OTHER -> "none"
      BY <2>2, Zenon DEF BuildConnectorMeta
    <3>3. /\ meta' = "load" <=> needLoad
          /\ meta' = "store" => Connected
          /\ meta' = "none" /\ Connected => ~WorthStoring(ids)
      BY <3>2
    <3>4. announced > Hit * BlockSize <=> announced' > Hit' * BlockSize
      BY <1>1, <1>6, Zenon
    <3>5. Connected' <=> Connected
      BY <1>1 DEF Connected
    <3> QED
      BY <1>6, <3>1, <3>3, <3>4, <3>5, Zenon DEF Ordered
  <2> QED
    BY <2>1, <2>2
<1> QED
  BY <1>1, <1>4, <1>5, <1>7 DEF TInv

\* The forward pass: the tier may gain a key of whole blocks, the pool turns over.
LEMMA RunKeepsTypes ==
    ASSUME TInv, RunRequest
    PROVE  TInv'
<1>1. Next /\ pc' = "idle" /\ meta' = "none"
  BY DEF RunRequest, Next
<1>2. InFlight
  BY DEF TInv, RunRequest
<1>3. pool' \in Seq(Prefix) /\ Len(pool') <= Capacity
  BY <1>2, ServedFits DEF TInv, InFlight, RunRequest
<1>4. \A k \in DOMAIN hostRam' : Len(k) % BlockSize = 0 /\ hostRam'[k] \in BOOLEAN
  <2>1. \A k \in DOMAIN hostRam : Len(k) % BlockSize = 0 /\ hostRam[k] \in BOOLEAN
    BY DEF TInv, TypeOK
  <2>2. CASE meta = "store"
    <3>1. Len(Trimmed(ids)) % BlockSize = 0
      BY <1>2, KeysOfPrompt DEF InFlight
    <3>2. PICK good \in BOOLEAN : hostRam' = Saved(ids, good)
      BY <2>2, RunStores, Zenon
    <3>3. /\ DOMAIN hostRam' = DOMAIN hostRam \cup {Trimmed(ids)}
          /\ hostRam'[Trimmed(ids)] = good
          /\ \A k \in DOMAIN hostRam : k # Trimmed(ids) => hostRam'[k] = hostRam[k]
      BY <3>2, Zenon DEF Saved
    <3> QED
      BY <2>1, <3>1, <3>3, Zenon
  <2>3. CASE meta # "store"
    <3>1. hostRam' = hostRam
      BY <2>3, Zenon DEF RunRequest
    <3> QED
      BY <2>1, <3>1, Zenon
  <2> QED
    BY <2>2, <2>3, Zenon
<1>5. /\ steps' \in [{"baseline", "offload"} -> 0..MaxRequests]
      /\ steps'.offload <= steps'.baseline
  BY <1>2, OffloadAssumption DEF TInv, TypeOK, InFlight, RunRequest
<1>6. condition' = "baseline" => hostRam' = <<>>
  <2>1. meta = "store" => condition # "baseline"
    BY DEF TInv, Ordered, Connected, RunRequest
  <2>2. condition = "baseline" => hostRam = <<>>
    BY DEF TInv, TypeOK
  <2>3. meta # "store" => hostRam' = hostRam
    BY Zenon DEF RunRequest
  <2> QED
    BY <2>1, <2>2, <2>3 DEF RunRequest
<1>7. served' \subseteq Prompts
  BY <1>2 DEF TInv, TypeOK, InFlight, RunRequest
<1>8. UNCHANGED <<condition, ids, announced, needLoad>>
  BY DEF RunRequest
<1>9. TypeOK'
  BY <1>1, <1>3, <1>4, <1>5, <1>6, <1>7, <1>8, NeedLoadNext DEF TInv, TypeOK
<1>10. Ordered'
  BY <1>1 DEF Ordered
<1> QED
  BY <1>1, <1>3, <1>9, <1>10 DEF TInv

\* A new server starts with everything empty.
LEMMA NextConditionKeepsTypes ==
    ASSUME TInv, NextCondition
    PROVE  TInv'
<1>1. Next /\ pc = "idle" /\ pc' = "idle" /\ meta' = "none"
  BY DEF NextCondition, Next, TInv, Ordered
<1>2. ids' = <<>> /\ announced' = 0 /\ Len(ids') = 0 /\ pool' = <<>> /\ Len(pool') = 0
  BY DEF NextCondition
<1>3. hostRam' = <<>> /\ served' = {} /\ UNCHANGED steps
  BY DEF NextCondition
<1>4. condition' \in {"baseline", "offload", "compared"}
  BY DEF NextCondition
<1>5. \A k \in DOMAIN hostRam' : Len(k) % BlockSize = 0 /\ hostRam'[k] \in BOOLEAN
  BY <1>3
<1>6. TypeOK'
  BY <1>1, <1>2, <1>3, <1>4, <1>5, NeedLoadNext, PrefixCacheAssumption DEF TInv, TypeOK
<1>7. Ordered'
  BY <1>1 DEF Ordered
<1> QED
  BY <1>1, <1>2, <1>6, <1>7 DEF TInv

\* Every step keeps the types.
LEMMA TInvNext == TInv /\ [Next]_vars => TInv'
<1>1. ASSUME TInv, Next PROVE TInv'
  BY <1>1, MatchKeepsTypes, OrderKeepsTypes, RunKeepsTypes, NextConditionKeepsTypes DEF Next
<1>2. ASSUME TInv, UNCHANGED vars PROVE TInv'
  <2>1. UNCHANGED <<condition, steps, pc, ids, announced, needLoad, meta, hostRam, pool, bad,
                    served>>
    BY <1>2 DEF vars
  <2>2. TypeOK'
    BY <1>2, <2>1 DEF TInv, TypeOK
  <2>3. (pc # "idle" => InFlight)'
    BY <1>2, <2>1 DEF TInv, InFlight, Connected, FoundMatch
  <2>4. Ordered'
    <3>1. Hit' = Hit /\ (WorthStoring(ids) <=> WorthStoring(ids)') /\ (Connected' <=> Connected)
      BY <2>1, Zenon DEF Hit, WorthStoring, FoundMatch, Connected
    <3>2. announced > Hit * BlockSize <=> announced' > Hit' * BlockSize
      BY <2>1, <3>1, Zenon
    <3>3. needLoad' <=> needLoad
      BY <2>1, Zenon
    <3> QED
      BY <1>2, <2>1, <3>1, <3>2, <3>3, Zenon DEF TInv, Ordered
  <2> QED
    BY <1>2, <2>1, <2>2, <2>3, <2>4 DEF TInv
<1> QED
  BY <1>1, <1>2

\* The types of the connector's and of the engine's state: the announced
\* prefix is never longer than the prompt, the GPU's pool never over its
\* capacity, host RAM only filled by the connector, with keys of whole blocks.
THEOREM TypeCorrect == Spec => []TypeOK
<1>1. TInv => TypeOK
  BY DEF TInv
<1> QED
  BY <1>1, TInvInit, TInvNext, PTL DEF Spec
-----------------------------------------------------------------------------
\* A prompt that is not one token above whole blocks runs right if everything
\* cached was right: what was announced beyond the GPU's own blocks is then
\* what is loaded, under the key that was looked up.
LEMMA EveryBlockGood ==
    ASSUME TInv, pc = "scheduled", ~OneAbove(ids),
           bad = {}, \A k \in DOMAIN hostRam : hostRam[k]
    PROVE  GoodBlocks = Len(ids) \div BlockSize
<1> DEFINE blocks == Len(ids) \div BlockSize
           start == announced \div BlockSize
           reused == IF Hit < start THEN Hit ELSE start
           wrong == { n \in 1..reused : Block(ids, n) \in bad }
<1>1. InFlight /\ Ordered /\ ids \in Prompts
  BY DEF TInv, InFlight
<1>2. wrong = {}
  OBVIOUS
<1>3. CASE Injected
  <2>1. hostRam[Trimmed(ids)]
    BY <1>3 DEF Injected
  <2> QED
    BY <1>3, <2>1, Zenon DEF GoodBlocks
<1>4. CASE ~Injected
  <2>1. Hit \in Nat /\ announced \in Nat /\ BlockSize \in Nat \ {0} /\ Hit * BlockSize \in Nat
    <3>1. Hit \in Nat
      BY <1>1, HitProperties DEF Hit
    <3>2. announced \in Nat
      BY <1>1, HitProperties, KeysOfPrompt DEF InFlight
    <3> QED
      BY <3>1, <3>2, PrefixCacheAssumption
  <2>2. ~(announced > Hit * BlockSize)
    <3> SUFFICES ASSUME announced > Hit * BlockSize PROVE FALSE
      OBVIOUS
    <3>1. meta = "load"
      BY <1>1 DEF Ordered
    <3>2. CachedTokens(pool, ids) = Hit * BlockSize
      BY DEF CachedTokens, Hit
    <3>3. announced # Hit * BlockSize
      BY <2>1
    <3>4. FoundMatch(ids)
      BY <1>1, <3>2, <3>3 DEF InFlight
    <3>5. Trimmed(ids) \in DOMAIN hostRam
      BY <1>1, <3>4, KeysOfPrompt DEF FoundMatch
    <3> QED
      BY <1>4, <3>1, <3>5 DEF Injected
  <2>3. ~(start > Hit)
    <3>1. announced <= Hit * BlockSize
      BY <2>1, <2>2
    <3>2. start <= (Hit * BlockSize) \div BlockSize
      BY <2>1, <3>1
    <3>3. (Hit * BlockSize) \div BlockSize = Hit
      BY <2>1
    <3>4. start \in Nat
      BY <2>1
    <3> HIDE DEF start
    <3> QED
      BY <2>1, <3>2, <3>3, <3>4
  <2> QED
    BY <1>2, <1>4, <2>3, Zenon DEF GoodBlocks
<1> QED
  BY <1>3, <1>4

Sound == TInv /\ OnlyOneAboveGoesWrong

\* The pass of a prompt that runs right leaves nothing wrong behind.
LEMMA RunKeepsSound ==
    ASSUME Sound, RunRequest
    PROVE  OnlyOneAboveGoesWrong'
<1> SUFFICES ASSUME \A p \in served' : ~OneAbove(p)
             PROVE  bad' = {} /\ \A k \in DOMAIN hostRam' : hostRam'[k]
  BY Zenon DEF OnlyOneAboveGoesWrong, OneAbove
<1>1. served' = served \cup {ids} /\ pc = "scheduled" /\ TInv
  BY DEF RunRequest, Sound
<1>2. bad = {} /\ \A k \in DOMAIN hostRam : hostRam[k]
  BY <1>1 DEF Sound, OnlyOneAboveGoesWrong
<1>3. ~OneAbove(ids) /\ ids \in Prompts
  BY <1>1 DEF TInv, InFlight
<1>4. GoodBlocks = Len(ids) \div BlockSize
  BY <1>1, <1>2, <1>3, EveryBlockGood
<1>5. Len(ids) \div BlockSize \in Nat
  BY <1>3, PromptType, PrefixCacheAssumption
<1>6. bad' = {}
  <2>1. (GoodBlocks + 1)..(Len(ids) \div BlockSize) = {}
    BY <1>4, <1>5
  <2>2. \A b \in bad' : b \in bad \/ \E n \in (GoodBlocks + 1)..(Len(ids) \div BlockSize) :
                                          b = Block(ids, n)
    BY Zenon DEF RunRequest
  <2> QED
    BY <1>2, <2>1, <2>2, Zenon
<1>7. \A k \in DOMAIN hostRam' : hostRam'[k]
  <2>1. CASE meta = "store"
    <3>1. GoodBlocks * BlockSize >= Len(Trimmed(ids))
      <4>1. Len(Trimmed(ids)) <= (Len(ids) \div BlockSize) * BlockSize /\ Len(Trimmed(ids)) \in Nat
        BY <1>3, KeysOfPrompt, LenProperties DEF Prefix
      <4>2. (Len(ids) \div BlockSize) * BlockSize \in Nat
        BY <1>5, PrefixCacheAssumption
      <4>3. GoodBlocks * BlockSize = (Len(ids) \div BlockSize) * BlockSize
        BY <1>4
      <4> QED
        BY <4>1, <4>2, <4>3
    <3>2. hostRam' = Saved(ids, TRUE)
      BY <2>1, <3>1, RunStores
    <3> QED
      BY <1>2, <3>2, Zenon DEF Saved
  <2>2. CASE meta # "store"
    <3>1. hostRam' = hostRam
      BY <2>2, Zenon DEF RunRequest
    <3> QED
      BY <1>2, <3>1, Zenon
  <2> QED
    BY <2>1, <2>2
<1> QED
  BY <1>6, <1>7

\* Every step keeps the caches right.
LEMMA SoundNext == Sound /\ [Next]_vars => Sound'
<1> SUFFICES ASSUME Sound, [Next]_vars PROVE Sound'
  OBVIOUS
<1>1. TInv'
  BY TInvNext DEF Sound
<1>2. CASE RunRequest
  BY <1>1, <1>2, RunKeepsSound DEF Sound
<1>3. CASE NextCondition
  BY <1>1, <1>3 DEF Sound, OnlyOneAboveGoesWrong, NextCondition
<1>4. CASE UNCHANGED <<hostRam, bad, served>>
  BY <1>1, <1>4 DEF Sound, OnlyOneAboveGoesWrong, OneAbove
<1>5. GetNumNewMatchedTokens \/ UpdateStateAfterAlloc \/ BuildConnectorMeta \/ UNCHANGED vars
        => UNCHANGED <<hostRam, bad, served>>
  BY DEF GetNumNewMatchedTokens, UpdateStateAfterAlloc, BuildConnectorMeta, vars
<1> QED
  BY <1>2, <1>3, <1>4, <1>5 DEF Next

\* offload_connector.py:180-187: as long as no prompt was one token longer than
\* a whole number of blocks, every cached block, of the GPU or of host RAM, is
\* its own prefix's, whatever the prompts share, whatever the GPU evicts, and
\* although lookup, load and store each take a prefix of their own.
THEOREM CachesHoldTheirOwn == Spec => []OnlyOneAboveGoesWrong
<1>1. Init => Sound
  BY TInvInit DEF Init, Sound, OnlyOneAboveGoesWrong
<1>2. Sound => OnlyOneAboveGoesWrong
  BY DEF Sound
<1> QED
  BY <1>1, <1>2, SoundNext, PTL DEF Spec
-----------------------------------------------------------------------------
\* If every prompt has a block that is worth storing, one that is not found is
\* always stored.
LEMMA NotFoundIsStored ==
    ASSUME SomeBlockIsWorthIt, NEW p \in Prompts, ~FoundMatch(p)
    PROVE  WorthStoring(p)
<1> DEFINE full == Len(p) \div BlockSize
           numBlocks == (Len(p) + BlockSize - 1) \div BlockSize
           perBlock == BlocksWorth(TokenMask(p))
           mask == WorthStoringMask(p, numBlocks)
<1>1. Len(p) \in Nat /\ Len(p) > 1 /\ BlockSize \in Nat \ {0}
  BY PromptType, PrefixCacheAssumption
<1>2. Len(TokenMask(p)) = Len(p)
  BY <1>1 DEF TokenMask
<1>3. Len(perBlock) = full /\ full \in Nat
  BY <1>1, <1>2 DEF BlocksWorth
<1>4. mask = [b \in 1..numBlocks |-> b > Len(perBlock) \/ perBlock[b]]
  BY Zenon DEF WorthStoringMask
<1> HIDE DEF perBlock, mask
<1>5. CASE Len(p) % BlockSize = 0
  <2>1. PICK b \in 1..full : perBlock[b]
    BY <1>5 DEF SomeBlockIsWorthIt, perBlock
  <2>2. b \in 1..numBlocks
    BY <1>1, <2>1
  <2>3. mask[b]
    BY <1>4, <2>1, <2>2, Zenon
  <2> QED
    BY <2>2, <2>3, Zenon DEF WorthStoring, mask
<1>6. CASE Len(p) % BlockSize # 0
  <2>1. full + 1 \in 1..numBlocks /\ full + 1 > full
    BY <1>1, <1>3, <1>6
  <2>2. mask[full + 1]
    BY <1>3, <1>4, <2>1
  <2> QED
    BY <2>1, <2>2, Zenon DEF WorthStoring, mask
<1> QED
  BY <1>5, <1>6

\* A prompt is in the tier where a lookup finds it.
InTier(p) == ~OneAbove(p) => FoundMatch(p)

\* What is in the tier stays there while the server lives.
LEMMA TierOnlyGrows ==
    ASSUME DOMAIN hostRam \subseteq DOMAIN hostRam'
    PROVE  \A p : InTier(p) => InTier(p)'
<1> QED
  BY DEF InTier, FoundMatch, OneAbove

\* The pass of a prompt puts it into the tier, unless it was found there.
LEMMA RunKeepsTier ==
    ASSUME SomeBlockIsWorthIt, TInv, TierRemembers, Connected, RunRequest
    PROVE  \A p \in served' : InTier(p)'
<1>1. served' = served \cup {ids} /\ pc = "scheduled" /\ InFlight /\ ids \in Prompts
  BY DEF RunRequest, TInv, InFlight
<1>2. DOMAIN hostRam \subseteq DOMAIN hostRam'
  <2>1. CASE meta = "store"
    <3>1. PICK good \in BOOLEAN : hostRam' = Saved(ids, good)
      BY <2>1, RunStores, Zenon
    <3> QED
      BY <3>1, Zenon DEF Saved
  <2>2. CASE meta # "store"
    BY <2>2, Zenon DEF RunRequest
  <2> QED
    BY <2>1, <2>2
<1>3. \A p \in served : InTier(p)'
  BY <1>2, TierOnlyGrows DEF TierRemembers, InTier
<1>4. InTier(ids)'
  <2>1. CASE FoundMatch(ids)
    BY <1>1, <1>2, <2>1, TierOnlyGrows DEF InTier, RunRequest, FoundMatch
  <2>2. CASE ~FoundMatch(ids)
    <3>1. WorthStoring(ids)
      BY <1>1, <2>2, NotFoundIsStored
    <3>2. announced = CachedTokens(pool, ids) /\ CachedTokens(pool, ids) = Hit * BlockSize
      BY <1>1, <2>2 DEF InFlight, CachedTokens, Hit
    <3>3. CachedTokens(pool, ids) \in Nat
      BY <1>1, HitProperties, PromptType
    <3>4. ~(announced > Hit * BlockSize)
      BY <3>2, <3>3
    <3>5. meta = "store"
      BY <1>1, <3>1, <3>4 DEF TInv, TypeOK, Ordered
    <3>6. PICK good \in BOOLEAN : hostRam' = Saved(ids, good)
      BY <3>5, RunStores, Zenon
    <3>7. Trimmed(ids) \in DOMAIN hostRam' /\ ids' = ids
      BY <3>6, Zenon DEF Saved, RunRequest
    <3>8. ~OneAbove(ids) => Trimmed(ids) = SubSeq(ids, 1, ToCheck(ids))
      BY <1>1, KeysOfPrompt
    <3> QED
      BY <3>7, <3>8 DEF InTier, FoundMatch, OneAbove
  <2> QED
    BY <2>1, <2>2
<1>5. ids' = ids
  BY DEF RunRequest
<1> QED
  BY <1>1, <1>3, <1>4, <1>5 DEF InTier, FoundMatch, OneAbove

\* offload.py:1-3, "page them to host RAM": the connector never stores by
\* halves and never skips a prompt, so a prompt that ran is found when it is
\* sent again, whatever the GPU evicted, for every sequence of prompts.  A
\* prompt one token longer than a whole number of blocks is not: it is looked
\* up under a shorter key than it was stored under.
THEOREM TierNeverForgets ==
    ASSUME SomeBlockIsWorthIt
    PROVE  Spec => []TierRemembers
<1> DEFINE Inv == TInv /\ TierRemembers
<1>1. Init => Inv
  BY TInvInit DEF Init, TierRemembers
<1>2. Inv /\ [Next]_vars => Inv'
  <2> SUFFICES ASSUME Inv, [Next]_vars PROVE Inv'
    OBVIOUS
  <2>1. TInv'
    BY TInvNext
  <2>2. CASE RunRequest
    <3>1. Connected' => Connected
      BY <2>2 DEF RunRequest, Connected
    <3>2. Connected' => \A p \in served' : InTier(p)'
      BY <2>2, <3>1, SomeBlockIsWorthIt, RunKeepsTier
    <3> QED
      BY <2>1, <3>2 DEF TierRemembers, InTier
  <2>3. CASE NextCondition
    BY <2>1, <2>3 DEF TierRemembers, NextCondition
  <2>4. CASE UNCHANGED <<condition, hostRam, served>>
    BY <2>1, <2>4 DEF TierRemembers, Connected, FoundMatch, OneAbove
  <2>5. GetNumNewMatchedTokens \/ UpdateStateAfterAlloc \/ BuildConnectorMeta \/ UNCHANGED vars
          => UNCHANGED <<condition, hostRam, served>>
    BY DEF GetNumNewMatchedTokens, UpdateStateAfterAlloc, BuildConnectorMeta, vars
  <2> QED
    BY <2>2, <2>3, <2>4, <2>5 DEF Next
<1>3. Inv => TierRemembers
  OBVIOUS
<1> QED
  BY <1>1, <1>2, <1>3, PTL DEF Spec
-----------------------------------------------------------------------------
\* The characters prompts are made of.
CharsOf(p) == UNION { ToSet(p[i]) : i \in 1..Len(p) }
Char == UNION { CharsOf(p) : p \in Prompts }

\* Tokens are lists of characters, none of them empty.
LEMMA PromptTokens ==
    ASSUME NEW p \in Prompts
    PROVE  /\ p \in Seq(Seq(Char)) /\ Len(p) \in Nat /\ Len(p) > 1
           /\ \A i \in 1..Len(p) : p[i] \in Seq(Char) /\ Len(p[i]) \in Nat /\ Len(p[i]) >= 1
<1>1. p \in Prefix /\ Len(p) \in Nat /\ Len(p) > 1
  BY PromptType
<1>2. ASSUME NEW i \in 1..Len(p) PROVE p[i] \in Seq(Char) /\ Len(p[i]) \in Nat /\ Len(p[i]) >= 1
  <2>1. p[i] \in Seq(ToSet(p[i])) /\ Len(p[i]) > 0
    BY OffloadAssumption
  <2>2. ToSet(p[i]) \subseteq Char
    <3>1. ToSet(p[i]) \subseteq CharsOf(p)
      BY DEF CharsOf
    <3>2. CharsOf(p) \subseteq Char
      BY DEF Char
    <3> QED
      BY <3>1, <3>2
  <2>3. p[i] \in Seq(Char)
    BY <2>1, <2>2, SeqMonotonic
  <2>4. Len(p[i]) \in Nat
    BY <2>1, LenProperties
  <2> QED
    BY <2>1, <2>3, <2>4
<1>3. \A w \in Seq(Token) : \A R : (\A i \in 1..Len(w) : w[i] \in R) => w \in Seq(R)
  OBVIOUS
<1>4. p \in Seq(Seq(Char))
  BY <1>1, <1>2, <1>3, Zenon DEF Prefix
<1> QED
  BY <1>1, <1>2, <1>4

\* tokens[:k]
Taken(p, k) == SubSeq(p, 1, k)

\* The characters of the first k tokens: each token puts its own behind them.
LEMMA DecodedStep ==
    ASSUME NEW p \in Prompts, NEW k \in 0..Len(p)
    PROVE  /\ Joined(Taken(p, k)) \in Seq(Char) /\ DecodedLen(p, k) \in Nat
           /\ DecodedLen(p, k) = Len(Joined(Taken(p, k)))
           /\ k = 0 => DecodedLen(p, k) = 0
           /\ k = Len(p) => Joined(Taken(p, k)) = Joined(p)
           /\ k < Len(p) => /\ Joined(Taken(p, k + 1)) = Joined(Taken(p, k)) \o p[k + 1]
                            /\ DecodedLen(p, k + 1) = DecodedLen(p, k) + Len(p[k + 1])
<1>1. /\ p \in Seq(Seq(Char)) /\ Len(p) \in Nat
      /\ \A i \in 1..Len(p) : p[i] \in Seq(Char) /\ Len(p[i]) \in Nat
  BY PromptTokens
<1>2. \A n \in 0..Len(p) : /\ Taken(p, n) \in Seq(Seq(Char)) /\ Len(Taken(p, n)) = n
                           /\ \A i \in 1..n : Taken(p, n)[i] = p[i]
  <2> TAKE n \in 0..Len(p)
  <2>1. 1 \in Int /\ n \in Int /\ \A i \in 1..n : p[i] \in Seq(Char)
    BY <1>1
  <2> DEFINE v == SubSeq(p, 1, n)
             R == Seq(Char)
  <2>2. \A i \in 1..n : p[i] \in R
    BY <2>1
  <2> HIDE DEF R
  <2>3. /\ v \in Seq(R) /\ Len(v) = IF 1 <= n THEN n - 1 + 1 ELSE 0
        /\ \A i \in 1..(n - 1 + 1) : v[i] = p[1 + i - 1]
    BY <2>1, <2>2, SubSeqProperties
  <2> HIDE DEF v
  <2>4. Len(v) = n
    BY <2>3
  <2>5. ASSUME NEW i \in 1..n PROVE v[i] = p[i]
    <3>1. i \in 1..(n - 1 + 1) /\ 1 + i - 1 = i
      OBVIOUS
    <3> QED
      BY <2>3, <3>1, Zenon
  <2> QED
    BY <2>3, <2>4, <2>5, Zenon DEF v, R, Taken
<1>3. Joined(Taken(p, k)) \in Seq(Char)
  <2>1. Taken(p, k) \in Seq(Seq(Char)) /\ <<>> \in Seq(Char)
    BY <1>2
  <2> QED
    BY <2>1, JoinedAppend
<1>4. DecodedLen(p, k) = Len(Joined(Taken(p, k))) /\ DecodedLen(p, k) \in Nat
  <2>1. DecodedLen(p, k) = Len(Joined(Taken(p, k)))
    BY Zenon DEF DecodedLen, Taken
  <2> QED
    BY <1>3, <2>1, LenProperties
<1>5. ASSUME k = 0 PROVE DecodedLen(p, k) = 0
  <2>1. Taken(p, 0) = <<>>
    <3>1. 0 \in 0..Len(p)
      BY <1>1
    <3> QED
      BY <1>2, <3>1, EmptySeq
  <2>2. Len(<<>>) = 0
    OBVIOUS
  <2> QED
    BY <1>4, <1>5, <2>1, <2>2, JoinedEmpty
<1>6. ASSUME k = Len(p) PROVE Joined(Taken(p, k)) = Joined(p)
  <2>1. \A v, w \in Seq(Seq(Char)) : Len(v) = Len(w) /\ (\A i \in 1..Len(v) : v[i] = w[i]) => v = w
    BY ONLY SeqEqual
  <2>2. Taken(p, k) = p
    BY <1>1, <1>2, <1>6, <2>1, Zenon
  <2> QED
    BY <2>2
<1>7. ASSUME k < Len(p)
      PROVE  /\ Joined(Taken(p, k + 1)) = Joined(Taken(p, k)) \o p[k + 1]
             /\ DecodedLen(p, k + 1) = DecodedLen(p, k) + Len(p[k + 1])
  <2> DEFINE t == Taken(p, k)
             x == p[k + 1]
             u == Append(t, x)
  <2>1. k \in Nat /\ k + 1 \in 0..Len(p) /\ k + 1 \in 1..Len(p)
    BY <1>1, <1>7
  <2>2. t \in Seq(Seq(Char)) /\ Len(t) = k /\ x \in Seq(Char) /\ \A i \in 1..k : t[i] = p[i]
    BY <1>1, <1>2, <2>1
  <2>3. /\ Taken(p, k + 1) \in Seq(Seq(Char)) /\ Len(Taken(p, k + 1)) = k + 1
        /\ \A i \in 1..(k + 1) : Taken(p, k + 1)[i] = p[i]
    BY <1>2, <2>1
  <2> HIDE DEF t, x
  <2>4. /\ u \in Seq(Seq(Char)) /\ Len(u) = k + 1 /\ u[k + 1] = x
        /\ \A i \in 1..k : u[i] = t[i]
    <3> DEFINE R == Seq(Char)
    <3> HIDE DEF R
    <3>1. \A w \in Seq(R), e \in R :
              /\ Append(w, e) \in Seq(R) /\ Len(Append(w, e)) = Len(w) + 1
              /\ Append(w, e)[Len(w) + 1] = e /\ \A i \in 1..Len(w) : Append(w, e)[i] = w[i]
      BY ONLY AppendProperties
    <3> QED
      BY <2>2, <3>1, Zenon DEF R
  <2> HIDE DEF u
  <2>5. ASSUME NEW i \in 1..(k + 1) PROVE Taken(p, k + 1)[i] = u[i]
    <3>1. CASE i = k + 1
      BY <2>3, <2>4, <3>1, Zenon DEF x
    <3>2. CASE i # k + 1
      <4>1. i \in 1..k
        BY <2>1, <3>2
      <4> QED
        BY <2>2, <2>3, <2>4, <4>1, Zenon
    <3> QED
      BY <3>1, <3>2
  <2>6. \A v, w \in Seq(Seq(Char)) : Len(v) = Len(w) /\ (\A i \in 1..Len(v) : v[i] = w[i]) => v = w
    BY ONLY SeqEqual
  <2>7. Taken(p, k + 1) = u
    BY <2>3, <2>4, <2>5, <2>6, Zenon
  <2>8. Joined(u) = Joined(t) \o x /\ Joined(t) \in Seq(Char)
    BY <2>2, JoinedAppend DEF u
  <2>9. Len(Joined(t) \o x) = Len(Joined(t)) + Len(x)
    BY <2>2, <2>8, ConcatProperties
  <2>10. DecodedLen(p, k + 1) = Len(Joined(Taken(p, k + 1)))
    BY Zenon DEF DecodedLen, Taken
  <2> QED
    BY <1>4, <2>7, <2>8, <2>9, <2>10, Zenon DEF t, x
<1> QED
  BY <1>3, <1>4, <1>5, <1>6, <1>7

\* More tokens are more characters.
LEMMA DecodedGrows ==
    ASSUME NEW p \in Prompts, NEW j \in 0..Len(p), NEW k \in j..Len(p)
    PROVE  DecodedLen(p, j) <= DecodedLen(p, k)
<1> DEFINE D == { n \in Nat : j + n <= Len(p) => DecodedLen(p, j) <= DecodedLen(p, j + n) }
<1>0. /\ Len(p) \in Nat /\ j \in Nat /\ \A i \in 1..Len(p) : Len(p[i]) \in Nat
      /\ \A n \in 0..Len(p) : DecodedLen(p, n) \in Nat
  BY PromptTokens, DecodedStep
<1>1. 0 \in D
  <2>1. j + 0 = j /\ DecodedLen(p, j) \in Nat
    BY <1>0
  <2> QED
    BY <2>1
<1>2. ASSUME NEW n \in Nat, n \in D PROVE n + 1 \in D
  <2> SUFFICES ASSUME j + (n + 1) <= Len(p) PROVE DecodedLen(p, j) <= DecodedLen(p, j + (n + 1))
    OBVIOUS
  <2>1. /\ j + n \in 0..Len(p) /\ j + n < Len(p) /\ (j + n) + 1 = j + (n + 1) /\ j + n <= Len(p)
        /\ (j + n) + 1 \in 1..Len(p)
    BY <1>0
  <2>2. DecodedLen(p, (j + n) + 1) = DecodedLen(p, j + n) + Len(p[(j + n) + 1])
    BY <2>1, DecodedStep
  <2>3. DecodedLen(p, j) <= DecodedLen(p, j + n)
    BY <1>2, <2>1
  <2>4. DecodedLen(p, j) \in Nat /\ DecodedLen(p, j + n) \in Nat /\ Len(p[(j + n) + 1]) \in Nat
    BY <1>0, <2>1
  <2>5. DecodedLen(p, j) <= DecodedLen(p, (j + n) + 1)
    BY <2>2, <2>3, <2>4
  <2> QED
    BY <2>1, <2>5
<1>3. Nat \subseteq D
  <2> HIDE DEF D
  <2> QED
    BY <1>1, <1>2, Induction
<1>4. k - j \in Nat /\ j + (k - j) = k /\ j + (k - j) <= Len(p)
  BY <1>0
<1>5. j + (k - j) <= Len(p) => DecodedLen(p, j) <= DecodedLen(p, j + (k - j))
  BY <1>3, <1>4
<1> QED
  BY <1>4, <1>5

\* Where token j starts in the text.
LEMMA TokenStart ==
    ASSUME NEW p \in Prompts, NEW j \in 1..Len(p)
    PROVE  /\ DecodedLen(p, j - 1) + 1 \in 1..Len(Joined(p))
           /\ Joined(p)[DecodedLen(p, j - 1) + 1] = p[j][1]
<1> DEFINE c == DecodedLen(p, j - 1) + 1
           D == { n \in Nat : j + n <= Len(p) =>
                     c <= DecodedLen(p, j + n) /\ Joined(Taken(p, j + n))[c] = p[j][1] }
<1>0. /\ Len(p) \in Nat /\ j \in Nat /\ j >= 1 /\ j <= Len(p)
      /\ \A i \in 1..Len(p) : p[i] \in Seq(Char) /\ Len(p[i]) \in Nat /\ Len(p[i]) >= 1
      /\ \A n \in 0..Len(p) : /\ DecodedLen(p, n) \in Nat /\ Joined(Taken(p, n)) \in Seq(Char)
                              /\ Len(Joined(Taken(p, n))) = DecodedLen(p, n)
  BY PromptTokens, DecodedStep
<1>1. j - 1 \in 0..Len(p) /\ j - 1 < Len(p) /\ (j - 1) + 1 = j
  BY <1>0
<1>2. c \in Nat /\ c >= 1 /\ DecodedLen(p, j - 1) \in Nat
  BY <1>0, <1>1
<1>3. \A v, w \in Seq(Char) :
          \A i \in 1..(Len(v) + Len(w)) : (v \o w)[i] = IF i <= Len(v) THEN v[i] ELSE w[i - Len(v)]
  BY ONLY ConcatProperties
<1>4. 0 \in D
  <2>1. /\ Joined(Taken(p, (j - 1) + 1)) = Joined(Taken(p, j - 1)) \o p[(j - 1) + 1]
        /\ DecodedLen(p, (j - 1) + 1) = DecodedLen(p, j - 1) + Len(p[(j - 1) + 1])
    BY <1>1, DecodedStep
  <2> DEFINE v == Joined(Taken(p, j - 1))
             w == p[j]
  <2>2. v \in Seq(Char) /\ w \in Seq(Char) /\ Len(v) = DecodedLen(p, j - 1) /\ Len(w) \in Nat
            /\ Len(w) >= 1
    BY <1>0, <1>1
  <2>3. Joined(Taken(p, j)) = v \o w /\ DecodedLen(p, j) = Len(v) + Len(w)
    BY <1>1, <2>1, <2>2
  <2> HIDE DEF v, w
  <2>4. c \in 1..(Len(v) + Len(w)) /\ ~(c <= Len(v)) /\ c - Len(v) = 1
    BY <1>2, <2>2
  <2>5. (v \o w)[c] = w[1]
    BY <1>3, <2>2, <2>4, ZenonT(60)
  <2>6. j + 0 = j /\ c <= DecodedLen(p, j)
    BY <1>0, <2>3, <2>4
  <2> HIDE DEF c
  <2> QED
    BY <2>3, <2>5, <2>6 DEF w
<1>5. ASSUME NEW n \in Nat, n \in D PROVE n + 1 \in D
  <2> HIDE DEF c
  <2> SUFFICES ASSUME j + (n + 1) <= Len(p)
               PROVE  /\ c <= DecodedLen(p, j + (n + 1))
                      /\ Joined(Taken(p, j + (n + 1)))[c] = p[j][1]
    OBVIOUS
  <2>1. /\ j + n \in 0..Len(p) /\ j + n < Len(p) /\ (j + n) + 1 = j + (n + 1) /\ j + n <= Len(p)
        /\ (j + n) + 1 \in 1..Len(p)
    BY <1>0
  <2>2. /\ Joined(Taken(p, (j + n) + 1)) = Joined(Taken(p, j + n)) \o p[(j + n) + 1]
        /\ DecodedLen(p, (j + n) + 1) = DecodedLen(p, j + n) + Len(p[(j + n) + 1])
    BY <2>1, DecodedStep
  <2>3. c <= DecodedLen(p, j + n) /\ Joined(Taken(p, j + n))[c] = p[j][1]
    BY <1>5, <2>1
  <2> DEFINE v == Joined(Taken(p, j + n))
             w == p[(j + n) + 1]
  <2>4. v \in Seq(Char) /\ w \in Seq(Char) /\ Len(v) = DecodedLen(p, j + n) /\ Len(w) \in Nat
            /\ Len(v) \in Nat
    BY <1>0, <2>1
  <2>5. Joined(Taken(p, j + (n + 1))) = v \o w /\ DecodedLen(p, j + (n + 1)) = Len(v) + Len(w)
    BY <2>1, <2>2, <2>4, Zenon
  <2> HIDE DEF v, w
  <2>6. c <= Len(v) /\ v[c] = p[j][1]
    BY <2>3, <2>4 DEF v
  <2>7. c \in 1..(Len(v) + Len(w)) /\ c <= Len(v) + Len(w)
    BY <1>2, <2>4, <2>6
  <2>8. (v \o w)[c] = v[c]
    BY <1>3, <2>4, <2>6, <2>7, Zenon
  <2> QED
    BY <2>5, <2>6, <2>7, <2>8, Zenon
<1>6. Nat \subseteq D
  <2> HIDE DEF D
  <2> QED
    BY <1>4, <1>5, Induction
<1>7. Len(p) - j \in Nat /\ j + (Len(p) - j) = Len(p) /\ j + (Len(p) - j) <= Len(p)
  BY <1>0
<1>8. c <= DecodedLen(p, Len(p)) /\ Joined(Taken(p, Len(p)))[c] = p[j][1]
  <2> HIDE DEF c
  <2>1. /\ c <= DecodedLen(p, j + (Len(p) - j))
        /\ Joined(Taken(p, j + (Len(p) - j)))[c] = p[j][1]
    BY <1>6, <1>7
  <2> QED
    BY <1>7, <2>1
<1>9. Len(p) \in 0..Len(p) /\ Joined(Taken(p, Len(p))) = Joined(p)
  <2>1. Len(p) \in 0..Len(p)
    BY <1>0
  <2> QED
    BY <2>1, DecodedStep
<1>10. Len(Joined(p)) = DecodedLen(p, Len(p)) /\ Len(Joined(p)) \in Nat
  BY <1>0, <1>9
<1> HIDE DEF c, D
<1>11. c \in 1..Len(Joined(p)) /\ Joined(p)[c] = p[j][1]
  BY <1>2, <1>8, <1>9, <1>10
<1> QED
  BY <1>11 DEF c
-----------------------------------------------------------------------------
\* Between lo and hi, k is the first number of tokens that reaches offset o.
Boundary(p, o, lo, hi, k) ==
    /\ k \in lo..hi
    /\ k < hi => DecodedLen(p, k) >= o
    /\ \A j \in lo..hi : j < k => DecodedLen(p, j) < o

\* There is one.
LEMMA BoundaryExists ==
    ASSUME NEW p \in Prompts, NEW o \in Nat, NEW lo \in 0..Len(p), NEW hi \in lo..Len(p)
    PROVE  \E k : Boundary(p, o, lo, hi, k)
<1> DEFINE T == { k \in lo..hi : k = hi \/ DecodedLen(p, k) >= o }
<1>0. /\ Len(p) \in Nat /\ lo \in Nat /\ hi \in Nat /\ lo <= hi
      /\ \A n \in lo..hi : n \in 0..Len(p)
  BY PromptTokens
<1>1. \A n \in lo..hi : DecodedLen(p, n) \in Nat
  BY <1>0, DecodedStep
<1>2. T \subseteq Nat /\ hi \in T
  BY <1>0
<1> HIDE DEF T
<1>3. PICK k \in T : \A n \in T : k <= n
  BY <1>2, NatLeast
<1> USE DEF T
<1>4. k \in lo..hi /\ (k < hi => DecodedLen(p, k) >= o)
  BY <1>0, <1>3
<1>5. ASSUME NEW j \in lo..hi, j < k PROVE DecodedLen(p, j) < o
  <2>1. j \notin T
    BY <1>0, <1>3, <1>4, <1>5
  <2>2. ~(DecodedLen(p, j) >= o)
    BY <2>1
  <2> QED
    BY <1>1, <2>2
<1> QED
  BY <1>4, <1>5, Zenon DEF Boundary

\* And no other.
LEMMA BoundaryUnique ==
    ASSUME NEW p \in Prompts, NEW o \in Nat, NEW lo \in 0..Len(p), NEW hi \in lo..Len(p),
           NEW k, Boundary(p, o, lo, hi, k), NEW n, Boundary(p, o, lo, hi, n)
    PROVE  k = n
<1>0. /\ Len(p) \in Nat /\ lo \in Nat /\ hi \in Nat /\ k \in lo..hi /\ n \in lo..hi
      /\ DecodedLen(p, k) \in Nat /\ DecodedLen(p, n) \in Nat
  <2>1. Len(p) \in Nat
    BY PromptTokens
  <2>2. k \in lo..hi /\ n \in lo..hi
    BY DEF Boundary
  <2>3. k \in 0..Len(p) /\ n \in 0..Len(p)
    BY <2>1, <2>2
  <2> QED
    BY <2>1, <2>2, <2>3, DecodedStep
<1>1. ~(k < n)
  <2> SUFFICES ASSUME k < n PROVE FALSE
    OBVIOUS
  <2>1. DecodedLen(p, k) < o
    BY <1>0 DEF Boundary
  <2>2. k < hi
    BY <1>0
  <2>3. DecodedLen(p, k) >= o
    BY <2>2 DEF Boundary
  <2> QED
    BY <1>0, <2>1, <2>3
<1>2. ~(n < k)
  <2> SUFFICES ASSUME n < k PROVE FALSE
    OBVIOUS
  <2>1. DecodedLen(p, n) < o
    BY <1>0 DEF Boundary
  <2>2. n < hi
    BY <1>0
  <2>3. DecodedLen(p, n) >= o
    BY <2>2 DEF Boundary
  <2> QED
    BY <1>0, <2>1, <2>3
<1> QED
  BY <1>0, <1>1, <1>2

\* Half of the interval decides.
LEMMA BoundaryHalves ==
    ASSUME NEW p \in Prompts, NEW o \in Nat, NEW lo \in 0..Len(p), NEW hi \in lo..Len(p), lo < hi,
           NEW mid, mid = (lo + hi) \div 2
    PROVE  /\ mid \in lo..(hi - 1) /\ mid + 1 \in 0..Len(p) /\ mid \in 0..Len(p)
           /\ \A k : DecodedLen(p, mid) < o /\ Boundary(p, o, mid + 1, hi, k)
                        => Boundary(p, o, lo, hi, k)
           /\ \A k : ~(DecodedLen(p, mid) < o) /\ Boundary(p, o, lo, mid, k)
                        => Boundary(p, o, lo, hi, k)
<1>0. Len(p) \in Nat /\ lo \in Nat /\ hi \in Nat /\ hi <= Len(p)
          /\ \A n \in 0..Len(p) : DecodedLen(p, n) \in Nat
  BY PromptTokens, DecodedStep
<1>1. mid \in lo..(hi - 1)
  BY <1>0
<1>2. mid \in Nat /\ mid >= lo /\ mid <= hi - 1 /\ mid \in 0..Len(p) /\ mid + 1 \in 0..Len(p)
  BY <1>0, <1>1
<1>3. ASSUME NEW k, DecodedLen(p, mid) < o, Boundary(p, o, mid + 1, hi, k)
      PROVE  Boundary(p, o, lo, hi, k)
  <2>1. /\ k \in (mid + 1)..hi /\ (k < hi => DecodedLen(p, k) >= o)
        /\ \A j \in (mid + 1)..hi : j < k => DecodedLen(p, j) < o
    BY <1>3 DEF Boundary
  <2>2. k \in lo..hi
    BY <1>0, <1>2, <2>1
  <2>3. ASSUME NEW j \in lo..hi, j < k PROVE DecodedLen(p, j) < o
    <3>1. CASE j <= mid
      <4>1. j \in 0..Len(p) /\ mid \in j..Len(p)
        BY <1>0, <1>2, <3>1
      <4>2. DecodedLen(p, j) <= DecodedLen(p, mid)
        BY <4>1, DecodedGrows
      <4> QED
        BY <1>0, <1>2, <1>3, <4>1, <4>2
    <3>2. CASE ~(j <= mid)
      <4>1. j \in (mid + 1)..hi
        BY <1>0, <1>2, <3>2
      <4> QED
        BY <2>1, <2>3, <4>1
    <3> QED
      BY <3>1, <3>2
  <2> QED
    BY <2>1, <2>2, <2>3, Zenon DEF Boundary
<1>4. ASSUME NEW k, ~(DecodedLen(p, mid) < o), Boundary(p, o, lo, mid, k)
      PROVE  Boundary(p, o, lo, hi, k)
  <2>1. /\ k \in lo..mid /\ (k < mid => DecodedLen(p, k) >= o)
        /\ \A j \in lo..mid : j < k => DecodedLen(p, j) < o
    BY <1>4 DEF Boundary
  <2>2. k \in lo..hi
    BY <1>0, <1>2, <2>1
  <2>3. DecodedLen(p, k) >= o
    <3>1. CASE k < mid
      BY <2>1, <3>1
    <3>2. CASE ~(k < mid)
      <4>1. k = mid
        BY <1>0, <1>2, <2>1, <3>2
      <4> QED
        BY <1>0, <1>2, <1>4, <4>1
    <3> QED
      BY <3>1, <3>2
  <2>4. ASSUME NEW j \in lo..hi, j < k PROVE DecodedLen(p, j) < o
    <3>1. j \in lo..mid
      BY <1>0, <1>2, <2>1, <2>4
    <3> QED
      BY <2>1, <2>4, <3>1
  <2> QED
    BY <2>2, <2>3, <2>4, Zenon DEF Boundary
<1> QED
  BY <1>1, <1>2, <1>3, <1>4
-----------------------------------------------------------------------------
\* The intervals the binary search looks at.
Intervals(p) == (0..Len(p)) \X (0..Len(p))

\* One step of the binary search over f.
SearchStep(f, p, o, w) ==
    LET mid == (w[1] + w[2]) \div 2
    IN  IF w[1] >= w[2] THEN w[1]
        ELSE IF DecodedLen(p, mid) < o THEN f[<<mid + 1, w[2]>>] ELSE f[<<w[1], mid>>]

\* That step, at the interval from a to b.
LEMMA SearchStepAt ==
    ASSUME NEW f, NEW p, NEW o, NEW a, NEW b
    PROVE  SearchStep(f, p, o, <<a, b>>)
             = IF a >= b THEN a
               ELSE IF DecodedLen(p, (a + b) \div 2) < o THEN f[<<(a + b) \div 2 + 1, b>>]
                    ELSE f[<<a, (a + b) \div 2>>]
<1> DEFINE w == <<a, b>>
<1>1. w[1] = a /\ w[2] = b
  OBVIOUS
<1> HIDE DEF w
<1>2. SearchStep(f, p, o, w)
             = IF a >= b THEN a
               ELSE IF DecodedLen(p, (a + b) \div 2) < o THEN f[<<(a + b) \div 2 + 1, b>>]
                    ELSE f[<<a, (a + b) \div 2>>]
  BY <1>1, Zenon DEF SearchStep
<1> QED
  BY <1>2 DEF w

\* The recursion of TokenBoundary.
Search(f, p, o) == f = [w \in Intervals(p) |-> SearchStep(f, p, o, w)]

\* The boundary of every interval.
BoundaryOf(p, o, lo, hi) == IF lo >= hi THEN lo ELSE CHOOSE k : Boundary(p, o, lo, hi, k)

Boundaries(p, o) == [w \in Intervals(p) |-> BoundaryOf(p, o, w[1], w[2])]

\* Boundaries holds boundaries.
LEMMA BoundariesAre ==
    ASSUME NEW p \in Prompts, NEW o \in Nat, NEW lo \in 0..Len(p), NEW hi \in lo..Len(p)
    PROVE  Boundary(p, o, lo, hi, Boundaries(p, o)[<<lo, hi>>])
<1>0. Len(p) \in Nat /\ lo \in Nat /\ hi \in Nat /\ lo <= hi /\ hi \in 0..Len(p) 
  BY PromptTokens
<1>1. Boundaries(p, o)[<<lo, hi>>] = BoundaryOf(p, o, lo, hi)
  BY <1>0 DEF Boundaries, Intervals
<1>2. CASE lo >= hi
  <2>1. lo = hi /\ Boundaries(p, o)[<<lo, hi>>] = lo
    BY <1>0, <1>1, <1>2 DEF BoundaryOf
  <2>2. lo \in lo..hi /\ ~(lo < hi) /\ \A j \in lo..hi : ~(j < lo)
    BY <1>0, <2>1
  <2> QED
    BY <2>1, <2>2, Zenon DEF Boundary
<1>3. CASE ~(lo >= hi)
  <2>1. \E k : Boundary(p, o, lo, hi, k)
    BY BoundaryExists
  <2> QED
    BY <1>1, <1>3, <2>1, Zenon DEF BoundaryOf
<1> QED
  BY <1>2, <1>3

\* They solve the recursion.
LEMMA SearchExists ==
    ASSUME NEW p \in Prompts, NEW o \in Nat
    PROVE  Search(Boundaries(p, o), p, o)
<1> DEFINE g == Boundaries(p, o)
<1>0. Len(p) \in Nat
  BY PromptTokens
<1>1. ASSUME NEW lo \in 0..Len(p), NEW hi \in 0..Len(p)
          PROVE g[<<lo, hi>>] = SearchStep(g, p, o, <<lo, hi>>)
  <2>1. CASE lo >= hi
    <3>1. g[<<lo, hi>>] = lo
      BY <2>1 DEF Boundaries, Intervals, BoundaryOf
    <3> QED
      BY <2>1, <3>1, SearchStepAt, Zenon
  <2>2. CASE ~(lo >= hi)
    <3> DEFINE mid == (lo + hi) \div 2
               k == g[<<lo, hi>>]
    <3>1. lo < hi /\ hi \in lo..Len(p) /\ lo \in Nat /\ hi \in Nat /\ hi <= Len(p)
      BY <1>0, <2>2
    <3>2. /\ mid \in lo..(hi - 1) /\ mid + 1 \in 0..Len(p) /\ mid \in 0..Len(p)
          /\ \A n : DecodedLen(p, mid) < o /\ Boundary(p, o, mid + 1, hi, n)
                       => Boundary(p, o, lo, hi, n)
          /\ \A n : ~(DecodedLen(p, mid) < o) /\ Boundary(p, o, lo, mid, n)
                       => Boundary(p, o, lo, hi, n)
      BY <3>1, BoundaryHalves
    <3>3. Boundary(p, o, lo, hi, k)
      BY <3>1, BoundariesAre
    <3> HIDE DEF mid, k
    <3>4. hi \in (mid + 1)..Len(p) /\ mid \in lo..Len(p)
      BY <3>1, <3>2
    <3>5. Boundary(p, o, mid + 1, hi, g[<<mid + 1, hi>>]) /\ Boundary(p, o, lo, mid, g[<<lo, mid>>])
      BY <3>2, <3>4, BoundariesAre
    <3> HIDE DEF g
    <3>6. DecodedLen(p, mid) < o => k = g[<<mid + 1, hi>>]
      <4> HAVE DecodedLen(p, mid) < o
      <4>1. Boundary(p, o, lo, hi, g[<<mid + 1, hi>>])
        BY <3>2, <3>5, Zenon
      <4> QED
        BY <3>1, <3>3, <4>1, BoundaryUnique
    <3>7. ~(DecodedLen(p, mid) < o) => k = g[<<lo, mid>>]
      <4> HAVE ~(DecodedLen(p, mid) < o)
      <4>1. Boundary(p, o, lo, hi, g[<<lo, mid>>])
        BY <3>2, <3>5, Zenon
      <4> QED
        BY <3>1, <3>3, <4>1, BoundaryUnique
    <3>8. SearchStep(g, p, o, <<lo, hi>>)
             = IF lo >= hi THEN lo
               ELSE IF DecodedLen(p, mid) < o THEN g[<<mid + 1, hi>>] ELSE g[<<lo, mid>>]
      BY SearchStepAt, ZenonT(60) DEF mid
    <3> QED
      BY <2>2, <3>6, <3>7, <3>8, Zenon DEF k
  <2> QED
    BY <2>1, <2>2
<1>2. g = [w \in Intervals(p) |-> g[w]]
  BY DEF Boundaries
<1> HIDE DEF g
<1>3. \A w \in Intervals(p) : g[w] = SearchStep(g, p, o, w)
  <2> TAKE w \in Intervals(p)
  <2>1. PICK lo \in 0..Len(p), hi \in 0..Len(p) : w = <<lo, hi>>
    BY DEF Intervals
  <2> QED
    BY <1>1, <2>1, Zenon
<1>4. [w \in Intervals(p) |-> g[w]] = [w \in Intervals(p) |-> SearchStep(g, p, o, w)]
  BY <1>3, Zenon
<1>5. Search(g, p, o)
  BY <1>2, <1>4, Zenon DEF Search
<1> QED
  BY <1>5 DEF g

\* Every solution of the recursion finds the boundaries.
LEMMA SearchFinds ==
    ASSUME NEW p \in Prompts, NEW o \in Nat, NEW f, Search(f, p, o),
           NEW lo \in 0..Len(p), NEW hi \in lo..Len(p)
    PROVE  Boundary(p, o, lo, hi, f[<<lo, hi>>])
<1>0. Len(p) \in Nat
  BY PromptTokens
<1>1. ASSUME NEW a \in 0..Len(p), NEW b \in 0..Len(p)
      PROVE  f[<<a, b>>] = IF a >= b THEN a
                           ELSE IF DecodedLen(p, (a + b) \div 2) < o
                                THEN f[<<(a + b) \div 2 + 1, b>>] ELSE f[<<a, (a + b) \div 2>>]
  <2>1. <<a, b>> \in Intervals(p)
    BY DEF Intervals
  <2>2. f[<<a, b>>] = SearchStep(f, p, o, <<a, b>>)
    BY <2>1, Zenon DEF Search
  <2>3. SearchStep(f, p, o, <<a, b>>)
          = IF a >= b THEN a
            ELSE IF DecodedLen(p, (a + b) \div 2) < o THEN f[<<(a + b) \div 2 + 1, b>>]
                 ELSE f[<<a, (a + b) \div 2>>]
    BY SearchStepAt, ZenonT(60)
  <2> QED
    BY <2>2, <2>3, Zenon
<1> DEFINE D == { n \in Nat : \A a \in 0..Len(p), b \in 0..Len(p) :
                     a <= b /\ b <= a + n => Boundary(p, o, a, b, f[<<a, b>>]) }
<1>2. ASSUME NEW a \in 0..Len(p), NEW b \in 0..Len(p), a = b PROVE Boundary(p, o, a, b, f[<<a, b>>])
  <2>1. f[<<a, b>>] = a
    <3>1. a >= b
      BY <1>0, <1>2
    <3> QED
      BY <1>1, <3>1, Zenon
  <2>2. a \in a..b /\ ~(a < b) /\ \A j \in a..b : ~(j < a)
    BY <1>0, <1>2
  <2> QED
    BY <2>1, <2>2, Zenon DEF Boundary
<1>3. 0 \in D
  <2>1. \A a \in 0..Len(p), b \in 0..Len(p) : a <= b /\ b <= a + 0 => a = b
    BY <1>0
  <2> QED
    BY <1>2, <2>1
<1>4. ASSUME NEW n \in Nat, n \in D PROVE n + 1 \in D
  <2> SUFFICES ASSUME NEW a \in 0..Len(p), NEW b \in 0..Len(p), a <= b, b <= a + (n + 1)
               PROVE  Boundary(p, o, a, b, f[<<a, b>>])
    OBVIOUS
  <2>1. CASE a = b
    BY <1>2, <2>1
  <2>2. CASE a # b
    <3> DEFINE mid == (a + b) \div 2
    <3>1. a < b /\ ~(a >= b) /\ b \in a..Len(p)
      BY <1>0, <2>2
    <3>2. /\ mid \in a..(b - 1) /\ mid + 1 \in 0..Len(p) /\ mid \in 0..Len(p)
          /\ \A k : DecodedLen(p, mid) < o /\ Boundary(p, o, mid + 1, b, k)
                       => Boundary(p, o, a, b, k)
          /\ \A k : ~(DecodedLen(p, mid) < o) /\ Boundary(p, o, a, mid, k)
                       => Boundary(p, o, a, b, k)
      BY <3>1, BoundaryHalves
    <3>3. f[<<a, b>>] = IF DecodedLen(p, mid) < o THEN f[<<mid + 1, b>>] ELSE f[<<a, mid>>]
      <4> HIDE DEF D
      <4>1. f[<<a, b>>] = IF a >= b THEN a
                          ELSE IF DecodedLen(p, (a + b) \div 2) < o
                               THEN f[<<(a + b) \div 2 + 1, b>>] ELSE f[<<a, (a + b) \div 2>>]
        BY <1>1, Zenon
      <4> QED
        BY <3>1, <4>1, Zenon DEF mid
    <3> HIDE DEF mid
    <3>4. mid + 1 <= b /\ b <= (mid + 1) + n /\ a <= mid /\ mid <= a + n
      BY <1>0, <3>1, <3>2
    <3>5. /\ Boundary(p, o, mid + 1, b, f[<<mid + 1, b>>])
          /\ Boundary(p, o, a, mid, f[<<a, mid>>])
      BY <1>4, <3>2, <3>4
    <3> HIDE DEF D
    <3>6. CASE DecodedLen(p, mid) < o
      BY <3>2, <3>3, <3>5, <3>6, Zenon
    <3>7. CASE ~(DecodedLen(p, mid) < o)
      BY <3>2, <3>3, <3>5, <3>7, Zenon
    <3> QED
      BY <3>6, <3>7
  <2> QED
    BY <2>1, <2>2
<1>5. Nat \subseteq D
  <2> HIDE DEF D
  <2> QED
    BY <1>3, <1>4, Induction
<1>6. hi - lo \in Nat /\ lo <= hi /\ hi <= lo + (hi - lo) /\ hi \in 0..Len(p)
  BY <1>0
<1> QED
  BY <1>5, <1>6

\* The binary search: a token lies before the boundary of an offset when it
\* starts before that offset.
LEMMA TokenBoundaryFinds ==
    ASSUME NEW p \in Prompts, NEW o \in Nat, o > 0, o <= DecodedLen(p, Len(p))
    PROVE  /\ TokenBoundary(p, o) \in 0..Len(p)
           /\ \A j \in 1..Len(p) : j <= TokenBoundary(p, o) <=> DecodedLen(p, j - 1) < o
<1>0. Len(p) \in Nat /\ \A n \in 0..Len(p) : DecodedLen(p, n) \in Nat
  BY PromptTokens, DecodedStep
<1> DEFINE h == CHOOSE f : Search(f, p, o)
           k == TokenBoundary(p, o)
<1>1. Search(h, p, o)
  BY SearchExists, Zenon
<1>2. k = h[<<0, Len(p)>>]
  <2>1. ~(o <= 0)
    OBVIOUS
  <2> QED
    BY <2>1, Zenon DEF TokenBoundary, Search, SearchStep, Intervals
<1> HIDE DEF h, k
<1>3. 0 \in 0..Len(p) /\ Len(p) \in 0..Len(p)
  BY <1>0
<1>4. Boundary(p, o, 0, Len(p), k)
  BY <1>1, <1>2, <1>3, SearchFinds
<1>5. /\ k \in 0..Len(p) /\ (k < Len(p) => DecodedLen(p, k) >= o)
      /\ \A j \in 0..Len(p) : j < k => DecodedLen(p, j) < o
  BY <1>4, Zenon DEF Boundary
<1>6. DecodedLen(p, k) >= o
  <2>1. CASE k < Len(p)
    BY <1>5, <2>1
  <2>2. CASE ~(k < Len(p))
    <3>1. k = Len(p)
      BY <1>0, <1>5, <2>2
    <3> QED
      BY <1>0, <1>3, <3>1
  <2> QED
    BY <2>1, <2>2
<1>7. ASSUME NEW j \in 1..Len(p), j <= k PROVE DecodedLen(p, j - 1) < o
  <2>1. j - 1 \in 0..Len(p) /\ j - 1 < k
    BY <1>0, <1>5, <1>7
  <2> QED
    BY <1>5, <2>1
<1>8. ASSUME NEW j \in 1..Len(p), ~(j <= k) PROVE ~(DecodedLen(p, j - 1) < o)
  <2>1. j - 1 \in k..Len(p) /\ j - 1 \in 0..Len(p)
    BY <1>0, <1>5, <1>8
  <2>2. DecodedLen(p, k) <= DecodedLen(p, j - 1)
    BY <1>5, <2>1, DecodedGrows
  <2> QED
    BY <1>0, <1>5, <1>6, <2>1, <2>2
<1>9. k \in 0..Len(p) /\ \A j \in 1..Len(p) : j <= k <=> DecodedLen(p, j - 1) < o
  BY <1>5, <1>7, <1>8
<1> QED
  BY <1>9 DEF k
-----------------------------------------------------------------------------
\* Where a turn starts in the text.
Starts(text) == { i \in 1..Len(text) : i = 1 \/ text[i].no # text[i - 1].no }

\* Where the turn that starts at i ends.
EndOf(text, i) ==
    LET after == { j \in Starts(text) : j > i }
    IN  IF after = {} THEN Len(text) ELSE (CHOOSE j \in after : \A k \in after : j <= k) - 1

\* The turn that starts at i is a large tool output.
LargeAt(text, i) == text[i].role = "tool" /\ EndOf(text, i) - i + 1 >= LargeToolChars

\* The starts, one after the other.
InOrder(text) == Filter([i \in 1..Len(text) |-> i], Starts(text))

\* The spans of a text are these.
LEMMA CharSpansAre ==
    ASSUME NEW text
    PROVE  CharSpans(text) =
             [n \in 1..Len(InOrder(text)) |->
                 [end |-> EndOf(text, InOrder(text)[n]),
                           worth |-> n = 1 \/ ~LargeAt(text, InOrder(text)[n])]]
BY Zenon DEF CharSpans, InOrder, LargeAt, EndOf, Starts

\* A turn ends before the next one starts, or with the text.
EndsAt(text, i, e) ==
    /\ e \in i..Len(text)
    /\ \A j \in Starts(text) : j > i => j > e
    /\ e < Len(text) => e + 1 \in Starts(text)

\* EndOf is that end.
LEMMA EndOfIs ==
    ASSUME NEW text \in Seq(Char), NEW i \in Starts(text)
    PROVE  EndsAt(text, i, EndOf(text, i))
<1> DEFINE Starting == Starts(text)
           after == { j \in Starting : j > i }
<1>1. Len(text) \in Nat /\ Starting \subseteq 1..Len(text) /\ i \in 1..Len(text)
  BY LenProperties DEF Starts
<1> HIDE DEF Starting
<1>2. EndOf(text, i) = IF after = {} THEN Len(text)
                       ELSE (CHOOSE j \in after : \A k \in after : j <= k) - 1
  BY Zenon DEF EndOf, Starting
<1>3. CASE after = {}
  <2>1. EndOf(text, i) = Len(text)
    BY <1>2, <1>3, Zenon
  <2>2. Len(text) \in i..Len(text) /\ ~(Len(text) < Len(text)) /\ \A j \in Starting : ~(j > i)
    BY <1>1, <1>3
  <2> QED
    BY <2>1, <2>2, Zenon DEF EndsAt, Starting
<1>4. CASE after # {}
  <2>1. after \subseteq Nat
    <3>1. \A j \in after : j \in Starting
      OBVIOUS
    <3>2. \A j \in Starting : j \in Nat
      BY <1>1
    <3> HIDE DEF after
    <3> QED
      BY <3>1, <3>2
  <2> DEFINE next == CHOOSE j \in after : \A k \in after : j <= k
  <2> HIDE DEF after
  <2>2. \E j \in after : \A k \in after : j <= k
    BY <1>4, <2>1, NatLeast
  <2>3. next \in after /\ \A k \in after : next <= k
    BY <2>2, Zenon
  <2>4. EndOf(text, i) = next - 1
    BY <1>2, <1>4, Zenon
  <2> HIDE DEF next
  <2>5. next \in Starting /\ next > i /\ next \in 1..Len(text)
    BY <1>1, <2>3 DEF after
  <2>6. next - 1 \in i..Len(text) /\ (next - 1) + 1 = next
    BY <1>1, <2>5
  <2>7. \A j \in Starting : j > i => j > next - 1
    <3> TAKE j \in Starting
    <3> HAVE j > i
    <3>1. next <= j
      BY <2>3 DEF after
    <3>2. next \in Nat /\ j \in Nat
      BY <1>1, <2>5
    <3> QED
      BY <3>1, <3>2
  <2> QED
    BY <2>4, <2>5, <2>6, <2>7, Zenon DEF EndsAt, Starting
<1> QED
  BY <1>3, <1>4

\* Of two characters of a rendering, the later one's turn is the later one.
LEMMA TurnsInOrder ==
    ASSUME NEW text, InTurns(text), NEW a \in 1..Len(text), NEW b \in 1..Len(text), a <= b
    PROVE  text[a].no <= text[b].no /\ (text[a].no = text[b].no => text[a] = text[b])
BY DEF InTurns

\* In a rendering that goes through its turns in order, the characters of a
\* turn are those from its start to its end.
LEMMA OneTurn ==
    ASSUME NEW text \in Seq(Char), InTurns(text), NEW i \in Starts(text), NEW e, EndsAt(text, i, e),
           NEW x \in 1..Len(text)
    PROVE  text[x] = text[i] <=> x \in i..e
<1>1. /\ Len(text) \in Nat /\ i \in 1..Len(text) /\ e \in i..Len(text) /\ i \in Nat /\ e \in Nat
          /\ x \in Nat
      /\ i = 1 \/ text[i].no # text[i - 1].no
  BY LenProperties DEF Starts, EndsAt
<1>2. \A a \in 1..Len(text) : text[a].no \in Nat
  BY DEF InTurns
<1>3. ASSUME NEW a \in 1..Len(text), NEW b \in 1..Len(text), a <= b
      PROVE  text[a].no <= text[b].no /\ (text[a].no = text[b].no => text[a] = text[b])
  BY <1>3, TurnsInOrder
<1> DEFINE D == { n \in Nat : i + n <= e => text[i + n].no = text[i].no }
<1>4. 0 \in D
  <2>1. i + 0 = i
    BY <1>1
  <2> QED
    BY <2>1
<1>5. ASSUME NEW n \in Nat, n \in D PROVE n + 1 \in D
  <2> SUFFICES ASSUME i + (n + 1) <= e PROVE text[i + (n + 1)].no = text[i].no
    OBVIOUS
  <2> DEFINE y == i + (n + 1)
  <2>1. /\ y \in 1..Len(text) /\ y # 1 /\ y > i /\ ~(y > e) /\ y - 1 = i + n /\ i + n <= e
    BY <1>1
  <2>2. y \notin Starts(text)
    BY <2>1, Zenon DEF EndsAt
  <2>3. text[y].no = text[y - 1].no
    BY <2>1, <2>2, Zenon DEF Starts
  <2>4. text[i + n].no = text[i].no
    BY <1>5, <2>1
  <2> QED
    BY <2>1, <2>3, <2>4
<1>6. Nat \subseteq D
  <2> HIDE DEF D
  <2> QED
    BY <1>4, <1>5, Induction
<1>7. ASSUME NEW y \in i..e PROVE text[y].no = text[i].no
  <2>1. y - i \in Nat /\ i + (y - i) = y /\ i + (y - i) <= e
    BY <1>1
  <2>2. text[i + (y - i)].no = text[i].no
    BY <1>6, <2>1
  <2> QED
    BY <2>1, <2>2
<1> HIDE DEF D
<1>8. ASSUME x \in i..e PROVE text[x] = text[i]
  <2>1. i <= x
    BY <1>1, <1>8
  <2> QED
    BY <1>1, <1>3, <1>7, <1>8, <2>1
<1>9. ASSUME x < i PROVE text[x] # text[i]
  <2>1. i - 1 \in 1..Len(text) /\ x <= i - 1 /\ i - 1 <= i /\ i # 1
    BY <1>1, <1>9
  <2>2. text[x].no <= text[i - 1].no /\ text[i - 1].no <= text[i].no
    BY <1>1, <1>3, <2>1
  <2>3. text[i].no # text[i - 1].no
    BY <1>1, <2>1
  <2>4. text[x].no \in Nat /\ text[i - 1].no \in Nat /\ text[i].no \in Nat
    BY <1>1, <1>2, <2>1
  <2>5. text[x].no < text[i].no
    BY <2>2, <2>3, <2>4
  <2> QED
    BY <2>4, <2>5
<1>10. ASSUME x > e PROVE text[x] # text[i]
  <2>1. e < Len(text) /\ e + 1 \in 1..Len(text) /\ e + 1 <= x /\ e \in 1..Len(text) /\ e <= e + 1
        /\ e + 1 # 1 /\ (e + 1) - 1 = e /\ e \in i..e
    BY <1>1, <1>10
  <2>2. e + 1 \in Starts(text)
    BY <2>1 DEF EndsAt
  <2>3. text[e + 1].no # text[e].no
    <3>1. text[e + 1].no # text[(e + 1) - 1].no
      BY <2>1, <2>2, Zenon DEF Starts
    <3> QED
      BY <2>1, <3>1
  <2>4. text[e].no <= text[e + 1].no /\ text[e + 1].no <= text[x].no /\ text[e].no = text[i].no
    BY <1>3, <1>7, <2>1
  <2>5. text[x].no \in Nat /\ text[e + 1].no \in Nat /\ text[e].no \in Nat
    BY <1>2, <2>1
  <2>6. text[i].no < text[x].no
    BY <2>3, <2>4, <2>5
  <2>7. text[i].no \in Nat
    BY <1>1, <1>2
  <2> QED
    BY <2>5, <2>6, <2>7
<1> QED
  BY <1>1, <1>8, <1>9, <1>10

\* The number of characters of the text that are t.
CharsLike(text, t) == Cardinality({ i \in 1..Len(text) : text[i] = t })

\* So a turn is as long as its span.
LEMMA TurnLength ==
    ASSUME NEW text \in Seq(Char), InTurns(text), NEW i \in Starts(text), NEW e, EndsAt(text, i, e)
    PROVE  CharsLike(text, text[i]) = e - i + 1
<1>1. Len(text) \in Nat /\ i \in Nat /\ e \in Nat /\ i <= e /\ e <= Len(text) /\ i >= 1
  BY LenProperties DEF Starts, EndsAt
<1>2. \A x \in 1..Len(text) : text[x] = text[i] <=> x \in i..e
  BY OneTurn
<1>3. i..e \subseteq 1..Len(text)
  BY <1>1
<1>4. { x \in 1..Len(text) : text[x] = text[i] } = i..e
  BY <1>2, <1>3
<1>5. Cardinality(i..e) = IF i > e THEN 0 ELSE e - i + 1
  <2>1. \A a, b \in Int : Cardinality(a..b) = IF a > b THEN 0 ELSE b - a + 1
    BY ONLY FS_Interval
  <2> QED
    BY <1>1, <2>1
<1>6. Cardinality(i..e) = e - i + 1
  BY <1>1, <1>5
<1> QED
  BY <1>4, <1>6 DEF CharsLike
-----------------------------------------------------------------------------
\* All the starts, in order, the text's own first.
ListsStarts(s, text) ==
    /\ Len(s) \in Nat
    /\ \A k \in 1..Len(s) : s[k] \in Starts(text)
    /\ \A k, l \in 1..Len(s) : k < l => s[k] < s[l]
    /\ \A j \in Starts(text) : \E k \in 1..Len(s) : s[k] = j
    /\ Len(s) >= 1 /\ s[1] = 1

\* InOrder lists them.
LEMMA InOrderIs ==
    ASSUME NEW text \in Seq(Char), Len(text) >= 1
    PROVE  ListsStarts(InOrder(text), text)
<1> DEFINE m == Len(text)
           chars == [i \in 1..m |-> i]
           t == InOrder(text)
           Starting == Starts(text)
<1>1. m \in Nat /\ 1 \in 1..m
  BY LenProperties
<1>2. Starting \subseteq 1..m /\ 1 \in Starting
  BY <1>1 DEF Starts
<1> HIDE DEF Starting
<1>3. chars \in Seq(Nat) /\ Len(chars) = m /\ \A i \in 1..m : chars[i] = i
  BY <1>1
<1> HIDE DEF chars
<1>4. t = Filter(chars, Starting)
  BY Zenon DEF InOrder, chars, Starting
<1> HIDE DEF t, m
<1>5. t \in Seq(Nat) /\ \E e : Keeps(t, e, chars, Starting, Len(chars))
  BY <1>3, <1>4, FilterKeeps
<1>6. PICK e : Keeps(t, e, chars, Starting, m)
  BY <1>3, <1>5
<1>7. /\ e \in [1..Len(t) -> 1..m]
      /\ \A k \in 1..Len(t) : t[k] = chars[e[k]] /\ t[k] \in Starting
      /\ \A k, l \in 1..Len(t) : k < l => e[k] < e[l]
      /\ \A j \in 1..m : chars[j] \in Starting => \E k \in 1..Len(t) : e[k] = j
  BY <1>6, Zenon DEF Keeps
<1>8. \A k \in 1..Len(t) : t[k] = e[k] /\ e[k] \in 1..m
  BY <1>3, <1>7
<1>9. \A k, l \in 1..Len(t) : k < l => t[k] < t[l]
  BY <1>7, <1>8
<1>10. \A j \in Starting : \E k \in 1..Len(t) : t[k] = j
  <2> TAKE j \in Starting
  <2>1. j \in 1..m /\ chars[j] \in Starting
    BY <1>2, <1>3
  <2>2. PICK k \in 1..Len(t) : e[k] = j
    BY <1>7, <2>1
  <2>3. t[k] = j
    BY <1>8, <2>2
  <2> QED
    BY <2>3
<1>11. Len(t) \in Nat
  BY <1>5, LenProperties
<1>12. PICK k \in 1..Len(t) : t[k] = 1
  BY <1>2, <1>10
<1>13. 1 \in 1..Len(t) /\ Len(t) >= 1
  BY <1>11, <1>12
<1>14. t[1] = 1
  <2> SUFFICES ASSUME t[1] # 1 PROVE FALSE
    OBVIOUS
  <2>1. k # 1 /\ 1 < k
    BY <1>11, <1>12
  <2>2. t[1] < 1
    BY <1>9, <1>12, <1>13, <2>1
  <2>3. t[1] \in 1..m
    BY <1>8, <1>13
  <2> QED
    BY <2>2, <2>3
<1>15. \A k1 \in 1..Len(t) : t[k1] \in Starting
  BY <1>7
<1> QED
  BY <1>9, <1>10, <1>11, <1>13, <1>14, <1>15, Zenon DEF ListsStarts, t, Starting

\* Character c is in the n-th span.
SpanAt(text, c, n) ==
    /\ n \in 1..Len(CharSpans(text))
    /\ c <= CharSpans(text)[n].end
    /\ \A m \in 1..(n - 1) : CharSpans(text)[m].end < c

\* The spans, one by one.
LEMMA SpanFields ==
    ASSUME NEW text \in Seq(Char), Len(text) >= 1
    PROVE  /\ Len(CharSpans(text)) = Len(InOrder(text)) /\ Len(InOrder(text)) \in Nat
           /\ \A n \in 1..Len(InOrder(text)) :
                 /\ CharSpans(text)[n].end = EndOf(text, InOrder(text)[n])
                 /\ CharSpans(text)[n].worth <=> n = 1 \/ ~LargeAt(text, InOrder(text)[n])
                 /\ CharSpans(text)[n].end \in 1..Len(text)
<1> DEFINE t == InOrder(text)
           spans == CharSpans(text)
<1>1. ListsStarts(t, text)
  BY InOrderIs
<1> HIDE DEF t
<1>2. Len(t) \in Nat /\ \A n \in 1..Len(t) : t[n] \in Starts(text)
  BY <1>1 DEF ListsStarts
<1>3. spans = [n \in 1..Len(t) |->
                 [end |-> EndOf(text, t[n]), worth |-> n = 1 \/ ~LargeAt(text, t[n])]]
  BY CharSpansAre DEF t
<1> HIDE DEF spans
<1>4. Len(spans) = Len(t)
  BY <1>2, <1>3
<1>5. ASSUME NEW n \in 1..Len(t)
      PROVE  /\ spans[n].end = EndOf(text, t[n])
             /\ spans[n].worth <=> n = 1 \/ ~LargeAt(text, t[n])
             /\ spans[n].end \in 1..Len(text)
  <2>1. spans[n] = [end |-> EndOf(text, t[n]), worth |-> n = 1 \/ ~LargeAt(text, t[n])]
    BY <1>3
  <2>2. spans[n].end = EndOf(text, t[n]) /\ (spans[n].worth <=> n = 1 \/ ~LargeAt(text, t[n]))
    <3> DEFINE x == EndOf(text, t[n])
               w == n = 1 \/ ~LargeAt(text, t[n])
    <3>1. spans[n] = [end |-> x, worth |-> w]
      BY <2>1
    <3> HIDE DEF x, w
    <3>2. spans[n].end = x /\ spans[n].worth = w
      BY <3>1
    <3> QED
      BY <3>2, Zenon DEF x, w
  <2>3. EndsAt(text, t[n], EndOf(text, t[n]))
    BY <1>2, EndOfIs
  <2>4. EndOf(text, t[n]) \in t[n]..Len(text) /\ t[n] \in 1..Len(text)
    BY <1>2, <2>3 DEF EndsAt, Starts
  <2>5. Len(text) \in Nat
    BY LenProperties
  <2>6. EndOf(text, t[n]) \in 1..Len(text)
    BY <2>4, <2>5
  <2> QED
    BY <2>2, <2>6
<1> QED
  BY <1>2, <1>4, <1>5 DEF t, spans

\* No character is in two spans.
LEMMA OneSpan ==
    ASSUME NEW text \in Seq(Char), Len(text) >= 1, NEW c \in 1..Len(text),
           NEW k, SpanAt(text, c, k), NEW n, SpanAt(text, c, n)
    PROVE  k = n
<1>1. /\ Len(CharSpans(text)) \in Nat
      /\ \A m \in 1..Len(CharSpans(text)) : CharSpans(text)[m].end \in 1..Len(text)
  BY SpanFields
<1>2. k \in 1..Len(CharSpans(text)) /\ n \in 1..Len(CharSpans(text)) /\ c \in Nat
  <2>1. c \in Nat
    BY LenProperties
  <2> QED
    BY <2>1 DEF SpanAt
<1>3. ~(k < n)
  <2> SUFFICES ASSUME k < n PROVE FALSE
    OBVIOUS
  <2>1. k \in 1..(n - 1)
    BY <1>1, <1>2
  <2>2. CharSpans(text)[k].end < c /\ c <= CharSpans(text)[k].end /\ CharSpans(text)[k].end \in Nat
    BY <1>1, <1>2, <2>1 DEF SpanAt
  <2> QED
    BY <1>2, <2>2
<1>4. ~(n < k)
  <2> SUFFICES ASSUME n < k PROVE FALSE
    OBVIOUS
  <2>1. n \in 1..(k - 1)
    BY <1>1, <1>2
  <2>2. CharSpans(text)[n].end < c /\ c <= CharSpans(text)[n].end /\ CharSpans(text)[n].end \in Nat
    BY <1>1, <1>2, <2>1 DEF SpanAt
  <2> QED
    BY <1>2, <2>2
<1> QED
  BY <1>1, <1>2, <1>3, <1>4

\* Keeping turn t's KV is worth it: the anchor, or no large tool output.
KeepIn(text, t) == t = text[1] \/ t.role # "tool" \/ CharsLike(text, t) < LargeToolChars

\* Every character is in a span, which is worth what its turn is.
LEMMA SpanOfChar ==
    ASSUME NEW text \in Seq(Char), Len(text) >= 1, InTurns(text), NEW c \in 1..Len(text)
    PROVE  \E n : SpanAt(text, c, n) /\ (CharSpans(text)[n].worth <=> KeepIn(text, text[c]))
<1> DEFINE t == InOrder(text)
           Starting == Starts(text)
           before == { j \in Starting : j <= c }
<1>1. ListsStarts(t, text)
  BY InOrderIs
<1>2. Len(text) \in Nat /\ Starting \subseteq 1..Len(text)
  BY LenProperties DEF Starts
<1> HIDE DEF t, Starting
<1>3. /\ Len(t) \in Nat /\ Len(t) >= 1 /\ t[1] = 1
      /\ \A k \in 1..Len(t) : t[k] \in Starting
      /\ \A k, l \in 1..Len(t) : k < l => t[k] < t[l]
      /\ \A j \in Starting : \E k \in 1..Len(t) : t[k] = j
  BY <1>1, Zenon DEF ListsStarts, Starting
<1>4. 1 \in Starting /\ 1 \in 1..Len(t)
  BY <1>3
<1>5. before \subseteq 0..Len(text) /\ before # {}
  <2>1. 1 \in before
    BY <1>2, <1>4
  <2>2. \A j \in before : j \in Starting
    OBVIOUS
  <2> HIDE DEF before
  <2>3. \A j \in Starting : j \in 0..Len(text)
    BY <1>2
  <2> QED
    BY <2>1, <2>2, <2>3
<1>6. PICK d \in before : \A j \in before : j <= d
  <2> HIDE DEF before
  <2> QED
    BY <1>2, <1>5, NatGreatest
<1>7. d \in Starting /\ d <= c /\ d \in 1..Len(text) /\ \A j \in Starting : j <= c => j <= d
  BY <1>2, <1>6
<1> HIDE DEF before
<1>8. PICK n \in 1..Len(t) : t[n] = d
  BY <1>3, <1>7
<1> DEFINE e == EndOf(text, d)
<1>9. EndsAt(text, d, e)
  BY <1>7, EndOfIs DEF Starting
<1> HIDE DEF e
<1>10. e \in d..Len(text) /\ (e < Len(text) => e + 1 \in Starting)
  BY <1>9, Zenon DEF EndsAt, Starting
<1>11. c <= e
  <2> SUFFICES ASSUME ~(c <= e) PROVE FALSE
    OBVIOUS
  <2>1. e \in Nat /\ e >= d /\ e < Len(text) /\ e + 1 <= c
    BY <1>2, <1>7, <1>10
  <2>2. e + 1 <= d
    BY <1>7, <1>10, <2>1
  <2> QED
    BY <1>2, <1>7, <2>1, <2>2
<1> DEFINE spans == CharSpans(text)
<1>12. /\ Len(spans) = Len(t)
       /\ \A k \in 1..Len(t) : /\ spans[k].end = EndOf(text, t[k])
                               /\ spans[k].worth <=> k = 1 \/ ~LargeAt(text, t[k])
                               /\ spans[k].end \in 1..Len(text)
  BY SpanFields DEF t
<1> HIDE DEF spans
<1>13. spans[n].end = e
  BY <1>8, <1>12 DEF e
<1>14. ASSUME NEW k \in 1..(n - 1) PROVE spans[k].end < c
  <2>1. k \in 1..Len(t) /\ k < n
    BY <1>3, <1>8
  <2>2. t[k] < d /\ t[k] \in Starting
    BY <1>3, <1>8, <2>1
  <2>3. EndsAt(text, t[k], spans[k].end)
    <3>1. EndsAt(text, t[k], EndOf(text, t[k]))
      BY <2>2, EndOfIs DEF Starting
    <3>2. spans[k].end = EndOf(text, t[k])
      BY <1>12, <2>1
    <3> QED
      BY <3>1, <3>2, Zenon
  <2>4. t[k] \in Nat /\ d \in Nat
    <3>1. \A j \in Starting : j \in Nat
      BY <1>2
    <3> QED
      BY <1>7, <2>2, <3>1, Zenon
  <2>5. d > spans[k].end
    BY <1>7, <2>2, <2>3, <2>4 DEF EndsAt, Starting
  <2>6. spans[k].end \in 1..Len(text)
    BY <1>12, <2>1
  <2> QED
    BY <1>2, <1>7, <2>5, <2>6
<1>15. SpanAt(text, c, n)
  BY <1>8, <1>11, <1>12, <1>13, <1>14, Zenon DEF SpanAt, spans
<1>16. c \in d..e
  BY <1>2, <1>7, <1>10, <1>11
<1>17. text[c] = text[d]
  BY <1>7, <1>9, <1>16, OneTurn DEF Starting
<1>18. CharsLike(text, text[d]) = e - d + 1
  BY <1>7, <1>9, TurnLength DEF Starting
<1>19. n = 1 <=> text[c] = text[1]
  <2>1. EndsAt(text, 1, spans[1].end)
    BY <1>3, <1>4, <1>12, EndOfIs DEF Starting
  <2>2. text[c] = text[1] <=> c \in 1..spans[1].end
    BY <1>4, <2>1, OneTurn DEF Starting
  <2>3. spans[1].end \in 1..Len(text)
    BY <1>4, <1>12
  <2>4. CASE n = 1
    BY <1>2, <1>11, <1>13, <2>2, <2>3, <2>4
  <2>5. CASE n # 1
    <3>1. 1 \in 1..(n - 1)
      BY <1>3, <1>8, <2>5
    <3>2. spans[1].end < c
      BY <1>14, <3>1
    <3> QED
      BY <1>2, <2>2, <2>3, <2>5, <3>2
  <2> QED
    BY <2>4, <2>5
<1>20. LargeAt(text, d) <=> text[d].role = "tool" /\ ~(CharsLike(text, text[d]) < LargeToolChars)
  <2>1. LargeToolChars \in Nat
    BY OffloadAssumption
  <2>2. e - d + 1 \in Int
    BY <1>2, <1>7, <1>10
  <2>3. e - d + 1 >= LargeToolChars <=> ~(e - d + 1 < LargeToolChars)
    BY <2>1, <2>2
  <2>4. LargeAt(text, d) <=> text[d].role = "tool" /\ e - d + 1 >= LargeToolChars
    BY Zenon DEF LargeAt, e
  <2> QED
    BY <1>18, <2>3, <2>4, Zenon
<1>21. spans[n].worth <=> n = 1 \/ ~LargeAt(text, d)
  BY <1>8, <1>12
<1>22. spans[n].worth <=> KeepIn(text, text[c])
  BY <1>17, <1>19, <1>20, <1>21, Zenon DEF KeepIn
<1> QED
  BY <1>15, <1>22, Zenon DEF spans
-----------------------------------------------------------------------------
\* The text of a prompt.
LEMMA PromptText ==
    ASSUME NEW p \in Prompts
    PROVE  /\ Joined(p) \in Seq(Char) /\ Len(Joined(p)) >= 1 /\ InTurns(Joined(p))
           /\ Len(Joined(p)) = DecodedLen(p, Len(p)) /\ Len(Joined(p)) \in Nat
<1>1. Len(p) \in Nat /\ Len(p) > 1
  BY PromptTokens
<1>2. Len(p) \in 0..Len(p) /\ 1 \in 1..Len(p)
  BY <1>1
<1>3. /\ Joined(p) \in Seq(Char) /\ Len(Joined(p)) = DecodedLen(p, Len(p))
      /\ Len(Joined(p)) \in Nat
  BY <1>2, DecodedStep
<1>4. DecodedLen(p, 1 - 1) + 1 \in 1..Len(Joined(p))
  BY <1>2, TokenStart
<1>5. Len(Joined(p)) >= 1
  BY <1>3, <1>4
<1>6. InTurns(Joined(p))
  BY OffloadAssumption
<1> QED
  BY <1>3, <1>5, <1>6

\* The spans' ends, in tokens.
TokenEnds(p) ==
    [n \in 1..Len(CharSpans(Joined(p))) |-> TokenBoundary(p, CharSpans(Joined(p))[n].end)]

\* The span that token j belongs to.
TokenSpan(p, j) ==
    CHOOSE n \in 1..Len(TokenEnds(p)) :
        j <= TokenEnds(p)[n] /\ \A m \in 1..(n - 1) : TokenEnds(p)[m] < j

\* The mask, by these.
LEMMA TokenMaskIs ==
    ASSUME NEW p
    PROVE  TokenMask(p) = [j \in 1..Len(p) |-> CharSpans(Joined(p))[TokenSpan(p, j)].worth]
BY Zenon DEF TokenMask, TokenSpan, TokenEnds

\* A span reaches token j, and none before it does.
Reaches(p, j, n) ==
    /\ n \in 1..Len(TokenEnds(p))
    /\ j <= TokenEnds(p)[n]
    /\ \A m \in 1..(n - 1) : TokenEnds(p)[m] < j

\* That span is the one that the token's first character is in.
LEMMA ReachesItsSpan ==
    ASSUME NEW p \in Prompts, NEW j \in 1..Len(p), NEW n
    PROVE  Reaches(p, j, n) <=> SpanAt(Joined(p), DecodedLen(p, j - 1) + 1, n)
<1> DEFINE text == Joined(p)
           spans == CharSpans(text)
           ends == TokenEnds(p)
           before == DecodedLen(p, j - 1)
<1>1. /\ text \in Seq(Char) /\ Len(text) >= 1 /\ Len(text) \in Nat /\ Len(p) \in Nat
      /\ Len(text) = DecodedLen(p, Len(p))
  BY PromptText, PromptTokens
<1>2. before \in Nat
  <2>1. j - 1 \in 0..Len(p)
    BY <1>1
  <2> QED
    BY <2>1, DecodedStep
<1>3. Len(spans) \in Nat /\ \A m \in 1..Len(spans) : spans[m].end \in 1..Len(text)
  BY <1>1, SpanFields
<1>4. Len(ends) = Len(spans) /\ \A m \in 1..Len(spans) : ends[m] = TokenBoundary(p, spans[m].end)
  BY <1>3 DEF TokenEnds
<1> HIDE DEF text, spans, ends, before
<1>5. ASSUME NEW m \in 1..Len(spans)
      PROVE  /\ j <= ends[m] <=> before + 1 <= spans[m].end
             /\ ends[m] < j <=> spans[m].end < before + 1
  <2>1. spans[m].end \in Nat /\ spans[m].end > 0 /\ spans[m].end <= DecodedLen(p, Len(p))
    BY <1>1, <1>3
  <2>2. /\ TokenBoundary(p, spans[m].end) \in 0..Len(p)
        /\ \A i \in 1..Len(p) : i <= TokenBoundary(p, spans[m].end)
                  <=> DecodedLen(p, i - 1) < spans[m].end
    BY <2>1, TokenBoundaryFinds
  <2>3. ends[m] \in Nat /\ (j <= ends[m] <=> before < spans[m].end)
    BY <1>1, <1>4, <2>2 DEF before
  <2> QED
    BY <1>2, <2>1, <2>3
<1>6. ASSUME n \in 1..Len(spans)
      PROVE  /\ j <= ends[n] <=> before + 1 <= spans[n].end
             /\ (\A m \in 1..(n - 1) : ends[m] < j)
                       <=> (\A m \in 1..(n - 1) : spans[m].end < before + 1)
  <2>1. \A m \in 1..(n - 1) : m \in 1..Len(spans)
    BY <1>3, <1>6
  <2>2. \A m \in 1..(n - 1) : ends[m] < j <=> spans[m].end < before + 1
    BY <1>5, <2>1
  <2>3. (\A m \in 1..(n - 1) : ends[m] < j) <=> (\A m \in 1..(n - 1) : spans[m].end < before + 1)
    BY <2>2, Zenon
  <2>4. j <= ends[n] <=> before + 1 <= spans[n].end
    BY <1>5, <1>6
  <2> QED
    BY <2>3, <2>4
<1>7. Reaches(p, j, n) <=> /\ n \in 1..Len(spans) /\ j <= ends[n]
                           /\ \A m \in 1..(n - 1) : ends[m] < j
  BY <1>4, Zenon DEF Reaches, ends
<1>8. SpanAt(text, before + 1, n) <=> /\ n \in 1..Len(spans) /\ before + 1 <= spans[n].end
                                      /\ \A m \in 1..(n - 1) : spans[m].end < before + 1
  BY Zenon DEF SpanAt, spans
<1>9. Reaches(p, j, n) <=> SpanAt(text, before + 1, n)
  BY <1>6, <1>7, <1>8, Zenon
<1> QED
  BY <1>9 DEF text, before

\* So every token is judged by the turn it starts in.
LEMMA TokenJudged ==
    ASSUME NEW p \in Prompts, NEW j \in 1..Len(p)
    PROVE  TokenMask(p)[j] <=> KeepIn(Joined(p), p[j][1])
<1> DEFINE text == Joined(p)
           c == DecodedLen(p, j - 1) + 1
           k == TokenSpan(p, j)
<1>1. text \in Seq(Char) /\ Len(text) >= 1 /\ InTurns(text)
  BY PromptText
<1>2. c \in 1..Len(text) /\ text[c] = p[j][1]
  BY TokenStart
<1>3. \A n : Reaches(p, j, n) <=> SpanAt(text, c, n)
  BY ReachesItsSpan
<1> HIDE DEF text, c
<1>4. PICK n : SpanAt(text, c, n) /\ (CharSpans(text)[n].worth <=> KeepIn(text, text[c]))
  BY <1>1, <1>2, SpanOfChar
<1>5. k = CHOOSE m \in 1..Len(TokenEnds(p)) :
              j <= TokenEnds(p)[m] /\ \A l \in 1..(m - 1) : TokenEnds(p)[l] < j
  BY Zenon DEF TokenSpan
<1> HIDE DEF k
<1>6. Reaches(p, j, k)
  <2>1. Reaches(p, j, n)
    BY <1>3, <1>4
  <2> QED
    BY <1>5, <2>1, Zenon DEF Reaches
<1>7. k = n
  <2>1. SpanAt(text, c, k)
    BY <1>3, <1>6, Zenon
  <2> QED
    BY <1>1, <1>2, <1>4, <2>1, OneSpan
<1>8. TokenMask(p)[j] = CharSpans(text)[k].worth
  BY TokenMaskIs DEF text, k
<1>9. TokenMask(p)[j] <=> KeepIn(text, text[c])
  BY <1>4, <1>7, <1>8, Zenon
<1>10. TokenMask(p)[j] <=> KeepIn(text, p[j][1])
  BY <1>2, <1>9, Zenon
<1> QED
  BY <1>10 DEF text
-----------------------------------------------------------------------------
\* The numbers of S, k further on.
Shifted(k, S) == { k + i : i \in S }

\* They are as many as before.
AsMany(k, S) ==
    IsFiniteSet(S) /\ IsFiniteSet(Shifted(k, S)) /\ Cardinality(Shifted(k, S)) = Cardinality(S)

\* Shifting a set of numbers does not change how many they are.
LEMMA ShiftedCardinality ==
    ASSUME NEW k \in Nat, NEW n \in Nat, NEW S \in SUBSET (1..n)
    PROVE  AsMany(k, S)
<1> DEFINE D == { m \in Nat : \A R \in SUBSET (1..m) : AsMany(k, R) }
<1>1. 0 \in D
  <2>1. \A R \in SUBSET (1..0) : R = {}
    OBVIOUS
  <2>2. Shifted(k, {}) = {} /\ IsFiniteSet({})
    BY FS_EmptySet DEF Shifted
  <2>3. AsMany(k, {})
    BY <2>2, Zenon DEF AsMany
  <2> QED
    BY <2>1, <2>3
<1>2. ASSUME NEW m \in Nat, m \in D PROVE m + 1 \in D
  <2>1. ASSUME NEW R \in SUBSET (1..(m + 1)) PROVE AsMany(k, R)
    <3> DEFINE Q == R \ {m + 1}
               x == m + 1
    <3>1. Q \in SUBSET (1..m) /\ x \notin Q
      OBVIOUS
    <3>2. AsMany(k, Q)
      BY <1>2, <3>1
    <3>3. CASE x \notin R
      <4>1. Q = R
        BY <3>3
      <4> QED
        BY <3>2, <4>1
    <3>4. CASE x \in R
      <4>1. R = Q \cup {x}
        BY <3>4
      <4>2. Shifted(k, R) = Shifted(k, Q) \cup {k + x}
        BY <4>1 DEF Shifted
      <4>3. k + x \notin Shifted(k, Q)
        <5> SUFFICES ASSUME NEW i \in Q, k + x = k + i PROVE FALSE
          BY DEF Shifted
        <5>1. i \in 1..m
          BY <3>1
        <5> QED
          BY <5>1
      <4> HIDE DEF Q, x
      <4>4. \A T, y : IsFiniteSet(T) /\ y \notin T
               => IsFiniteSet(T \cup {y}) /\ Cardinality(T \cup {y}) = Cardinality(T) + 1
        BY FS_AddElement
      <4>5. IsFiniteSet(Q) /\ IsFiniteSet(Shifted(k, Q))
                /\ Cardinality(Shifted(k, Q)) = Cardinality(Q)
        BY <3>2, Zenon DEF AsMany
      <4>6. IsFiniteSet(Q \cup {x}) /\ Cardinality(Q \cup {x}) = Cardinality(Q) + 1
        BY <3>1, <4>4, <4>5, Zenon
      <4>7. /\ IsFiniteSet(Shifted(k, Q) \cup {k + x})
            /\ Cardinality(Shifted(k, Q) \cup {k + x}) = Cardinality(Shifted(k, Q)) + 1
        BY <4>3, <4>4, <4>5, Zenon
      <4> QED
        BY <4>1, <4>2, <4>5, <4>6, <4>7, Zenon DEF AsMany
    <3> QED
      BY <3>3, <3>4
  <2>2. m + 1 \in Nat
    OBVIOUS
  <2> QED
    BY <2>1, <2>2
<1>3. Nat \subseteq D
  <2> HIDE DEF D
  <2> QED
    BY <1>1, <1>2, Induction
<1> QED
  BY <1>3

\* The tokens of a block are the BlockSize tokens behind the blocks before it.
LEMMA BlockIs ==
    ASSUME NEW p \in Prompts, NEW b \in 1..(Len(p) \div BlockSize)
    PROVE  BlockOf(p, b) = { (b - 1) * BlockSize + i : i \in 1..BlockSize }
<1> DEFINE full == Len(p) \div BlockSize
           k == (b - 1) * BlockSize
           last == b * BlockSize
           all == full * BlockSize
<1>1. Len(p) \in Nat /\ BlockSize \in Nat \ {0}
  BY PromptTokens, PrefixCacheAssumption
<1>2. full \in Nat /\ all <= Len(p) /\ all \in Nat
  BY <1>1
<1>3. b - 1 \in Nat /\ b \in Nat /\ b <= full
  <2>1. b \in 1..full
    OBVIOUS
  <2> HIDE DEF full
  <2> QED
    BY <1>2, <2>1
<1>4. k \in Nat /\ last \in Nat /\ last = k + BlockSize
  BY <1>1, <1>3
<1>5. last <= all
  <2>1. \A x, y, z \in Nat : x <= y => x * z <= y * z
    OBVIOUS
  <2> HIDE DEF full
  <2> QED
    BY <1>1, <1>2, <1>3, <2>1
<1> HIDE DEF full, k, last, all
<1>6. ASSUME NEW i \in 1..BlockSize PROVE k + i \in BlockOf(p, b)
  <2>1. (((b - 1) * BlockSize + i) - 1) \div BlockSize = b - 1
    BY <1>1, <1>3, TurnOfRound
  <2>2. (k + i) - 1 = ((b - 1) * BlockSize + i) - 1
    BY DEF k
  <2>3. ((k + i) - 1) \div BlockSize = b - 1
    BY <2>1, <2>2, Zenon
  <2>4. k + i \in 1..Len(p)
    BY <1>1, <1>2, <1>4, <1>5
  <2> QED
    BY <2>3, <2>4, Zenon DEF BlockOf
<1>7. ASSUME NEW j \in BlockOf(p, b) PROVE \E i \in 1..BlockSize : j = k + i
  <2>1. j \in 1..Len(p) /\ (j - 1) \div BlockSize = b - 1
    BY DEF BlockOf
  <2> DEFINE r == (j - 1) % BlockSize
  <2>2. Len(p) * 1 \in Nat /\ j \in 1..(Len(p) * BlockSize)
    <3>1. \A x \in Nat, y \in Nat \ {0} : x <= x * y
      OBVIOUS
    <3>2. Len(p) <= Len(p) * BlockSize /\ Len(p) * BlockSize \in Nat
      BY <1>1, <3>1
    <3> QED
      BY <1>1, <2>1, <3>2
  <2>3. r + 1 \in 1..BlockSize /\ j = ((j - 1) \div BlockSize) * BlockSize + r + 1
    BY <1>1, <2>2, RoundAndTurn
  <2>4. j = (b - 1) * BlockSize + r + 1
    BY <2>1, <2>3, Zenon
  <2>5. r \in Int
    BY <1>1, <2>1
  <2> HIDE DEF r
  <2>6. j = k + (r + 1)
    BY <1>4, <2>4, <2>5 DEF k
  <2> QED
    BY <2>3, <2>6
<1>8. BlockOf(p, b) = { k + i : i \in 1..BlockSize }
  BY <1>6, <1>7
<1> QED
  BY <1>8, Zenon DEF k

\* So they are BlockSize.
LEMMA BlockHasItsSize ==
    ASSUME NEW p \in Prompts, NEW b \in 1..(Len(p) \div BlockSize)
    PROVE  Cardinality(BlockOf(p, b)) = BlockSize
<1> DEFINE k == (b - 1) * BlockSize
<1>1. BlockSize \in Nat \ {0} /\ Len(p) \in Nat
  BY PromptTokens, PrefixCacheAssumption
<1>2. k \in Nat
  <2>1. b - 1 \in Nat
    BY <1>1
  <2> QED
    BY <1>1, <2>1
<1>3. BlockOf(p, b) = Shifted(k, 1..BlockSize)
  BY BlockIs, Zenon DEF Shifted
<1> HIDE DEF k
<1>4. AsMany(k, 1..BlockSize)
  <2>1. 1..BlockSize \in SUBSET (1..BlockSize) /\ BlockSize \in Nat
    BY <1>1
  <2> QED
    BY <1>2, <2>1, ShiftedCardinality
<1>5. Cardinality(1..BlockSize) = BlockSize
  <2>1. \A x, y \in Int : Cardinality(x..y) = IF x > y THEN 0 ELSE y - x + 1
    BY ONLY FS_Interval
  <2> QED
    BY <1>1, <2>1
<1> QED
  BY <1>3, <1>4, <1>5, Zenon DEF AsMany

\* Block b of a mask, by these.
LEMMA BlockMask ==
    ASSUME NEW p \in Prompts, NEW b \in 1..(Len(p) \div BlockSize)
    PROVE  /\ WorthStoringMask(p, Len(p) \div BlockSize)[b]
                <=> 2 * Cardinality({ i \in 1..BlockSize : TokenMask(p)[(b - 1) * BlockSize + i] })
                      >= BlockSize
           /\ WorthStoringMask(p, Len(p) \div BlockSize)[b] <=> BlocksWorth(TokenMask(p))[b]
<1> DEFINE full == Len(p) \div BlockSize
           mask == TokenMask(p)
           per == BlocksWorth(mask)
           judged == 2 * Cardinality({ i \in 1..BlockSize : mask[(b - 1) * BlockSize + i] })
                     >= BlockSize
<1>1. Len(p) \in Nat /\ BlockSize \in Nat \ {0} /\ full \in Nat
  BY PromptTokens, PrefixCacheAssumption
<1>2. Len(mask) = Len(p)
  <2>1. mask = [j \in 1..Len(p) |-> CharSpans(Joined(p))[TokenSpan(p, j)].worth]
    BY TokenMaskIs
  <2> HIDE DEF mask
  <2> QED
    BY <1>1, <2>1
<1> HIDE DEF mask
<1>3. per = [n \in 1..full |->
            2 * Cardinality({ i \in 1..BlockSize : mask[(n - 1) * BlockSize + i] }) >= BlockSize]
  BY <1>2, Zenon DEF BlocksWorth
<1> HIDE DEF full, per
<1>4. b \in 1..full
  BY DEF full
<1>5. per[b] = judged
  BY <1>3, <1>4, Zenon
<1>6. Len(per) = full
  BY <1>1, <1>3
<1>7. ~(b > Len(per))
  BY <1>1, <1>4, <1>6
<1>8. WorthStoringMask(p, full) = [n \in 1..full |-> n > Len(per) \/ per[n]]
  BY Zenon DEF WorthStoringMask, per, mask
<1>9. WorthStoringMask(p, full)[b] = (b > Len(per) \/ per[b])
  BY <1>4, <1>8, Zenon
<1>10. (WorthStoringMask(p, full)[b] <=> judged) /\ (WorthStoringMask(p, full)[b] <=> per[b])
  BY <1>5, <1>7, <1>9, Zenon
<1> QED
  BY <1>10, Zenon DEF full, mask, per

\* A prompt's full block is worth storing when half of its tokens start in
\* turns that are.
LEMMA BlockJudged ==
    ASSUME NEW p \in Prompts, NEW b \in 1..(Len(p) \div BlockSize)
    PROVE  WorthStoringMask(p, Len(p) \div BlockSize)[b]
             <=> 2 * Cardinality({ i \in BlockOf(p, b) : KeepIn(Joined(p), p[i][1]) })
                   >= Cardinality(BlockOf(p, b))
<1> DEFINE k == (b - 1) * BlockSize
           block == BlockOf(p, b)
           S == { i \in 1..BlockSize : TokenMask(p)[k + i] }
           kept == { i \in block : KeepIn(Joined(p), p[i][1]) }
<1>1. BlockSize \in Nat \ {0} /\ Len(p) \in Nat
  BY PromptTokens, PrefixCacheAssumption
<1>2. b - 1 \in Nat
  BY <1>1
<1>3. k \in Nat
  BY <1>1, <1>2
<1>4. block = { k + i : i \in 1..BlockSize }
  BY BlockIs
<1>5. block \subseteq 1..Len(p)
  BY DEF BlockOf
<1> HIDE DEF k, block
<1>6. ASSUME NEW i \in 1..BlockSize
      PROVE  k + i \in block /\ (TokenMask(p)[k + i] <=> KeepIn(Joined(p), p[k + i][1]))
  <2>1. k + i \in block /\ k + i \in 1..Len(p)
    BY <1>4, <1>5
  <2> QED
    BY <2>1, TokenJudged
<1>7. kept = { k + i : i \in S }
  <2>1. ASSUME NEW j \in kept PROVE \E i \in S : j = k + i
    <3>1. j \in block /\ KeepIn(Joined(p), p[j][1])
      BY <2>1
    <3>2. PICK i \in 1..BlockSize : j = k + i
      BY <1>4, <3>1
    <3>3. TokenMask(p)[k + i]
      BY <1>6, <3>1, <3>2, Zenon
    <3> QED
      BY <3>2, <3>3, Zenon
  <2>2. ASSUME NEW i \in S PROVE k + i \in kept
    <3>1. i \in 1..BlockSize /\ TokenMask(p)[k + i]
      BY <2>2, Zenon
    <3> QED
      BY <1>6, <3>1, Zenon
  <2> HIDE DEF S, kept
  <2> QED
    BY <2>1, <2>2
<1>8. S \subseteq 1..BlockSize
  BY Zenon
<1> HIDE DEF S, kept
<1>9. \A n, j \in Nat : \A R \in SUBSET (1..n) : Cardinality(Shifted(j, R)) = Cardinality(R)
  BY ShiftedCardinality DEF AsMany
<1>10. Cardinality(kept) = Cardinality(S)
  <2>1. kept = Shifted(k, S)
    BY <1>7, Zenon DEF Shifted
  <2>2. S \in SUBSET (1..BlockSize) /\ BlockSize \in Nat
    BY <1>1, <1>8
  <2> QED
    BY <1>3, <1>9, <2>1, <2>2, Zenon
<1>11. Cardinality(block) = BlockSize
  BY BlockHasItsSize DEF block
<1>12. WorthStoringMask(p, Len(p) \div BlockSize)[b] <=> 2 * Cardinality(S) >= BlockSize
  BY BlockMask, Zenon DEF S, k
<1>13. WorthStoringMask(p, Len(p) \div BlockSize)[b] <=> 2 * Cardinality(kept) >= Cardinality(block)
  BY <1>10, <1>11, <1>12, Zenon
<1> QED
  BY <1>13 DEF kept, block

\* offload.py:149-162: whatever the prompt, the tokens and the block size, a
\* full block is judged by the turns its tokens start in, each by its length
\* in the whole text, although the spans' token offsets come from a binary
\* search over decoded prefixes.
THEOREM BlocksAreJudgedByTurns == Spec => []BlocksJudgedByTurns
<1>1. TypeOK => BlocksJudgedByTurns
  <2> SUFFICES ASSUME TypeOK PROVE BlocksJudgedByTurns
    OBVIOUS
  <2> DEFINE full == Len(ids) \div BlockSize
  <2>1. ASSUME NEW b \in 1..full
        PROVE  WorthStoringMask(ids, full)[b]
                 <=> 2 * Cardinality({ i \in BlockOf(ids, b) : KeepIn(Joined(ids), ids[i][1]) })
                       >= Cardinality(BlockOf(ids, b))
    <3>1. CASE ids \in Prompts
      BY <3>1, BlockJudged
    <3>2. CASE ids = <<>>
      <4>1. Len(ids) = 0 /\ full = 0
        BY <3>2, PrefixCacheAssumption
      <4> QED
        BY <4>1
    <3> QED
      BY <3>1, <3>2 DEF TypeOK
  <2> QED
    BY <2>1, Zenon DEF BlocksJudgedByTurns, BlockOf, KeepIn, CharsLike
<1> QED
  BY <1>1, TypeCorrect, PTL
-----------------------------------------------------------------------------
\* A first block half of which is the anchor's is worth storing.
LEMMA AnchorIsWorthIt ==
    ASSUME NEW p \in Prompts, Len(p) % BlockSize = 0, Anchored(p)
    PROVE  \E b \in 1..(Len(p) \div BlockSize) : BlocksWorth(TokenMask(p))[b]
<1> DEFINE full == Len(p) \div BlockSize
           block == BlockOf(p, 1)
           anchor == { i \in block : p[i][1] = Joined(p)[1] }
           kept == { i \in block : KeepIn(Joined(p), p[i][1]) }
<1>1. BlockSize \in Nat \ {0} /\ Len(p) \in Nat /\ Len(p) > 1
  BY PromptTokens, PrefixCacheAssumption
<1>2. full \in Nat /\ full >= 1
  <2>1. full \in Nat /\ Len(p) = full * BlockSize
    BY <1>1
  <2> HIDE DEF full
  <2>2. full # 0
    <3> SUFFICES ASSUME full = 0 PROVE FALSE
      OBVIOUS
    <3>1. \A x \in Nat : 0 * x = 0
      OBVIOUS
    <3>2. Len(p) = 0
      BY <1>1, <2>1, <3>1, Zenon
    <3> QED
      BY <1>1, <3>2
  <2> QED
    BY <2>1, <2>2
<1>3. 1 \in 1..full
  <2> HIDE DEF full
  <2> QED
    BY <1>2
<1>4. anchor \subseteq kept /\ kept \subseteq block
  BY DEF KeepIn
<1>5. block \subseteq 1..Len(p)
  BY DEF BlockOf
<1>6. WorthStoringMask(p, full)[1] <=> 2 * Cardinality(kept) >= Cardinality(block)
  BY <1>3, BlockJudged, Zenon
<1>7. Cardinality(block) = BlockSize
  BY <1>3, BlockHasItsSize, Zenon
<1>8. 2 * Cardinality(anchor) >= BlockSize
  BY Zenon DEF Anchored
<1> HIDE DEF anchor, kept, block
<1>9. Cardinality(anchor) <= Cardinality(kept) /\ Cardinality(anchor) \in Nat
          /\ Cardinality(kept) \in Nat
  <2>1. IsFiniteSet(1..Len(p))
    BY <1>1, FS_Interval
  <2>2. kept \in SUBSET (1..Len(p))
    BY <1>4, <1>5
  <2>3. IsFiniteSet(kept)
    BY <2>1, <2>2, FS_Subset
  <2>4. anchor \in SUBSET kept
    BY <1>4
  <2>5. IsFiniteSet(anchor) /\ Cardinality(anchor) <= Cardinality(kept)
    BY <2>3, <2>4, FS_Subset
  <2> QED
    BY <2>3, <2>5, FS_CardinalityType
<1>10. 2 * Cardinality(kept) >= Cardinality(block)
  <2> DEFINE a == Cardinality(anchor)
             c == Cardinality(kept)
  <2>1. a <= c /\ a \in Nat /\ c \in Nat /\ 2 * a >= BlockSize
    BY <1>8, <1>9
  <2> HIDE DEF a, c
  <2>2. 2 * c >= BlockSize
    BY <1>1, <2>1
  <2> QED
    BY <1>7, <2>2, Zenon DEF c
<1>11. WorthStoringMask(p, full)[1]
  BY <1>6, <1>10, Zenon
<1>12. BlocksWorth(TokenMask(p))[1]
  <2>1. WorthStoringMask(p, full)[1] <=> BlocksWorth(TokenMask(p))[1]
    BY <1>3, BlockMask
  <2> QED
    BY <1>11, <2>1, Zenon
<1> QED
  BY <1>3, <1>12, Zenon

\* offload.py:59-82, the anchor's block is always worth it: where the anchor
\* fills half of the first block of every prompt, every prompt that ran is found
\* again, but for those one token longer than a whole number of blocks.
THEOREM AnchorKeepsTheTier ==
    ASSUME \A p \in Prompts : Anchored(p)
    PROVE  Spec => []TierRemembers
<1>1. SomeBlockIsWorthIt
  BY AnchorIsWorthIt DEF SomeBlockIsWorthIt
<1> QED
  BY <1>1, TierNeverForgets
=============================================================================
