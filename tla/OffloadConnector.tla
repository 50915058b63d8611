-------------------------- MODULE OffloadConnector --------------------------
(***************************************************************************)
(* Paging prompts' KV blocks to host RAM (kv/offload_connector.py and      *)
(* kv/offload.py), as experiments/phase4_offload_compare.py drives it: the *)
(* same prompts against a server without and one with the connector.       *)
(*                                                                         *)
(* vLLM asks the scheduler's instance how much of a prompt the host tier   *)
(* holds, allocates, and lets the worker's instance load or store while    *)
(* the prompt runs.  What is announced, loaded and stored is addressed by  *)
(* three prefixes of the same prompt that need not be the same one.        *)
(*                                                                         *)
(* A token is the sequence of its characters, a character is the turn it   *)
(* is rendered from, so a token may straddle two turns.  A key stands for  *)
(* its prefix and for all layers (one pass writes them all, and nothing is *)
(* looked up in between).  Whole prompts are scheduled at once.            *)
(***************************************************************************)
EXTENDS FiniteSets, PrefixCache
LOCAL INSTANCE SequencesExt

CONSTANTS
    Prompts,        \* bound: the prompts the driver may send
    LargeToolChars, \* large_tool_output_chars
    MaxRequests     \* bound: requests per condition

\* A rendering goes through its turns in order.
InTurns(text) ==
    /\ \A i \in 1..Len(text) : text[i].no \in Nat
    /\ \A i, j \in 1..Len(text) :
           i <= j => /\ text[i].no <= text[j].no
                     /\ text[i].no = text[j].no => text[i] = text[j]

ASSUME OffloadAssumption ==
    /\ \A p \in Prompts : p \in Seq(ToSet(p)) /\ Len(p) > 1
    /\ \A p \in Prompts : \A i \in 1..Len(p) : p[i] \in Seq(ToSet(p[i])) /\ Len(p[i]) > 0
    /\ \A p \in Prompts : InTurns(Joined(p))
    /\ LargeToolChars \in Nat /\ MaxRequests \in Nat

VARIABLES
    condition,  \* run_condition's label: "baseline" | "offload" | "compared"
    steps,      \* steps replayed under each condition
    pc,         \* the engine core: "idle" | "matched" | "allocated" | "scheduled"
    ids,        \* the request's prompt_token_ids
    announced,  \* tokens the scheduler takes for computed
    needLoad,   \* _requests_need_load holds the request
    meta,       \* what build_connector_meta ordered: "load" | "store" | "none"
    hostRam,    \* _HOST_RAM: key -> the stored KV is the key's own
    pool,       \* the GPU's prefix cache
    bad,        \* blocks of the pool whose KV is not their prefix's
    served      \* the prompts this server has run

vars == <<condition, steps, pc, ids, announced, needLoad, meta, hostRam, pool, bad, served>>
-----------------------------------------------------------------------------
\* classify_decoded_text: one span per turn, in characters.
CharSpans(text) ==
    LET Starts == { i \in 1..Len(text) : i = 1 \/ text[i].no # text[i - 1].no }
        End(i) == LET after == { j \in Starts : j > i }
                  IN  IF after = {} THEN Len(text)
                      ELSE (CHOOSE j \in after : \A k \in after : j <= k) - 1
        Large(i) == text[i].role = "tool" /\ End(i) - i + 1 >= LargeToolChars
        inOrder == Filter([i \in 1..Len(text) |-> i], Starts)
    IN  [n \in 1..Len(inOrder) |->
            [end |-> End(inOrder[n]), worth |-> n = 1 \/ ~Large(inOrder[n])]]

\* len(decode_fn(token_ids[:k]))
DecodedLen(tokens, k) == Len(Joined(SubSeq(tokens, 1, k)))

\* token_boundary_for_char_offset
TokenBoundary(tokens, offset) ==
    LET search[w \in (0..Len(tokens)) \X (0..Len(tokens))] ==
            LET mid == (w[1] + w[2]) \div 2
            IN  IF w[1] >= w[2] THEN w[1]
                ELSE IF DecodedLen(tokens, mid) < offset
                     THEN search[<<mid + 1, w[2]>>] ELSE search[<<w[1], mid>>]
    IN  IF offset <= 0 THEN 0 ELSE search[<<0, Len(tokens)>>]

\* classify_token_ids and token_worth_offloading_mask: token i belongs to the
\* first span that reaches it.
TokenMask(tokens) ==
    LET chars == CharSpans(Joined(tokens))
        end == [n \in 1..Len(chars) |-> TokenBoundary(tokens, chars[n].end)]
        SpanOf(i) == CHOOSE n \in 1..Len(end) :
                        i <= end[n] /\ \A m \in 1..(n - 1) : end[m] < i
    IN  [i \in 1..Len(tokens) |-> chars[SpanOf(i)].worth]

\* Faulty: a tie does not count.
BlocksWorth_Majority(mask) ==
    [b \in 1..(Len(mask) \div BlockSize) |->
        2 * Cardinality({ i \in 1..BlockSize : mask[(b - 1) * BlockSize + i] }) > BlockSize]

\* blocks_worth_offloading: at least half of a full block's tokens.
BlocksWorth(mask) ==
    [b \in 1..(Len(mask) \div BlockSize) |->
        2 * Cardinality({ i \in 1..BlockSize : mask[(b - 1) * BlockSize + i] }) >= BlockSize]

\* _worth_storing_mask: blocks beyond the last full one count as worth it.
WorthStoringMask(tokens, numBlocks) ==
    LET perBlock == BlocksWorth(TokenMask(tokens))
    IN  [b \in 1..numBlocks |-> b > Len(perBlock) \/ perBlock[b]]
-----------------------------------------------------------------------------
\* _align_to_block_size
Align(n) == ((n - 1) \div BlockSize) * BlockSize

\* num_tokens_to_check: one token is taken off here, another one in Align.
ToCheck(p) == Align(Len(p) - 1)

\* vLLM trims what a request loads or stores with one Align.
Trimmed(p) == SubSeq(p, 1, Align(Len(p)))

\* Faulty: an entry that goes on beyond the looked-up prefix counts as well.
FoundMatch_Longer(p) == \E k \in DOMAIN hostRam : IsPrefix(SubSeq(p, 1, ToCheck(p)), k)

\* _found_match_for_request
FoundMatch(p) == SubSeq(p, 1, ToCheck(p)) \in DOMAIN hostRam

\* The prompt is one token longer than a whole number of blocks: what is
\* looked up is one block shorter than what is loaded or stored.
OneAbove(p) == ToCheck(p) # Len(Trimmed(p))

Hit == HitBlocks(pool, ids)

Connected == condition = "offload"

Init ==
    /\ condition = "baseline"
    /\ steps = [baseline |-> 0, offload |-> 0]
    /\ pc = "idle" /\ ids = <<>> /\ announced = 0 /\ needLoad = FALSE /\ meta = "none"
    /\ hostRam = <<>> /\ pool = <<>> /\ bad = {} /\ served = {}

\* generate_step sends a prompt; the scheduler asks its connector instance.
\* The answer is added to what the GPU already holds, also when negative.
GetNumNewMatchedTokens ==
    /\ pc = "idle"
    /\ \/ condition = "baseline" /\ steps.baseline < MaxRequests
       \/ condition = "offload" /\ steps.offload < steps.baseline
    /\ ids' \in Prompts
    /\ announced' = IF Connected /\ FoundMatch(ids') THEN ToCheck(ids')
                    ELSE CachedTokens(pool, ids')
    /\ pc' = "matched"
    /\ UNCHANGED <<condition, steps, needLoad, meta, hostRam, pool, bad, served>>

\* update_state_after_alloc: num_external_tokens > 0
UpdateStateAfterAlloc ==
    /\ pc = "matched"
    /\ needLoad' = (announced > Hit * BlockSize)
    /\ pc' = "allocated"
    /\ UNCHANGED <<condition, steps, ids, announced, meta, hostRam, pool, bad, served>>

\* Faulty: only a prompt all of whose blocks are worth it is stored.
WorthStoring_All(p) ==
    LET numBlocks == (Len(p) + BlockSize - 1) \div BlockSize
    IN  ~FoundMatch(p) /\ \A b \in 1..numBlocks : WorthStoringMask(p, numBlocks)[b]

\* No match, and at least one block is worth it: then all of them are stored.
WorthStoring(p) ==
    LET numBlocks == (Len(p) + BlockSize - 1) \div BlockSize
    IN  ~FoundMatch(p) /\ \E b \in 1..numBlocks : WorthStoringMask(p, numBlocks)[b]

BuildConnectorMeta ==
    /\ pc = "allocated"
    /\ meta' = CASE needLoad -> "load"
                 [] Connected /\ ~needLoad /\ WorthStoring(ids) -> "store"
                 [] OTHER -> "none"
    /\ needLoad' = FALSE
    /\ pc' = "scheduled"
    /\ UNCHANGED <<condition, steps, ids, announced, hostRam, pool, bad, served>>

\* start_load_kv: a key that is not there is skipped without a word.
Injected == meta = "load" /\ Trimmed(ids) \in DOMAIN hostRam

\* Leading blocks of the prompt whose KV is right once it has run: up to the
\* first block that was reused wrongly, or announced and never loaded.
GoodBlocks ==
    LET blocks == Len(ids) \div BlockSize
        start == announced \div BlockSize
        reused == IF Hit < start THEN Hit ELSE start
        wrong == { n \in 1..reused : Block(ids, n) \in bad }
    IN  CASE Injected -> IF hostRam[Trimmed(ids)] THEN blocks ELSE 0
          [] ~Injected /\ wrong # {} -> (CHOOSE n \in wrong : \A k \in wrong : n <= k) - 1
          [] ~Injected /\ wrong = {} /\ start > Hit -> Hit
          [] OTHER -> blocks

\* Faulty: the key covers the last, partial block.
Saved_WholePrompt(p, good) ==
    [k \in DOMAIN hostRam \cup {p} |-> IF k = p THEN good ELSE hostRam[k]]

\* save_kv_layer, for every layer: the KV goes under the prompt's own key,
\* whatever it was computed from.
Saved(p, good) ==
    [k \in DOMAIN hostRam \cup {Trimmed(p)} |-> IF k = Trimmed(p) THEN good ELSE hostRam[k]]

\* The forward pass: load, compute the rest, store; the blocks enter the GPU's
\* prefix cache under their prefixes.
RunRequest ==
    /\ pc = "scheduled"
    /\ hostRam' = IF meta = "store"
                  THEN Saved(ids, GoodBlocks * BlockSize >= Len(Trimmed(ids)))
                  ELSE hostRam
    /\ pool' = Served(pool, ids)
    /\ bad' = { b \in (bad \ Range(FullBlocks(ids)))
                      \cup { Block(ids, n) : n \in (GoodBlocks + 1)..(Len(ids) \div BlockSize) } :
                  Contains(pool', b) }
    /\ served' = served \cup {ids}
    /\ steps' = [steps EXCEPT ![condition] = @ + 1]
    /\ pc' = "idle" /\ meta' = "none"
    /\ UNCHANGED <<condition, ids, announced, needLoad>>

\* run_condition ends: its server goes, host RAM with it, and the second
\* condition replays the same trajectories on a new one.
NextCondition ==
    /\ pc = "idle"
    /\ \/ condition = "baseline" /\ steps.baseline > 0 /\ condition' = "offload"
       \/ condition = "offload" /\ steps.offload = steps.baseline /\ condition' = "compared"
    /\ hostRam' = <<>> /\ pool' = <<>> /\ bad' = {} /\ served' = {}
    /\ ids' = <<>> /\ announced' = 0
    /\ UNCHANGED <<steps, pc, needLoad, meta>>

Next ==
    \/ GetNumNewMatchedTokens \/ UpdateStateAfterAlloc \/ BuildConnectorMeta
    \/ RunRequest \/ NextCondition

Spec == Init /\ [][Next]_vars
-----------------------------------------------------------------------------
TypeOK ==
    /\ condition \in {"baseline", "offload", "compared"}
    /\ steps \in [{"baseline", "offload"} -> 0..MaxRequests]
    /\ steps.offload <= steps.baseline
    /\ pc \in {"idle", "matched", "allocated", "scheduled"}
    /\ ids \in Prompts \cup {<<>>}
    /\ announced \in 0..Len(ids)
    /\ needLoad => pc = "allocated"
    /\ meta \in {"load", "store", "none"}
    /\ \A k \in DOMAIN hostRam : Len(k) % BlockSize = 0 /\ hostRam[k] \in BOOLEAN
    /\ Len(pool) <= Capacity
    /\ served \subseteq Prompts
    /\ condition = "baseline" => hostRam = <<>>

\* offload_connector.py:180-187, "tokens available": what the scheduler is
\* told to take for computed really is there, so no block, of the GPU or of
\* host RAM, ever holds KV that is not its own.  It is so as long as no prompt
\* is one token longer than a whole number of blocks; such a prompt announces
\* one key and loads another, and what it leaves behind spreads.
OnlyOneAboveGoesWrong ==
    bad # {} \/ (\E k \in DOMAIN hostRam : ~hostRam[k])
        => \E p \in served : OneAbove(p)

\* offload.py:1-3, "page them to host RAM": a prompt that ran is found when it
\* is sent again, whatever the GPU evicted and whatever ran in between: the
\* connector never stores by halves and never skips one.  A prompt one token
\* longer than a whole number of blocks is left out: it is stored, and a lookup
\* asks for the key of a block less (offload_connector.py:206-207, :231-239).
TierRemembers ==
    Connected => \A p \in served : ~OneAbove(p) => FoundMatch(p)

\* Every prompt has a block that is worth storing: one that ends in a partial
\* block has (that block always is), the others need it of their turns, as the
\* anchor gives them when it fills half of the first block.
SomeBlockIsWorthIt ==
    \A p \in Prompts : Len(p) % BlockSize = 0 =>
        \E b \in 1..(Len(p) \div BlockSize) : BlocksWorth(TokenMask(p))[b]

\* The tokens of block b.
BlockOf(p, b) == { i \in 1..Len(p) : (i - 1) \div BlockSize = b - 1 }

\* They do when the first turn, the anchor, fills half of the first block.
Anchored(p) == 2 * Cardinality({ i \in BlockOf(p, 1) : p[i][1] = Joined(p)[1] }) >= BlockSize

\* offload.py:149-162: every full block is judged by the turns its tokens
\* start in, each turn by its length in the whole text, although the spans are
\* found by a binary search over decoded prefixes and tokens straddle turns.
BlocksJudgedByTurns ==
    LET text == Joined(ids)
        Chars(t) == Cardinality({ i \in 1..Len(text) : text[i] = t })
        Keep(t) == t = text[1] \/ t.role # "tool" \/ Chars(t) < LargeToolChars
        full == Len(ids) \div BlockSize
        mask == WorthStoringMask(ids, full)
    IN  \A b \in 1..full :
            mask[b] <=> 2 * Cardinality({ i \in BlockOf(ids, b) : Keep(ids[i][1]) })
                          >= Cardinality(BlockOf(ids, b))
=============================================================================
