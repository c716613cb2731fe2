---------------------------- MODULE PairCompress ----------------------------
(***************************************************************************)
(* The layers of compress ratio 2 of deepseek_v4_backend.py attend through *)
(* one latent per pair of tokens.  A pair is written when its second token *)
(* is forwarded; the first comes from the same batch or from a ring of the *)
(* last positions that every request slot keeps.  Chunks of a prompt may   *)
(* end between the two tokens of a pair, batches are padded, drafts are    *)
(* rejected, slots and pages are reused: does a row ever attend a latent   *)
(* that is not of its own request's own two tokens?                        *)
(*                                                                         *)
(* A latent is the pair of tokens it was pooled from, and a token is where *)
(* it was first forwarded, so that no two are taken for each other.        *)
(* Scores are not modelled: a row may select any group that is visible to  *)
(* it.  Scheduler, page allocator and prefix cache are external: a page    *)
(* belongs to one request or to requests with that page's text in common.  *)
(***************************************************************************)
EXTENDS Integers, Sequences, FiniteSets, SequencesExt

CONSTANTS
    NumLanes,   \* request slots of req_to_token
    PageSize,   \* tokens per page of the full pool
    IndexPage,  \* latents per page of the indexer's key pool
    NumPages,   \* pages besides page 0, which takes the writes that must not matter
    RingSize,   \* positions a lane's ring holds
    DraftLen,   \* speculative_num_draft_tokens
    MaxTokens,  \* bound on a request's tokens
    MaxChunk,   \* bound on a chunk of a prompt
    MaxPad,     \* bound on padding rows of a batch
    MaxBlocks,  \* bound on the blocks of drafts of a slot
    MaxLives    \* bound on the requests that leave a slot

Lanes == 0..NumLanes - 1
Pages == 1..NumPages
NoLatent == <<>>
NoToken == <<>>
Unordered == <<-1>>      \* two writers without an order

(* The ring holds a whole block of drafts; pages hold whole pairs and whole *)
(* index pages (the assertion of _expand_index_page_table).                 *)
ASSUME CompressAssumption ==
    /\ {NumLanes, PageSize, IndexPage} \subseteq Nat \ {0}
    /\ {NumPages, RingSize, DraftLen, MaxTokens, MaxChunk, MaxPad, MaxBlocks, MaxLives} \subseteq Nat
    /\ RingSize >= DraftLen /\ DraftLen > 1
    /\ PageSize % 2 = 0 /\ (PageSize \div 2) % IndexPage = 0

VARIABLES
    lane,      \* the request of a slot: its tokens that stand, its pages, and how many
               \* requests and blocks of drafts the slot has had, which tell tokens apart
    drafts,    \* tokens of the last target-verify that are not judged yet
    ring,      \* the compressor's state: per lane, the token last kept at a position modulo RingSize
    latent     \* the compressed cache: by slot, the two tokens a latent is of

compressVars == <<lane, drafts, ring, latent>>

\* The next tokens of a lane.
New(l, n) ==
    [i \in 1..n |-> <<l, lane[l].life, lane[l].block, Len(lane[l].tokens) + i - 1>>]
Serving == {l \in Lanes : lane[l].tokens # <<>>}
Judged == \A l \in Lanes : drafts[l] = <<>>
FreePages == Pages \ UNION {Range(lane[l].pages) : l \in Lanes}

\* req_to_token of a lane: where a position lies in the full pool.
Loc(pages, pos) == pages[pos \div PageSize + 1] * PageSize + (pos % PageSize)

(***************************************************************************)
(* A batch is a sequence of rows, request after request, padding last.     *)
(* Padding repeats lane 0 at location 0.                                   *)
(***************************************************************************)
Padded == [lane |-> 0, pos |-> 0, token |-> NoToken, loc |-> 0]
IsPad(row) == row.loc = 0

RowsOf(l, pages, new) ==
    [i \in DOMAIN new |->
        LET pos == Len(lane[l].tokens) + i - 1
        IN  [lane |-> l, pos |-> pos, token |-> new[i], loc |-> Loc(pages, pos)]]

(* The slot a row's latent goes to: the second token of a pair completes it. *)
OutLoc(row) == IF (row.pos + 1) % 2 = 0 THEN row.loc \div 2 ELSE -1

(* The token before a row: its neighbour in the batch when that is the same *)
(* request's, else what the ring holds.                                      *)
InBatch(rows, i) ==
    /\ i > 1
    /\ rows[i].lane = rows[i - 1].lane /\ rows[i].pos = rows[i - 1].pos + 1
    /\ ~IsPad(rows[i]) /\ ~IsPad(rows[i - 1])

Partner(rows, i) ==
    IF InBatch(rows, i) THEN rows[i - 1].token
    ELSE ring[rows[i].lane][(rows[i].pos - 1) % RingSize]

(* A row is kept unless a later row of its request takes the same place.    *)
(* Mutant: the row a ring further on counts although it is padding.         *)
KeptUnlessLane(rows, i) ==
    /\ ~IsPad(rows[i])
    /\ i + RingSize <= Len(rows) => rows[i].lane # rows[i + RingSize].lane

Kept(rows, i) ==
    /\ ~IsPad(rows[i])
    /\ i + RingSize <= Len(rows) =>
          rows[i].lane # rows[i + RingSize].lane \/ IsPad(rows[i + RingSize])

RingAfter(rows) ==
    [l \in Lanes |-> [at \in 0..RingSize - 1 |->
        LET writers == {i \in DOMAIN rows :
                          Kept(rows, i) /\ rows[i].lane = l /\ rows[i].pos % RingSize = at}
        IN  IF writers = {} THEN ring[l][at]
            ELSE IF Cardinality(writers) > 1 THEN Unordered
            ELSE rows[CHOOSE i \in writers : TRUE].token]]

(* Slot 0 takes what completes no pair.                                     *)
LatentAfter(rows) ==
    [slot \in DOMAIN latent |->
        LET writers == {i \in DOMAIN rows : OutLoc(rows[i]) = slot}
        IN  IF slot = 0 \/ writers = {} THEN latent[slot]
            ELSE LET i == CHOOSE i \in writers : TRUE
                 IN  <<Partner(rows, i), rows[i].token>>]

(* Every read of the ring precedes every write of the batch.                *)
Forward(rows) ==
    /\ latent' = LatentAfter(rows)
    /\ ring' = RingAfter(rows)

(***************************************************************************)
(* What the newest row of a request attends for the group j it selects;    *)
(* the rows before it attend part of the same.                             *)
(***************************************************************************)
Known(l) == lane[l].tokens \o drafts[l]
Visible(l) == Len(Known(l)) \div 2

\* From req_to_token, a request at a time.
SlotByToken(l, j) == Loc(lane[l].pages, 2 * j) \div 2

\* From one sequence that holds the groups of every request of the batch.
GroupsOf(S) ==
    [n \in 1..NumLanes |->
        IF n - 1 \in S THEN [g \in 1..Visible(n - 1) |-> SlotByToken(n - 1, g - 1)] ELSE <<>>]
SlotInBatch(S, l, j) ==
    LET start[m \in Lanes] == IF m = 0 THEN 0 ELSE start[m - 1] + Len(GroupsOf(S)[m])
    IN  FlattenSeq(GroupsOf(S))[start[l] + j + 1]

\* From the page table, whose pages are cut into pages of the index pool.
Expanded(pages) ==
    LET blocks == (PageSize \div 2) \div IndexPage
    IN  [n \in 1..Len(pages) * blocks |->
            pages[(n - 1) \div blocks + 1] * blocks + ((n - 1) % blocks)]
SlotByTable(l, j) ==
    Expanded(lane[l].pages)[j \div IndexPage + 1] * IndexPage + (j % IndexPage)

-----------------------------------------------------------------------------
CompressInit ==
    /\ lane = [l \in Lanes |-> [tokens |-> <<>>, pages |-> <<>>, life |-> 0, block |-> 0]]
    /\ drafts = [l \in Lanes |-> <<>>]
    /\ ring = [l \in Lanes |-> [at \in 0..RingSize - 1 |-> NoToken]]
    /\ latent = [slot \in 0..(NumPages + 1) * (PageSize \div 2) - 1 |-> NoLatent]

PageCount(n) == (n + PageSize - 1) \div PageSize

\* The lanes' pages when these tokens have joined: free ones are added, each to one lane.
PagesFor(S, new) ==
    LET old(l) == lane[l].pages
        all(l) == PageCount(Len(lane[l].tokens) + Len(new[l]))
    IN  {pages \in [S -> UNION {[1..all(l) -> Pages] : l \in S}] :
            /\ \A l \in S : /\ Len(pages[l]) = all(l)
                            /\ SubSeq(pages[l], 1, Len(old(l))) = old(l)
            /\ \A l, m \in S : \A i \in Len(old(l)) + 1..Len(pages[l]) :
                  /\ pages[l][i] \in FreePages
                  /\ \A k \in Len(old(m)) + 1..Len(pages[m]) :
                        pages[l][i] = pages[m][k] => l = m /\ i = k}

Fitting(S, new) == \A l \in S : Len(lane[l].tokens) + Len(new[l]) <= MaxTokens

BatchRows(S, pages, new, pads) ==
    FlattenSeq([n \in 1..NumLanes |->
                   IF n - 1 \in S THEN RowsOf(n - 1, pages[n - 1], new[n - 1]) ELSE <<>>])
    \o [n \in 1..pads |-> Padded]

(* A prompt that begins with whole pages of another request shares them.    *)
Share(l, q, n) ==
    /\ Judged /\ l \notin Serving
    /\ n * PageSize <= Len(lane[q].tokens)
    /\ lane' = [lane EXCEPT ![l].tokens = SubSeq(lane[q].tokens, 1, n * PageSize),
                            ![l].pages = SubSeq(lane[q].pages, 1, n)]
    /\ UNCHANGED <<drafts, ring, latent>>

Join(S, pages, new, pads) ==
    /\ lane' = [l \in Lanes |->
          IF l \in S THEN [lane[l] EXCEPT !.tokens = @ \o new[l], !.pages = pages[l]]
          ELSE lane[l]]
    /\ Forward(BatchRows(S, pages, new, pads))
    /\ UNCHANGED drafts

(* A chunk of a prompt for some requests.                                   *)
Prefill(S, new, pads) ==
    /\ Judged /\ Fitting(S, new)
    /\ \E pages \in PagesFor(S, new) : Join(S, pages, new, pads)

(* One token for every request that is being served.                        *)
DecodeRow(new, pads) ==
    /\ Judged /\ Serving # {} /\ Fitting(Serving, new)
    /\ \E pages \in PagesFor(Serving, new) : Join(Serving, pages, new, pads)

(* A block of drafts for every request.                                     *)
VerifyBlock(new, pads) ==
    /\ Judged /\ Serving # {} /\ Fitting(Serving, new)
    /\ \A l \in Serving : lane[l].block < MaxBlocks
    /\ \E pages \in PagesFor(Serving, new) :
          /\ lane' = [l \in Lanes |-> IF l \in Serving THEN [lane[l] EXCEPT !.pages = pages[l]]
                                      ELSE lane[l]]
          /\ Forward(BatchRows(Serving, pages, new, pads))
    /\ drafts' = [l \in Lanes |-> IF l \in Serving THEN new[l] ELSE <<>>]

(* The sampler keeps at least one token of every block; pages behind the    *)
(* last token that stands go back.                                          *)
Judgement(accepted) ==
    /\ ~Judged
    /\ \A l \in Lanes : IF drafts[l] = <<>> THEN accepted[l] = 0
                        ELSE accepted[l] \in 1..Len(drafts[l])
    /\ lane' = [l \in Lanes |->
          LET tokens == lane[l].tokens \o SubSeq(drafts[l], 1, accepted[l])
          IN  [lane[l] EXCEPT
                  !.tokens = tokens, !.block = @ + 1,
                  !.pages = SubSeq(@, 1, PageCount(Len(tokens)))]]
    /\ drafts' = [l \in Lanes |-> <<>>]
    /\ UNCHANGED <<ring, latent>>

(* A request ends, or is retracted: its slot and pages are free, nothing is cleared. *)
Vacate(l) ==
    /\ Judged /\ l \in Serving /\ lane[l].life < MaxLives
    /\ lane' = [lane EXCEPT ![l].tokens = <<>>, ![l].pages = <<>>, ![l].life = @ + 1]
    /\ UNCHANGED <<drafts, ring, latent>>

CompressNext ==
    \/ \E l, q \in Lanes, n \in 1..MaxTokens \div PageSize : Share(l, q, n)
    \/ \E pads \in 0..MaxPad : DecodeRow([l \in Serving |-> New(l, 1)], pads)
    \/ \E S \in (SUBSET Lanes) \ {{}}, pads \in 0..MaxPad :
          \E chunk \in [S -> 1..MaxChunk] : Prefill(S, [l \in S |-> New(l, chunk[l])], pads)
    \/ \E pads \in 0..MaxPad : VerifyBlock([l \in Serving |-> New(l, DraftLen)], pads)
    \/ \E accepted \in [Lanes -> 0..DraftLen] : Judgement(accepted)
    \/ \E l \in Lanes : Vacate(l)

CompressSpec == CompressInit /\ [][CompressNext]_compressVars

(* Whichever way the indexer addresses the groups that are visible to a     *)
(* row, each is the latent of its own request's own two tokens there: a     *)
(* pair cut by a chunk boundary, a rejected draft, a padding row, or an     *)
(* earlier owner of the slot or page leaves no trace                        *)
(* (_low_ratio_pair_partners, _low_ratio_index_topk).                     *)
EveryRowAttendsOwnPairs ==
    \A S \in SUBSET Serving : \A l \in S : \A j \in 0..Visible(l) - 1 :
        \A slot \in {SlotByToken(l, j), SlotInBatch(S, l, j), SlotByTable(l, j)} :
            latent[slot] = <<Known(l)[2 * j + 1], Known(l)[2 * j + 2]>>
=============================================================================
