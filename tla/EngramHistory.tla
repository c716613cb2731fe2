---------------------------- MODULE EngramHistory ----------------------------
(***************************************************************************)
(* The n-gram hash of engram.py sees, for every token of a forward batch,  *)
(* the token and its N - 1 predecessors.  Predecessors inside the batch are *)
(* read from it; older ones come from a row per request slot that forward  *)
(* and commit_after_verify keep up to date, or from the scheduler.  Slots  *)
(* are reused, batches are padded, drafts are rejected: this module asks   *)
(* whether a token is ever hashed with predecessors that are not its own.  *)
(*                                                                         *)
(* The scheduler is external.  It is assumed to supply the predecessors of *)
(* an extend unless every slot row of the batch is its request's own       *)
(* (init_history: "Extend reads scheduler-provided predecessors after      *)
(* prefix hits or retraction").                                            *)
(***************************************************************************)
EXTENDS Integers, Sequences, FiniteSets, SequencesExt

CONSTANTS
    N,           \* max_ngram_size
    NumSlots,    \* rows of history that belong to request slots
    Words,       \* ordinary token ids, the bound on what a model samples
    ImagePad,    \* an id at or above MM_PAD_SHIFT_VALUE: a piece of an image
    ImageToken,  \* image_token_id, which stands for every such id
    Prompts,     \* the texts requests come with, over Words and ImagePad
    Block,       \* draft_token_num: ids of one verify block
    MaxLen       \* bound on a request's text

\* A row of history is a tensor of N - 1 tokens; a block has its anchor.
ASSUME HistoryAssumption ==
    /\ N \in Nat \ {0} /\ Block \in Nat \ {0} /\ NumSlots \in Nat /\ MaxLen \in Nat
    /\ Prompts \subseteq Seq(Words \cup {ImagePad})

Slots == 0..NumSlots - 1
PadRow == NumSlots
PadId == -1
Free == [text |-> <<>>, done |-> 0, warm |-> FALSE]

VARIABLES
    history,   \* the hasher's table: for each row the last N - 1 tokens, oldest first
    request,   \* the request of a slot: its text, how much of it has been forwarded,
               \* and whether the slot's row was written for it
    verifying, \* the blocks of a target-verify whose drafts are not judged yet
    hashed     \* of the last forward: what each real token was hashed with, and its own n-gram

historyVars == <<history, request, verifying, hashed>>

Canonical(id) == IF id = ImagePad THEN ImageToken ELSE id

(* What a token's n-gram is: itself and its predecessors, as far as the     *)
(* text goes and no image comes between.                                    *)
OwnGram(text, i) ==
    [s \in 0..N - 1 |->
        IF i - s < 1 \/ \E u \in 0..s : Canonical(text[i - u]) = ImageToken
        THEN PadId ELSE text[i - s]]

(* A batch is a sequence of runs: the ids of one request, the position of   *)
(* the first, the request's slot, the predecessors it is given.             *)
Real(s, ids, given) == [slot |-> s, ids |-> ids, position |-> request[s].done,
                        given |-> given, padding |-> FALSE]
Padding(s, ids) == [slot |-> s, ids |-> ids, position |-> 0, given |-> history[s],
                    padding |-> TRUE]
Ids(batch) == FlattenSeq([j \in DOMAIN batch |-> batch[j].ids])
Starts(batch) == [j \in DOMAIN batch |-> Len(Ids(SubSeq(batch, 1, j - 1)))]

(* The predecessor table of a token of run j at this offset: from the batch *)
(* while it lies in the same run, else from the given predecessors.         *)
Tokens(batch, j, offset) ==
    LET ids == Ids(batch)
        t == Starts(batch)[j] + offset + 1
        token(s) == IF s <= offset THEN ids[t - s]
                    ELSE batch[j].given[N - (s - offset)]
    IN  [s \in 0..N - 1 |-> Canonical(token(s))]

(* Look-back stops at the start of the text and at an image.                *)
Blocked(tokens, position) ==
    [s \in 0..N - 1 |-> position < s \/ \E u \in 0..s : tokens[u] = ImageToken]

(* compute_engram_hash_ids hashes the tokens that are not blocked.          *)
Gram(batch, j, offset) ==
    LET tokens == Tokens(batch, j, offset)
        blocked == Blocked(tokens, batch[j].position + offset)
    IN  [s \in 0..N - 1 |-> IF blocked[s] THEN PadId ELSE tokens[s]]

(* What forward keeps of a run: the last N - 1 tokens, oldest first.        *)
LastTokens(batch, j) ==
    LET tokens == Tokens(batch, j, Len(batch[j].ids) - 1)
    IN  [c \in 1..N - 1 |-> tokens[N - 1 - c]]

(* Mutant: padding is committed to the slot it names.                       *)
CommitRowUnpadded(run) == IF run.ids = <<>> THEN PadRow ELSE run.slot

(* The row a run is committed to: padding never reaches a live request.     *)
CommitRow(run) == IF run.padding \/ run.ids = <<>> THEN PadRow ELSE run.slot

(* decode and extend commit in forward.                                     *)
Commit(batch) ==
    [row \in 0..NumSlots |->
        IF \E j \in DOMAIN batch : CommitRow(batch[j]) = row /\ batch[j].ids # <<>>
        THEN LastTokens(batch, CHOOSE j \in DOMAIN batch :
                                   CommitRow(batch[j]) = row /\ batch[j].ids # <<>>)
        ELSE history[row]]

Judge(batch, texts) ==
    UNION {{<<Gram(batch, j, o), OwnGram(texts[batch[j].slot], batch[j].position + o + 1)>> :
               o \in 0..Len(batch[j].ids) - 1} :
            j \in {k \in DOMAIN batch : ~batch[k].padding}}

(* The scheduler's order of a batch, whichever it is.                       *)
Order(S) == SetToSeq(S)
Batch(S, ids, given) == [j \in 1..Cardinality(S) |->
                            Real(Order(S)[j], ids[Order(S)[j]], given[Order(S)[j]])]
Texts == [s \in Slots |-> request[s].text]
SlotRows == [s \in Slots |-> history[s]]
Active == {s \in Slots : request[s] # Free}
Decoding == {s \in Active : request[s].warm /\ request[s].done = Len(request[s].text) - 1}

-----------------------------------------------------------------------------
HistoryInit ==
    /\ history = [row \in 0..NumSlots |-> [c \in 1..N - 1 |-> 0]]
    /\ request = [s \in Slots |-> Free]
    /\ verifying = [s \in {} |-> <<>>]
    /\ hashed = {}

(* A request gets a slot whose row still holds somebody else's tokens.  A   *)
(* prefix hit, or a retraction before, leaves only the rest to be computed. *)
Admit(s) ==
    /\ request[s] = Free
    /\ \E text \in Prompts : \E hit \in 0..Len(text) - 1 :
          request' = [request EXCEPT ![s] = [text |-> text, done |-> hit, warm |-> FALSE]]
    /\ hashed' = {}
    /\ UNCHANGED <<history, verifying>>

Retire(s) ==
    /\ s \in Active /\ s \notin DOMAIN verifying
    /\ request' = [request EXCEPT ![s] = Free]
    /\ hashed' = {}
    /\ UNCHANGED <<history, verifying>>

(* The scheduler's predecessors still carry the ids of image pieces.        *)
Supplied(s) ==
    [c \in 1..N - 1 |-> LET i == request[s].done - (N - 1 - c)
                        IN  IF i >= 1 THEN request[s].text[i] ELSE 0]

(* A forward moved the requests of S on by what was hashed of them; where   *)
(* the text is used up a token was sampled.                                 *)
Advance(S, lens) ==
    LET finishing == {s \in S : request[s].done + lens[s] = Len(request[s].text)}
    IN  \E sampled \in [finishing -> Words] :
            request' = [s \in Slots |->
                IF s \notin S THEN request[s]
                ELSE [text |-> IF s \in finishing THEN Append(request[s].text, sampled[s])
                               ELSE request[s].text,
                      done |-> request[s].done + lens[s], warm |-> TRUE]]

Extend(S, lens, supplied) ==
    LET ids == [s \in S |-> SubSeq(request[s].text, request[s].done + 1,
                                   request[s].done + lens[s])]
        given == IF supplied THEN [s \in S |-> Supplied(s)] ELSE SlotRows
        batch == Batch(S, ids, given)
    IN  /\ verifying = [s \in {} |-> <<>>]
        /\ supplied \/ \A s \in S : request[s].warm \/ request[s].done = 0
        /\ \E alias \in Slots :
              LET padded == Append(batch, Padding(alias, <<>>))
              IN  /\ history' = Commit(padded)
                  /\ hashed' = Judge(padded, Texts)
        /\ Advance(S, lens)
        /\ UNCHANGED verifying

(* The padding rows of a captured graph name a slot that may be in use; the *)
(* scheduler gives them cache location 0.                                   *)
Decode(S) ==
    LET ids == [s \in S |-> <<request[s].text[request[s].done + 1]>>]
        batch == Batch(S, ids, SlotRows)
    IN  /\ verifying = [s \in {} |-> <<>>]
        /\ \E alias \in Slots :
              LET padded == Append(batch, Padding(alias, <<0>>))
              IN  /\ history' = Commit(padded)
                  /\ hashed' = Judge(padded, Texts)
        /\ Advance(S, [s \in S |-> 1])
        /\ UNCHANGED verifying

(* A verify block hashes the anchor and its drafts, and commits nothing.    *)
Verify(S) ==
    /\ verifying = [s \in {} |-> <<>>]
    /\ \E drafts \in [1..Block - 1 -> Words] :
          LET ids == [s \in S |-> <<request[s].text[request[s].done + 1]>> \o drafts]
              batch == Batch(S, ids, SlotRows)
              texts == [s \in Slots |-> IF s \in S THEN SubSeq(request[s].text, 1, request[s].done) \o ids[s]
                                        ELSE <<>>]
          IN  /\ verifying' = ids
              /\ hashed' = Judge(batch, texts)
    /\ UNCHANGED <<history, request>>

(* commit_after_verify keeps the last N - 1 of the old row and the accepted *)
(* part of the block; the bonus token becomes the next anchor.              *)
Window(row, ids, accepted) == [c \in 1..N - 1 |-> (row \o ids)[accepted + c]]

CommitAfterVerify ==
    LET S == DOMAIN verifying
    IN  /\ S # {}
        /\ \E accepted \in [S -> 1..Block], bonus \in [S -> Words] :
              /\ history' = [row \in 0..NumSlots |->
                                IF row \in S THEN Window(history[row], verifying[row], accepted[row])
                                ELSE history[row]]
              /\ request' = [s \in Slots |->
                    IF s \notin S THEN request[s]
                    ELSE [text |-> SubSeq(request[s].text, 1, request[s].done)
                                   \o SubSeq(verifying[s], 1, accepted[s]) \o <<bonus[s]>>,
                          done |-> request[s].done + accepted[s], warm |-> TRUE]]
        /\ verifying' = [s \in {} |-> <<>>]
        /\ hashed' = {}

Fits(s, more) == request[s].done + more < MaxLen

HistoryNext ==
    \/ \E s \in Slots : Admit(s) \/ Retire(s)
    \/ \E S \in (SUBSET Active) \ {{}} : \E lens \in [S -> 1..MaxLen], supplied \in BOOLEAN :
          /\ \A s \in S : request[s].done + lens[s] <= Len(request[s].text) /\ Fits(s, lens[s])
          /\ Extend(S, lens, supplied)
    \/ \E S \in (SUBSET Decoding) \ {{}} : (\A s \in S : Fits(s, 1)) /\ Decode(S)
    \/ \E S \in (SUBSET Decoding) \ {{}} : (\A s \in S : Fits(s, Block)) /\ Verify(S)
    \/ CommitAfterVerify

HistorySpec == HistoryInit /\ [][HistoryNext]_historyVars

-----------------------------------------------------------------------------
(* Every token is hashed with its own predecessors and with no other        *)
(* request's, whatever the slot, the batch, the padding and the rejected    *)
(* drafts before it were.                                                   *)
HashedWithOwnText == \A pair \in hashed : pair[1] = pair[2]
=============================================================================
