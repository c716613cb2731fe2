------------------------------ MODULE LateTail ------------------------------
(***************************************************************************)
(* Under bounded replay the late layers of a prompt forward run on the     *)
(* tail of the batch: the last TailLen rows of every request.  With        *)
(* context parallelism each rank keeps, of batch and tail, the rows it     *)
(* owns.  What the early layers published for the whole batch (candidate   *)
(* masks, selected slots) is cut to the tail, and the ranks' rows are      *)
(* gathered by an index that the tail brings along.  This module asks      *)
(* whether a row of the tail is ever served with another row's data.       *)
(*                                                                         *)
(* A mask or selection is represented by the row it was computed for.      *)
(* late_layer_tail_layout, the interleaving of rows over ranks and the     *)
(* order of the model's layers are external.                               *)
(***************************************************************************)
EXTENDS Integers, Sequences, FiniteSets, SequencesExt

CONSTANTS
    NumRequests,  \* requests of a batch
    MaxRows,      \* bound on a request's rows in a batch
    TailLen,      \* SWA_WINDOW
    CpSizes,      \* sizes of the context-parallel group
    Ratio         \* rows per compressed group

NoRow == <<>>

ASSUME TailAssumption ==
    {NumRequests, MaxRows, TailLen} \subseteq Nat /\ CpSizes \subseteq Nat \ {0}

VARIABLES
    batch,      \* rows of every request of the forward, and the size of the group
    layer,      \* how far the forward is: before its source layer, behind it, on the tail
    masks,      \* candidate_masks of a rank: for each request, the rows it has masks of
    selected,   \* top-k buffers of a rank, of the whole batch and of the tail: a slot's row
    saved       \* what enter_late_layer_tail returned of the masks

tailVars == <<batch, layer, masks, selected, saved>>

Ranks == 0..batch.cp - 1
Requests == 1..NumRequests
RowsOfRequest(b) == [n \in 1..batch.lens[b] |-> <<b, n>>]
AllRows == FlattenSeq([b \in Requests |-> RowsOfRequest(b)])
Owner(i) == (i - 1) % batch.cp

\* The numbers of a set in ascending order, and the elements at some positions.
Ascending(S) == [n \in 1..Cardinality(S) |-> CHOOSE i \in S : Cardinality({k \in S : k <= i}) = n]
Pick(seq, at) == [n \in DOMAIN at |-> seq[at[n]]]

OnRank(r) == Ascending({i \in DOMAIN AllRows : Owner(i) = r})
FullRows(r) == Pick(AllRows, OnRank(r))

(***************************************************************************)
(* The tail: which rows of the batch it has, which of them a rank owns,    *)
(* how many rows a rank must be padded to, and where the gathered blocks   *)
(* hold each row.                                                          *)
(***************************************************************************)
TokenIndices ==
    LET rows == AllRows
    IN  Ascending({i \in DOMAIN rows : rows[i][2] > batch.lens[rows[i][1]] - TailLen})
TailRows == Pick(AllRows, TokenIndices)
LocalTailRows(r) ==
    LET tail == TokenIndices IN Ascending({i \in DOMAIN tail : Owner(tail[i]) = r})
Counts ==
    LET tail == TokenIndices
    IN  [r \in Ranks |-> Cardinality({i \in DOMAIN tail : Owner(tail[i]) = r})]
MaxLocal == Max({Counts[r] : r \in Ranks})

\* Rows of the rank's own buffers (0-based in the code) that are in the tail.
LocalTokenIndices(r) ==
    [n \in DOMAIN LocalTailRows(r) |->
        (TokenIndices[LocalTailRows(r)[n]] - 1 - r) \div batch.cp + 1]
LocalLens(r) ==
    [b \in Requests |-> Cardinality({n \in DOMAIN LocalTailRows(r) :
                                       TailRows[LocalTailRows(r)[n]][1] = b})]
PadRows(r) == MaxLocal - Counts[r]
PadStart[r \in 0..batch.cp] ==
    IF r = 0 THEN Len(TailRows) ELSE PadStart[r - 1] + PadRows(r - 1)
LocalMetadataRows(r) ==
    LocalTailRows(r) \o [n \in 1..PadRows(r) |-> PadStart[r] + n]
GatherIndex ==
    [i \in DOMAIN TailRows |->
        LET r == Owner(TokenIndices[i])
        IN  r * MaxLocal + Cardinality({k \in 1..i : Owner(TokenIndices[k]) = r})]

\* A rank's tail as the late layers see it, padding included.
TailOf(r) == Pick(FullRows(r), LocalTokenIndices(r))
             \o [n \in 1..PadRows(r) |-> NoRow]
Gathered == Pick(FlattenSeq([n \in 1..batch.cp |-> TailOf(n - 1)]), GatherIndex)

\* The rows of one request among these, and whether its newest row sees a group.
OfRequest(rows, b) ==
    Pick(rows, Ascending({n \in DOMAIN rows : rows[n] # NoRow /\ rows[n][1] = b}))
SeesGroups(b) == batch.lens[b] >= Ratio

Untouched(n) == [k \in 1..n |-> NoRow]
Buffers == [r \in Ranks |-> [full |-> Untouched(Len(FullRows(r))), tail |-> Untouched(MaxLocal)]]

-----------------------------------------------------------------------------
BatchLens == [Requests -> 1..MaxRows]

TailInit ==
    /\ batch \in [lens : BatchLens, cp : CpSizes]
    /\ layer = "done"
    /\ masks = [r \in Ranks |-> <<>>]
    /\ selected = [r \in Ranks |-> [full |-> <<>>, tail |-> <<>>]]
    /\ saved = <<>>

(* A forward begins with metadata of its own, and with the masks of the one *)
(* before it.                                                               *)
NewForward(lens) ==
    /\ layer = "done"
    /\ batch' = [batch EXCEPT !.lens = lens]
    /\ selected' = Buffers'
    /\ layer' = "first"
    /\ UNCHANGED <<masks, saved>>

(* The candidate source scores its rank's rows of the batch, publishes one  *)
(* mask per request, empty where there is nothing to score, and writes its  *)
(* top-k.                                                                   *)
Scored(r, b) == IF SeesGroups(b) THEN OfRequest(FullRows(r), b) ELSE <<>>

(* Mutant: a request with nothing to score publishes nothing.               *)
PublishedScored(r) ==
    SelectSeq([b \in Requests |-> Scored(r, b)], LAMBDA rows : rows # <<>>)

Published(r) == [b \in Requests |-> Scored(r, b)]

SourceLayer ==
    /\ layer = "first"
    /\ masks' = [r \in Ranks |-> Published(r)]
    /\ selected' = [r \in Ranks |-> [selected[r] EXCEPT !.full = FullRows(r)]]
    /\ layer' = "scored"
    /\ UNCHANGED <<batch, saved>>

\* The last t rows of a mask; a mask may be empty.
Cut(rows, t) == SubSeq(rows, IF t < Len(rows) THEN Len(rows) - t + 1 ELSE 1, Len(rows))

(* The switch cuts every mask to its request's tail and carries the tail's  *)
(* rows of the top-k buffers over.                                          *)
EnterTail ==
    /\ layer = "scored"
    /\ saved' = masks
    /\ masks' = [r \in Ranks |-> [b \in DOMAIN masks[r] |-> Cut(masks[r][b], LocalLens(r)[b])]]
    /\ selected' = [r \in Ranks |->
          [selected[r] EXCEPT
              !.tail = Pick(selected[r].full, LocalTokenIndices(r))
                       \o SubSeq(@, Counts[r] + 1, MaxLocal)]]
    /\ layer' = "tail"
    /\ UNCHANGED batch

(* The forward leaves the tail with what the whole batch had published.     *)
ExitTail ==
    /\ layer = "tail"
    /\ masks' = saved
    /\ saved' = <<>>
    /\ layer' = "done"
    /\ UNCHANGED <<batch, selected>>

TailNext ==
    \/ \E lens \in BatchLens : NewForward(lens)
    \/ SourceLayer \/ EnterTail \/ ExitTail

TailSpec == TailInit /\ [][TailNext]_tailVars

(* On the tail every rank scores each of its rows under that row's mask and *)
(* attends the slots selected for it; the rows of the ranks, gathered, are  *)
(* the tail in its order, and no two rows share one of the metadata, padding *)
(* included (enter_late_layer_tail, _late_layer_tail_cp_layout).            *)
TailServedWithItsOwn ==
    layer = "tail" =>
        /\ \A r \in Ranks :
              /\ \A b \in Requests : SeesGroups(b) =>
                    b \in DOMAIN masks[r] /\ masks[r][b] = OfRequest(TailOf(r), b)
              /\ selected[r].tail = TailOf(r)
        /\ Gathered = TailRows
        /\ \A r \in Ranks : \A n \in 1..MaxLocal :
              LET at == LocalMetadataRows(r)[n]
              IN  IF n <= Counts[r] THEN TailRows[at] = TailOf(r)[n]
                  ELSE /\ at \in Len(TailRows) + 1..batch.cp * MaxLocal
                       /\ \A q \in Ranks \ {r} : ~Contains(LocalMetadataRows(q), at)
=============================================================================
