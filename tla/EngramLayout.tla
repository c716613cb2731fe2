----------------------------- MODULE EngramLayout -----------------------------
(***************************************************************************)
(* The columns of the hash table: one prime per (layer, n-gram size, head), *)
(* drawn one after the other as EngramLayout.build draws them, each the    *)
(* range of one column of row ids.  The size of the table and the row      *)
(* ranges of the four-rank store are sealed numbers elsewhere, so the      *)
(* question is whether the columns fill exactly the table, and whether a   *)
(* store that passes verify-deepseek-v41-engram-local.py holds every row   *)
(* of its rank's columns.                                                  *)
(***************************************************************************)
EXTENDS Integers, Sequences, FiniteSets, SequencesExt

CONSTANTS
    VocabSize,      \* engram_vocab_size
    MaxNgram,       \* engram_max_ngram_size
    NumHeads,       \* engram_n_heads
    NumEmbeddings,  \* engram_num_embeddings: rows of each layer's table
    TrialBound      \* above the root of every candidate, and above every gap searched

Layers == DOMAIN NumEmbeddings
Columns == (MaxNgram - 1) * NumHeads
StoreRank == 0..3

(* RANGES of the verifier: the reviewed rows of each rank.                  *)
Ranges == << <<0, 96000564, 192001740, 288003654, 384006168>>,
             <<0, 96003054, 192007016, 288011564, 384016682>> >>
RangeOf(layer, rank) == <<Ranges[layer][rank + 1], Ranges[layer][rank + 2]>>

VARIABLES
    primes,   \* all of them in the order they were drawn, or none yet
    store,    \* a rank's store: its marker, and the rows its files hold
    accepted  \* for which rank the verifier accepted the store, or -1

layoutVars == <<primes, store, accepted>>

IsPrime(p) == p > 1 /\ \A d \in 2..TrialBound : d * d > p \/ p % d # 0

(* _find_next_prime: the next prime that no column has yet.                 *)
NextPrime(start, seen) ==
    LET free(c) == c \notin seen /\ IsPrime(c)
    IN  CHOOSE c \in start + 1..start + TrialBound :
            free(c) /\ \A d \in start + 1..c - 1 : ~free(d)

(* A new n-gram size starts over below the vocabulary's end.                *)
Current(drawn) == IF Len(drawn) % NumHeads = 0 THEN VocabSize - 1 ELSE Last(drawn)

(* Mutant: primes are kept apart within a layer only.                       *)
DrawPerLayer(drawn, i) ==
    LET inLayer == (i - 1) % Columns
    IN  Append(drawn, NextPrime(Current(drawn), ToSet(SubSeq(drawn, i - inLayer, i - 1))))

Draw(drawn, i) == Append(drawn, NextPrime(Current(drawn), ToSet(drawn)))

PrimeOf(layer, column) == primes[(layer - 1) * Columns + column]

Offset[layer \in Layers, column \in 1..Columns + 1] ==
    IF column = 1 THEN 0 ELSE Offset[layer, column - 1] + PrimeOf(layer, column - 1)

(* The rows of a column: what a hash modulo its prime, plus its offset, hits. *)
ColumnStart(layer, column) == Offset[layer, column]
ColumnEnd(layer, column) == Offset[layer, column] + PrimeOf(layer, column) - 1

-----------------------------------------------------------------------------
(* A store is described by its marker - the rank it names or Unmarked, and  *)
(* the rank whose row ranges it lists - and for each tensor by the first    *)
(* and last row of its sparse file that are allocated, and whether all      *)
(* between them are (an interrupted or mistaken preparation holds fewer, or *)
(* another rank's).                                                         *)
Unmarked == -1
Tensors == {"weight", "scale"}
LayoutInit == primes = <<>> /\ store = <<>> /\ accepted = -1

Build ==
    /\ primes = <<>>
    /\ primes' = FoldLeft(Draw, <<>>, [i \in 1..Cardinality(Layers) * Columns |-> i])
    /\ UNCHANGED <<store, accepted>>

(* Somebody prepared a store: for one rank, and with one defect or none.    *)
Prepare ==
    /\ primes # <<>> /\ store = <<>>
    /\ \E rank, listed \in StoreRank, marked \in StoreRank \cup {Unmarked},
          hole \in {"none", "first", "middle", "last"}, layer \in Layers, tensor \in Tensors :
          LET first(l) == ColumnStart(l, rank * (Columns \div 4) + 1)
              last(l) == ColumnEnd(l, (rank + 1) * (Columns \div 4))
              lost(l, t, where) == IF l = layer /\ t = tensor /\ hole = where THEN 1 ELSE 0
          IN  store' = [marked |-> marked, listed |-> listed,
                        data |-> [l \in Layers, t \in Tensors |->
                            [first |-> first(l) + lost(l, t, "first"),
                             last |-> last(l) - lost(l, t, "last"),
                             dense |-> lost(l, t, "middle") = 0]]]
    /\ UNCHANGED <<primes, accepted>>

(* require_allocated: no hole in the rows of a range.                       *)
Allocated(layer, tensor, from, to) ==
    LET data == store.data[layer, tensor]
    IN  from < to /\ data.first <= from /\ to - 1 <= data.last /\ data.dense

(* The marker, the reviewed ranges and the allocated extents agree.         *)
VerifyStore(rank) ==
    /\ store # <<>> /\ accepted = -1
    /\ store.marked \in {Unmarked, rank}
    /\ \A layer \in Layers :
          /\ Ranges[layer][5] = NumEmbeddings[layer]
          /\ RangeOf(layer, store.listed) = RangeOf(layer, rank)
          /\ \A tensor \in Tensors :
                Allocated(layer, tensor, RangeOf(layer, rank)[1], RangeOf(layer, rank)[2])
    /\ accepted' = rank
    /\ UNCHANGED <<primes, store>>

LayoutNext == Build \/ Prepare \/ \E rank \in StoreRank : VerifyStore(rank)

LayoutSpec == LayoutInit /\ [][LayoutNext]_layoutVars

-----------------------------------------------------------------------------
(* The primes that build draws fill the table of every layer exactly, so    *)
(* that no id lies outside of it or in another column's rows; and a store   *)
(* that the verifier accepts for a rank holds every row of the rank's       *)
(* columns, of both tensors and layers.  (The size of the table and the     *)
(* reviewed ranges are configured and never compared with the primes.)      *)
StoreHoldsColumns ==
    /\ primes # <<>> => \A layer \in Layers : Offset[layer, Columns + 1] = NumEmbeddings[layer]
    /\ accepted # -1 => \A layer \in Layers, tensor \in Tensors :
          /\ store.data[layer, tensor].dense
          /\ store.data[layer, tensor].first <= ColumnStart(layer, accepted * (Columns \div 4) + 1)
          /\ store.data[layer, tensor].last >= ColumnEnd(layer, (accepted + 1) * (Columns \div 4))
=============================================================================
