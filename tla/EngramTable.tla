----------------------------- MODULE EngramTable -----------------------------
(***************************************************************************)
(* One hash table of engram.py over the ranks of a tensor-parallel group:  *)
(* the rows are divided, every rank loads its own, and a lookup gathers a  *)
(* row from whoever has it.  The table is in device memory, in one shared  *)
(* memfd of the node, or in private host shards; its rows come from the    *)
(* checkpoint or from the rank's sparse local copy.                        *)
(*                                                                         *)
(* A row's content is its number + 1, what is not loaded is Nothing, and   *)
(* the sum of an all-reduce is told apart only as far as needed: one row   *)
(* and zeros give the row, anything else is Mixed.                         *)
(***************************************************************************)
EXTENDS Integers, Sequences, SequencesExt

CONSTANTS
    NumRows,   \* rows of the table
    TP,        \* ranks of the group
    Layouts,   \* of "device", "shared", "private": what the environment may ask for
    LocalRows, \* for each rank the rows its sparse local store holds
    MaxIds     \* bound on the ids one data-parallel rank looks up at a time

Rank == 0..TP - 1
Row == 0..NumRows - 1

RowStart(r) == (NumRows * r) \div TP
OwnedRows(r) == RowStart(r)..RowStart(r + 1) - 1

ASSUME GroupAssumption ==
    /\ NumRows \in Nat \ {0} /\ TP \in Nat \ {0} /\ MaxIds \in Nat
    /\ Layouts \subseteq {"device", "shared", "private"}
(* Nothing compares a local store with the rows its rank loads: the stores  *)
(* the verifier accepts end where columns end (EngramLayout), the rows of a *)
(* rank where the even split puts them.                                     *)
ASSUME StoreAssumption == LocalRows \in [Rank -> SUBSET Row]

Checkpoint(i) == i + 1
Nothing == -1
Mixed == -2
Tensor == {"weight", "scale"}

VARIABLES
    tables,  \* the layout of the table, and whether rows come from local stores
    stage,   \* how far a rank is, or "dead"
    memory,  \* the tensors a rank can read, by row; a shared table is every rank's
    answers  \* what the last lookup returned to each rank, with what it asked for

tableVars == <<tables, stage, memory, answers>>

Shared == tables.layout = "shared"
Steps == <<"new", "opened", "attached", "weights", "loaded", "serving">>
Reached(r, s) ==
    \E i, j \in DOMAIN Steps : Steps[i] = s /\ Steps[j] = stage[r] /\ i <= j
Go(r, from, to) == stage[r] = from /\ stage' = [stage EXCEPT ![r] = to]
Everybody(s) == \A r \in Rank : Reached(r, s)

TableInit ==
    /\ tables \in [layout : Layouts, local : BOOLEAN]
    /\ stage = [r \in Rank |-> "new"]
    /\ memory = [r \in Rank |-> [t \in Tensor |-> [i \in Row |-> Nothing]]]
    /\ answers = <<>>

(* Rank 0 creates the memfd and tells the others where it is; they open it  *)
(* through /proc, which needs rank 0 to be alive.                           *)
Open(r) ==
    /\ Go(r, "new", "opened")
    /\ Shared /\ r # 0 => Reached(0, "opened")
    /\ UNCHANGED <<tables, memory, answers>>

(* "Every rank holds the fd before rank 0 continues."                       *)
Attach(r) ==
    /\ Go(r, "opened", "attached")
    /\ Shared => Everybody("opened")
    /\ UNCHANGED <<tables, memory, answers>>

(* What the iterator yields: the tensor of the checkpoint, or of the local  *)
(* store, whose holes read as zeros.                                        *)
Source(r, i) == IF tables.local /\ i \notin LocalRows[r] THEN 0 ELSE Checkpoint(i)

(* A rank writes its own range, of its shard or of the shared table.        *)
LoadRows(r, t) ==
    memory' = [q \in Rank |->
        IF q = r \/ Shared
        THEN [memory[q] EXCEPT ![t] = [i \in Row |->
                 IF i \in OwnedRows(r) THEN Source(r, i) ELSE memory[q][t][i]]]
        ELSE memory[q]]

LoadWeight(r) == Go(r, "attached", "weights") /\ LoadRows(r, "weight") /\ UNCHANGED <<tables, answers>>
LoadScale(r) == Go(r, "weights", "loaded") /\ LoadRows(r, "scale") /\ UNCHANGED <<tables, answers>>

(* Mutant: the shared table needs no barrier.                               *)
FinishLoadAlone(r) ==
    /\ Go(r, "loaded", "serving")
    /\ UNCHANGED <<tables, memory, answers>>

(* finish_load: behind its barrier every row of a shared table is there.    *)
FinishLoad(r) ==
    /\ Go(r, "loaded", "serving")
    /\ Shared => Everybody("loaded")
    /\ UNCHANGED <<tables, memory, answers>>

(* A local store that does not match the checkpoint, a mapping that is      *)
(* refused, or a kill; a collective the rank would join never ends then.    *)
Die(r) ==
    /\ stage[r] # "dead"
    /\ stage' = [stage EXCEPT ![r] = "dead"]
    /\ UNCHANGED <<tables, memory, answers>>

-----------------------------------------------------------------------------
(* A row dequantized from what rank r can read.                             *)
Read(r, i) ==
    IF memory[r]["weight"][i] = Nothing \/ memory[r]["scale"][i] = Nothing THEN Nothing
    ELSE memory[r]["weight"][i]

(* The rows of a rank's shard, zero for the rest.                           *)
OwnedValue(r, i) == IF i \in OwnedRows(r) THEN Read(r, i) ELSE 0

AllReduce(i) ==
    IF \A r \in Rank : OwnedValue(r, i) = 0 THEN 0
    ELSE IF \E r \in Rank : \A q \in Rank : q # r => OwnedValue(q, i) = 0
    THEN OwnedValue(CHOOSE r \in Rank : OwnedValue(r, i) # 0, i)
    ELSE Mixed

(* Every rank of the group holds the same ids, or the whole context-parallel *)
(* group gathered them: with them known to all, one all-reduce a row.       *)
Answer(r, ids) ==
    [k \in DOMAIN ids |-> IF Shared THEN Read(r, ids[k]) ELSE AllReduce(ids[k])]

(* Lookup where the ranks have the same ids (groups = 1) or where each of   *)
(* several data- or context-parallel groups has its own: everybody looks up *)
(* the gathered ids, also a group without tokens, and keeps its slice.      *)
SliceStart(batch, g) == Len(FlattenSeq(SubSeq(batch, 1, g - 1)))
GroupOf(r, groups) == (r * groups) \div TP + 1
Slice(r, batch) ==
    LET all == FlattenSeq(batch)
        g == GroupOf(r, Len(batch))
    IN  IF Shared THEN Answer(r, batch[g])
        ELSE SubSeq(Answer(r, all), SliceStart(batch, g) + 1, SliceStart(batch, g) + Len(batch[g]))

(* A shared table answers a rank alone; the others need every rank.         *)
Lookup(batch, readers) ==
    /\ answers = <<>>
    /\ \A r \in readers : stage[r] = "serving"
    /\ IF Shared THEN \E r \in Rank : readers = {r} ELSE readers = Rank
    /\ answers' = [r \in readers |-> [asked |-> batch[GroupOf(r, Len(batch))],
                                      got |-> Slice(r, batch)]]
    /\ UNCHANGED <<tables, stage, memory>>

Use == answers # <<>> /\ answers' = <<>> /\ UNCHANGED <<tables, stage, memory>>

Batches == UNION {[1..groups -> SeqOf(Row, MaxIds)] : groups \in {g \in 1..TP : TP % g = 0}}

TableNext ==
    \/ \E r \in Rank : \/ Open(r) \/ Attach(r) \/ LoadWeight(r) \/ LoadScale(r)
                       \/ FinishLoad(r) \/ Die(r)
    \/ \E batch \in Batches, readers \in {Rank} \cup {{r} : r \in Rank} : Lookup(batch, readers)
    \/ Use

TableSpec == TableInit /\ [][TableNext]_tableVars

-----------------------------------------------------------------------------
(* What a row is loaded as: by the one rank that owns it, from the          *)
(* checkpoint or from that rank's local store with its holes.               *)
Due(i) == Source(CHOOSE r \in Rank : i \in OwnedRows(r), i)

(* Every rank gets, for each id it asked for and in that order, the row as  *)
(* its one owner loads it - the checkpoint's, or zeros where the owner's    *)
(* local store has a hole - and never another row, a sum of several or one  *)
(* that is not loaded yet: whatever the layout, however the rows divide,    *)
(* while other ranks are still loading or dead.                             *)
LookupIsOwnersRow ==
    \A r \in DOMAIN answers :
        answers[r].got = [k \in DOMAIN answers[r].asked |-> Due(answers[r].asked[k])]
=============================================================================
