--------------------------- MODULE MCModelRuntime ---------------------------
(***************************************************************************)
(* What the patched engine does with a model's files on a node, in its     *)
(* Engram tables and in its attention backend: download, shard iterators,  *)
(* page-cache prefetch, table layout and local store, table of a group,    *)
(* history of the hash, compression of pairs, tail of the late layers,     *)
(* replay of graphs.  These parts share no variable, so nothing is gained  *)
(* by interleaving them: a behaviour runs one of them, chosen in the       *)
(* initial state.                                                          *)
(***************************************************************************)
EXTENDS EngramHistory, EngramLayout, EngramTable, ShardWindow, WeightDownload,
        PairCompress, LateTail, GraphReplay

VARIABLE part

engramVars == <<historyVars, layoutVars, tableVars>>
fileVars == <<windowVars, downloadVars>>
backendVars == <<compressVars, tailVars, graphVars>>
runtimeVars == <<part, engramVars, fileVars, backendVars>>

\* Words, and an image between words; a prompt may also begin with its first token alone.
SomePrompts == {<<2, 1>>, <<1, 9, 2>>}

\* The reviewed DeepSeek V4.1 Flash model: rows of the tables of layers 1 and 14.
Sealed == <<384006168, 384016682>>

\* Local stores that end below the even split of the rows, as the sealed ones do: of three
\* rows over four ranks, two are a hole of their owner's store and one is in it.
ColumnEnds == <<0, 0, 0, 1, 3>>
Prepared == [r \in Rank |-> ColumnEnds[r + 1]..ColumnEnds[r + 2] - 1]

Parts == {"history", "layout", "table", "iterator", "prefetch", "download",
          "compress", "tail", "graph"}

\* A part that does not run has one initial state.
RuntimeInit ==
    /\ part \in Parts
    /\ TableInit /\ (part # "table" => tables = [layout |-> "device", local |-> FALSE])
    /\ WindowInit /\ (part # "iterator" => kind = "buffered")
    /\ DownloadInit /\ (part # "download" => remote.index)
    /\ TailInit /\ (part # "tail" => batch = [lens |-> [b \in Requests |-> 1], cp |-> 1])
    /\ GraphInit /\ (part # "graph" => runner = "target" /\ aliased)
    /\ HistoryInit /\ LayoutInit /\ CompressInit

Engram ==
    /\ \/ part = "history" /\ HistoryNext /\ UNCHANGED <<layoutVars, tableVars>>
       \/ part = "layout" /\ LayoutNext /\ UNCHANGED <<historyVars, tableVars>>
       \/ part = "table" /\ TableNext /\ UNCHANGED <<historyVars, layoutVars>>
    /\ UNCHANGED <<part, fileVars, backendVars>>

ModelFiles ==
    /\ \/ part = "iterator" /\ Iterator /\ UNCHANGED downloadVars
       \/ part = "prefetch" /\ Prefetch /\ UNCHANGED downloadVars
       \/ part = "download" /\ DownloadNext /\ UNCHANGED windowVars
    /\ UNCHANGED <<part, engramVars, backendVars>>

Backend ==
    /\ \/ part = "compress" /\ CompressNext /\ UNCHANGED <<tailVars, graphVars>>
       \/ part = "tail" /\ TailNext /\ UNCHANGED <<compressVars, graphVars>>
       \/ part = "graph" /\ GraphNext /\ UNCHANGED <<compressVars, tailVars>>
    /\ UNCHANGED <<part, engramVars, fileVars>>

RuntimeNext == Engram \/ ModelFiles \/ Backend

RuntimeSpec == RuntimeInit /\ [][RuntimeNext]_runtimeVars
=============================================================================
