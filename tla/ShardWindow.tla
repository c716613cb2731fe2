----------------------------- MODULE ShardWindow -----------------------------
(***************************************************************************)
(* The multi-threaded iterators of weight_utils.py: shards are loaded by a *)
(* pool and handed on, in order through a sliding window or as they        *)
(* complete, while a background thread per local rank reads the same files *)
(* into the page cache.  Tensors are abstracted to their shard; the        *)
(* consumer may close the generator, and any read may fail.                *)
(***************************************************************************)
EXTENDS Integers, Sequences, FiniteSets, SequencesExt

CONSTANTS
    NumFiles,   \* shards of the checkpoint, numbered in the iterator's order
    MaxWorkers, \* threads of the pool
    LocalRanks, \* ranks of the node that share the prefetch
    Threads     \* prefetch threads of a rank

ASSUME WindowAssumption ==
    /\ NumFiles \in Nat
    /\ MaxWorkers \in Nat \ {0} /\ LocalRanks \in Nat \ {0} /\ Threads \in Nat \ {0}

File == 1..NumFiles
LocalRank == 0..LocalRanks - 1
Buffer == MaxWorkers + 1

VARIABLES
    kind,     \* "buffered" or "completed": which iterator it is
    pending,  \* submitted and not taken, in order
    load,     \* what the pool has made of a file
    taken,    \* the file whose tensors are being yielded, or 0
    yielded,  \* the files whose tensors the consumer got
    ended,    \* how the iterator ended: "no", "whole", "error", "closed"
    reader    \* of each rank's prefetch: files left, being read, read; how it stands

windowVars == <<kind, pending, load, taken, yielded, ended, reader>>

(* sorted_files[local_rank::local_world_size]                               *)
SliceOf(r) == [i \in 1..((NumFiles - r + (LocalRanks - 1)) \div LocalRanks)
                  |-> (i - 1) * LocalRanks + r + 1]

NotStarted(r) == [left |-> SliceOf(r), reading |-> {}, read |-> {}, errors |-> {},
                  canceled |-> FALSE, state |-> "seeding"]

(* Mutant: the window keeps one shard more.                                 *)
SeedWide == IF kind = "buffered" THEN Buffer + 1 ELSE NumFiles

(* The first files are submitted before anything is taken; as_completed     *)
(* submits all of them.                                                     *)
Seed == IF kind = "buffered" THEN Buffer ELSE NumFiles

Submitted == {f \in File : load[f] # "none"}
Running == {f \in File : load[f] = "running"}
Held == Running \cup {f \in File : load[f] = "loaded"}

WindowInit ==
    /\ kind \in {"buffered", "completed"}
    /\ pending = <<>>
    /\ load = [f \in File |-> "none"]
    /\ taken = 0
    /\ yielded = <<>>
    /\ ended = "no"
    /\ reader = [r \in LocalRank |-> NotStarted(r)]

Submit(f) ==
    /\ pending' = Append(pending, f)
    /\ load' = [load EXCEPT ![f] = "queued"]

SeedWindow ==
    /\ ended = "no" /\ taken = 0 /\ yielded = <<>>
    /\ Cardinality(Submitted) < Seed
    /\ \E f \in File : f = Cardinality(Submitted) + 1 /\ Submit(f)
    /\ UNCHANGED <<kind, taken, yielded, ended, reader>>

(* The pool takes files in the order of their submission; its threads go on *)
(* when the consumer has gone, as the executor waits for them.              *)
WorkerTakes(f) ==
    /\ load[f] = "queued" /\ \A g \in File : load[g] = "queued" => f <= g
    /\ Cardinality(Running) < MaxWorkers
    /\ load' = [load EXCEPT ![f] = "running"]
    /\ UNCHANGED <<kind, pending, taken, yielded, ended, reader>>

WorkerEnds(f) ==
    /\ load[f] = "running"
    /\ \E result \in {"loaded", "failed"} : load' = [load EXCEPT ![f] = result]
    /\ UNCHANGED <<kind, pending, taken, yielded, ended, reader>>

(* popleft and result(): the head of the window, or whatever is complete.   *)
(* A failed load ends the iterator with its error.  The window is refilled  *)
(* before the tensors are yielded.                                          *)
Ready == {f \in ToSet(pending) : /\ load[f] \in {"loaded", "failed"}
                                 /\ kind = "buffered" => f = Head(pending)}

Refill(f) ==
    LET next == Cardinality(Submitted) + 1
        rest == RemoveAt(pending, CHOOSE i \in DOMAIN pending : pending[i] = f)
    IN  IF kind = "buffered" /\ next <= NumFiles
        THEN pending' = Append(rest, next) /\ load' = [load EXCEPT ![next] = "queued"]
        ELSE pending' = rest /\ UNCHANGED load

TakeNext(f) ==
    /\ ended = "no" /\ taken = 0 /\ f \in Ready
    /\ Cardinality(Submitted) >= Seed \/ Submitted = File
    /\ IF load[f] = "failed"
       THEN /\ ended' = "error"
            /\ UNCHANGED <<pending, load, taken>>
       ELSE /\ taken' = f
            /\ Refill(f)
            /\ UNCHANGED ended
    /\ UNCHANGED <<kind, yielded, reader>>

(* The consumer got all tensors of the shard, which is dropped, or left.    *)
Yield ==
    /\ ended = "no" /\ taken # 0
    /\ yielded' = Append(yielded, taken)
    /\ load' = [load EXCEPT ![taken] = "dropped"]
    /\ taken' = 0
    /\ UNCHANGED <<kind, pending, ended, reader>>

CloseIterator ==
    /\ ended = "no" /\ taken # 0
    /\ ended' = "closed"
    /\ UNCHANGED <<kind, pending, load, taken, yielded, reader>>

EndIterator ==
    /\ ended = "no" /\ taken = 0 /\ pending = <<>> /\ Submitted # {}
    /\ ended' = "whole"
    /\ UNCHANGED <<kind, pending, load, taken, yielded, reader>>

-----------------------------------------------------------------------------
(* The prefetch of a rank: its slice of the files, Threads at a time, the   *)
(* next one scheduled when one is done, unless it was canceled.             *)
Schedule(p) == IF p.canceled \/ p.left = <<>> THEN p
               ELSE [p EXCEPT !.reading = @ \cup {Head(p.left)}, !.left = Tail(@)]

PrefetchSeed(r) ==
    LET p == reader[r]
    IN  /\ p.state = "seeding"
        /\ reader' = [reader EXCEPT ![r] =
              IF Cardinality(p.reading) < Threads /\ p.left # <<>> /\ ~p.canceled
              THEN Schedule(p) ELSE [p EXCEPT !.state = "running"]]
        /\ UNCHANGED <<kind, pending, load, taken, yielded, ended>>

(* A canceled read stops at its next block and counts as done.              *)
PrefetchDone(r, f) ==
    LET p == reader[r]
    IN  /\ p.state = "running" /\ f \in p.reading
        /\ \E result \in {"read", "error"} :
              reader' = [reader EXCEPT ![r] = Schedule(
                  [p EXCEPT !.reading = @ \ {f},
                            !.read = IF result = "read" THEN @ \cup {f} ELSE @,
                            !.errors = IF result = "error" THEN @ \cup {f} ELSE @])]
        /\ UNCHANGED <<kind, pending, load, taken, yielded, ended>>

PrefetchEnd(r) ==
    /\ reader[r].state = "running" /\ reader[r].reading = {}
    /\ reader' = [reader EXCEPT ![r].state = "done"]
    /\ UNCHANGED <<kind, pending, load, taken, yielded, ended>>

PrefetchCancel(r) ==
    /\ ~reader[r].canceled /\ reader[r].state # "done"
    /\ reader' = [reader EXCEPT ![r].canceled = TRUE]
    /\ UNCHANGED <<kind, pending, load, taken, yielded, ended>>

Iterator ==
    \/ SeedWindow \/ Yield \/ CloseIterator \/ EndIterator
    \/ \E f \in File : WorkerTakes(f) \/ WorkerEnds(f) \/ TakeNext(f)

Prefetch ==
    \E r \in LocalRank : \/ PrefetchSeed(r) \/ PrefetchEnd(r) \/ PrefetchCancel(r)
                         \/ \E f \in File : PrefetchDone(r, f)

WindowNext == Iterator \/ Prefetch

WindowSpec == WindowInit /\ [][WindowNext]_windowVars

-----------------------------------------------------------------------------
(* Loading is bounded, ordered and complete.  Besides the shard being       *)
(* yielded no more than max_workers + 1 are loaded or loading, however slow *)
(* the consumer is ("at most (max_workers + 1) shard files are in-flight",  *)
(* "peak (max_workers + 2)"); what was yielded comes in the order of the    *)
(* files, once each; an iterator that ends without an error has yielded all *)
(* of them; and the ranks of a node whose prefetches are over, not canceled *)
(* and without errors, have read every file between them.                   *)
ShardsArrive ==
    /\ kind = "buffered" =>
          /\ Cardinality(Held) <= MaxWorkers + 2
          /\ Cardinality(Held \ {taken}) <= MaxWorkers + 1
          /\ yielded = [i \in 1..Len(yielded) |-> i]
    /\ IsInjective(yielded)
    /\ ended = "whole" => ToSet(yielded) = File
    /\ \A r \in LocalRank : Cardinality(reader[r].reading) <= Threads
    /\ (\A r \in LocalRank : reader[r].state = "done" /\ ~reader[r].canceled
                             /\ reader[r].errors = {})
          => UNION {reader[r].read : r \in LocalRank} = File
=============================================================================
