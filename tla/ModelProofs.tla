----------------------------- MODULE ModelProofs -----------------------------
(***************************************************************************)
(* What holds of the programs that handle a model, for every set of files, *)
(* ranks and batches: the weight hash, and of the runtime patches the      *)
(* download, the window of shard files, the memory of the engram table,    *)
(* the replay of CUDA graphs, the compression of pairs and the tail of the *)
(* late layers.  Each has an inductive invariant of its own.               *)
(*                                                                         *)
(* Of a weight hash it says what a marker file tells of the service        *)
(* (Launching), what the stop has made sure of (Stopping), and what the    *)
(* worker knows while it reads (Reading).                                  *)
(***************************************************************************)
EXTENDS WeightHash, EngramHistory, EngramTable, ShardWindow, WeightDownload, PairCompress,
        LateTail, GraphReplay, FiniteSetTheorems, SequenceTheorems, WellFoundedInduction, TLAPS

(* The service was asked for once; what has begun cannot begin again.       *)
Launching ==
    /\ ~Has("start-attempted") => worker = "none" /\ "run" \notin asked
    /\ worker = "none" => unit = "none" /\ ~alive
    /\ job \in {"argv", "run"} => worker = "none" /\ "run" \notin asked
    /\ by = "start" => ~Has("cancelled")
    /\ job \in {"run", "identify"} => Has("start-attempted")
    /\ "run" \in asked => worker = "none"
    /\ unit = "running" => alive
    /\ unit = "exited" => ~alive

Stopping ==
    /\ by \in {"stop", "poll"} => Has("cancelled")
    /\ by = "poll" => poll = "verified"
    /\ job \in {"stop", "confirm"} => worker # "none"
    /\ never => Has("cancelled") /\ ~Has("start-attempted")
    /\ Has("stop-proof") => worker # "none" /\ Stopped
    /\ poll \in {"verified", "printed"} => Has("tree")
    /\ poll = "printed" => Has("cancelled") /\ Has("stop-proof")

Expected == \A f \in Files : content[f] = "expected"

Reading ==
    /\ \A f \in Files : before[f] <= version[f]
    /\ worker \in {"none", "begin"} => \A f \in Files : candidate[f] = "unread"
    /\ worker = "read" /\ before = version =>
          /\ Expected => intact
          /\ \A f \in Files : candidate[f] \in {"unread", content[f]}
    /\ worker = "compare" /\ Verified => intact
    /\ Has("tree") => worker = "done" /\ intact

HashInv == TypeOK /\ Launching /\ Stopping /\ Reading

(* The initial state satisfies every part.                                  *)
LEMMA InitHashInv == Init => HashInv
<1> SUFFICES ASSUME Init PROVE HashInv
  OBVIOUS
<1>1. TypeOK
  BY DEF Init, TypeOK, Names
<1>2. Launching /\ Stopping
  BY DEF Init, Launching, Stopping, Has
<1>3. Reading
  <2>1. before = version /\ version \in [Files -> Nat]
    BY <1>1 DEF Init, TypeOK
  <2> QED BY <2>1 DEF Init, Reading, Has
<1> QED BY <1>1, <1>2, <1>3 DEF HashInv

(* Every step keeps the slot well typed.                                    *)
LEMMA NextTypeOK == TypeOK /\ [Next]_vars => TypeOK'
<1> SUFFICES ASSUME TypeOK, [Next]_vars PROVE TypeOK'
  OBVIOUS
<1> USE WritesBound DEF TypeOK, Names, Write, Take, At, Release, Printing,
        GivingUp, Querying, Working, caller, service, weights, seen
<1>1. ASSUME StartArgv PROVE TypeOK'
  BY <1>1 DEF StartArgv
<1>2. ASSUME StartAttempt PROVE TypeOK'
  BY <1>2 DEF StartAttempt
<1>3. ASSUME StartRequest PROVE TypeOK'
  BY <1>3 DEF StartRequest
<1>4. ASSUME StartIdentify PROVE TypeOK'
  BY <1>4 DEF StartIdentify
<1>5. ASSUME PollExited PROVE TypeOK'
  BY <1>5 DEF PollExited
<1>6. ASSUME PollEnd PROVE TypeOK'
  BY <1>6 DEF PollEnd
<1>7. ASSUME StopBegin PROVE TypeOK'
  BY <1>7 DEF StopBegin
<1>8. ASSUME StopNever PROVE TypeOK'
  BY <1>8 DEF StopNever
<1>9. ASSUME StopIntent PROVE TypeOK'
  BY <1>9 DEF StopIntent
<1>10. ASSUME StopRequest PROVE TypeOK'
  BY <1>10 DEF StopRequest
<1>11. ASSUME StopConfirm PROVE TypeOK'
  BY <1>11 DEF StopConfirm
<1>12. ASSUME StopAgain PROVE TypeOK'
  BY <1>12 DEF StopAgain
<1>13. ASSUME Leave PROVE TypeOK'
  BY <1>13 DEF Leave
<1>14. ASSUME MetadataBefore PROVE TypeOK'
  BY <1>14 DEF MetadataBefore
<1>15. ASSUME ReadFile PROVE TypeOK'
  BY <1>15 DEF ReadFile
<1>16. ASSUME MetadataAfter PROVE TypeOK'
  BY <1>16 DEF MetadataAfter
<1>17. ASSUME Publish PROVE TypeOK'
  BY <1>17 DEF Publish
<1>18. ASSUME Activate PROVE TypeOK'
  BY <1>18 DEF Activate
<1>19. ASSUME ExitWell PROVE TypeOK'
  BY <1>19 DEF ExitWell
<1>20. ASSUME Fail PROVE TypeOK'
  BY <1>20 DEF Fail
<1>21. ASSUME Stop PROVE TypeOK'
  <2>1. unit' \in {"none", "running", "exited", "failed", "dead"}
    BY <1>21 DEF Stop
  <2>2. alive' \in BOOLEAN
    BY <1>21 DEF Stop
  <2> QED BY <1>21, <2>1, <2>2 DEF Stop
<1>22. ASSUME GroupEnds PROVE TypeOK'
  BY <1>22, ZenonT(60) DEF GroupEnds
<1>23. ASSUME GroupRemoved PROVE TypeOK'
  BY <1>23, ZenonT(60) DEF GroupRemoved
<1>24. ASSUME Collect PROVE TypeOK'
  BY <1>24 DEF Collect
<1>25. ASSUME NEW f \in Files, Rewrite(f) PROVE TypeOK'
  BY <1>25 DEF Rewrite
<1>26. ASSUME UNCHANGED vars PROVE TypeOK'
  BY <1>26 DEF vars
<1> QED BY <1>1, <1>2, <1>3, <1>4, <1>5, <1>6, <1>7, <1>8, <1>9, <1>10, <1>11,
     <1>12, <1>13, <1>14, <1>15, <1>16, <1>17, <1>18, <1>19, <1>20, <1>21,
     <1>22, <1>23, <1>24, <1>25, <1>26 DEF Next

(* Every step keeps what the marker files tell, and the stop's claims.      *)
LEMMA NextLaunchingStopping ==
    HashInv /\ [Next]_vars => (Launching /\ Stopping)'
<1> SUFFICES ASSUME HashInv, [Next]_vars PROVE (Launching /\ Stopping)'
  OBVIOUS
<1>a. TypeOK /\ Launching /\ Stopping /\ (Has("tree") => worker = "done")
  BY DEF HashInv, Reading
<1> USE DEF TypeOK, Has, Write, Take, At, Release, Printing, GivingUp, Querying,
        Working, Stopped, caller, service, weights, seen
<1>1. ASSUME StartArgv PROVE (Launching /\ Stopping)'
  BY <1>1, <1>a DEF StartArgv, Launching, Stopping
<1>2. ASSUME StartAttempt PROVE (Launching /\ Stopping)'
  BY <1>2, <1>a DEF StartAttempt, Launching, Stopping
<1>3. ASSUME StartRequest PROVE (Launching /\ Stopping)'
  BY <1>3, <1>a DEF StartRequest, Launching, Stopping
<1>4. ASSUME StartIdentify PROVE (Launching /\ Stopping)'
  BY <1>4, <1>a DEF StartIdentify, Launching, Stopping
<1>5. ASSUME PollExited PROVE (Launching /\ Stopping)'
  BY <1>5, <1>a DEF PollExited, Launching, Stopping
<1>6. ASSUME PollEnd PROVE (Launching /\ Stopping)'
  BY <1>6, <1>a DEF PollEnd, Launching, Stopping
<1>7. ASSUME StopBegin PROVE (Launching /\ Stopping)'
  BY <1>7, <1>a DEF StopBegin, Launching, Stopping
<1>8. ASSUME StopNever PROVE (Launching /\ Stopping)'
  BY <1>8, <1>a DEF StopNever, NeverStarted, Launching, Stopping
<1>9. ASSUME StopIntent PROVE (Launching /\ Stopping)'
  BY <1>9, <1>a DEF StopIntent, Launching, Stopping
<1>10. ASSUME StopRequest PROVE (Launching /\ Stopping)'
  BY <1>10, <1>a DEF StopRequest, Launching, Stopping
<1>11. ASSUME StopConfirm PROVE (Launching /\ Stopping)'
  BY <1>11, <1>a DEF StopConfirm, Launching, Stopping
<1>12. ASSUME StopAgain PROVE (Launching /\ Stopping)'
  BY <1>12, <1>a DEF StopAgain, Launching, Stopping
<1>13. ASSUME Leave PROVE (Launching /\ Stopping)'
  BY <1>13, <1>a DEF Leave, Launching, Stopping
<1>14. ASSUME MetadataBefore PROVE (Launching /\ Stopping)'
  BY <1>14, <1>a DEF MetadataBefore, Launching, Stopping
<1>15. ASSUME ReadFile PROVE (Launching /\ Stopping)'
  BY <1>15, <1>a DEF ReadFile, Launching, Stopping
<1>16. ASSUME MetadataAfter PROVE (Launching /\ Stopping)'
  BY <1>16, <1>a DEF MetadataAfter, Launching, Stopping
<1>17. ASSUME Publish PROVE (Launching /\ Stopping)'
  BY <1>17, <1>a DEF Publish, Launching, Stopping
<1>18. ASSUME Activate PROVE (Launching /\ Stopping)'
  BY <1>18, <1>a DEF Activate, Launching, Stopping
<1>19. ASSUME ExitWell PROVE (Launching /\ Stopping)'
  BY <1>19, <1>a DEF ExitWell, Launching, Stopping
<1>20. ASSUME Fail PROVE (Launching /\ Stopping)'
  BY <1>20, <1>a DEF Fail, Launching, Stopping
<1>21. ASSUME Stop PROVE (Launching /\ Stopping)'
  BY <1>21, <1>a DEF Stop, Launching, Stopping
<1>22. ASSUME GroupEnds PROVE (Launching /\ Stopping)'
  BY <1>22, <1>a DEF GroupEnds, Launching, Stopping
<1>23. ASSUME GroupRemoved PROVE (Launching /\ Stopping)'
  BY <1>23, <1>a DEF GroupRemoved, Launching, Stopping
<1>24. ASSUME Collect PROVE (Launching /\ Stopping)'
  BY <1>24, <1>a DEF Collect, Launching, Stopping
<1>25. ASSUME NEW f \in Files, Rewrite(f) PROVE (Launching /\ Stopping)'
  BY <1>25, <1>a DEF Rewrite, Launching, Stopping
<1>26. ASSUME UNCHANGED vars PROVE (Launching /\ Stopping)'
  BY <1>26, <1>a DEF vars, Launching, Stopping
<1> QED BY <1>1, <1>2, <1>3, <1>4, <1>5, <1>6, <1>7, <1>8, <1>9, <1>10, <1>11,
     <1>12, <1>13, <1>14, <1>15, <1>16, <1>17, <1>18, <1>19, <1>20, <1>21,
     <1>22, <1>23, <1>24, <1>25, <1>26 DEF Next

(* Every step keeps what the worker knows: once the versions differ from    *)
(* those of before, they differ for good.                                   *)
LEMMA NextReading == HashInv /\ [Next]_vars => Reading'
<1> SUFFICES ASSUME HashInv, [Next]_vars PROVE Reading'
  OBVIOUS
<1>a. TypeOK /\ Reading /\ ("run" \in asked => worker = "none")
  BY DEF HashInv, Launching
<1> USE WritesBound DEF TypeOK, Has, Write, Take, At, Release, Working, caller,
        service, weights, seen
<1>1. ASSUME StartArgv \/ StartAttempt \/ StartRequest \/ StartIdentify \/
   PollExited \/ PollEnd \/ StopBegin \/ StopNever \/ StopIntent \/
   StopRequest \/ StopConfirm \/ StopAgain \/ Leave
      PROVE  Reading'
  BY <1>1, <1>a DEF StartArgv, StartAttempt, StartRequest, StartIdentify,
     PollExited, PollEnd, StopBegin, StopNever, StopIntent, StopRequest,
     StopConfirm, StopAgain, Leave, Reading, Verified, HashMatches, Expected
<1>2. ASSUME ExitWell \/ Fail \/ Stop \/ GroupEnds \/ GroupRemoved \/ Collect
      PROVE  Reading'
  BY <1>2, <1>a DEF ExitWell, Fail, Stop, GroupEnds, GroupRemoved, Collect,
     Reading, Verified, HashMatches, Expected
<1>3. ASSUME MetadataBefore PROVE Reading'
  BY <1>3, <1>a DEF MetadataBefore, Reading, Verified, HashMatches, Expected
<1>4. ASSUME ReadFile PROVE Reading'
  BY <1>4, <1>a DEF ReadFile, Reading, Verified, HashMatches, Expected
<1>5. ASSUME MetadataAfter PROVE Reading'
  BY <1>5, <1>a DEF MetadataAfter, Reading, Verified, HashMatches, Expected
<1>6. ASSUME Publish PROVE Reading'
  BY <1>6, <1>a DEF Publish, Reading, Verified, HashMatches, Expected
<1>7. ASSUME Activate PROVE Reading'
  BY <1>7, <1>a DEF Activate, Reading, Verified, HashMatches, Expected
<1>8. ASSUME NEW f \in Files, Rewrite(f) PROVE Reading'
  BY <1>8, <1>a DEF Rewrite, Reading, Verified, HashMatches, Expected
<1>9. ASSUME UNCHANGED vars PROVE Reading'
  BY <1>9, <1>a DEF vars, Reading, Verified, HashMatches, Expected
<1> QED BY <1>1, <1>2, <1>3, <1>4, <1>5, <1>6, <1>7, <1>8, <1>9 DEF Next

(* Together they are inductive.                                             *)
LEMMA NextHashInv == HashInv /\ [Next]_vars => HashInv'
  BY NextTypeOK, NextLaunchingStopping, NextReading DEF HashInv
-----------------------------------------------------------------------------
(* The invariant holds in every reachable state.                            *)
THEOREM HashInvariant == Spec => []HashInv
  BY InitHashInv, NextHashInv, PTL DEF Spec

(* The slot keeps its types; the lock is held by who has a step.            *)
THEOREM HashTypeCorrect == Spec => []TypeOK
<1>1. HashInv => TypeOK
  BY DEF HashInv
<1> QED BY <1>1, HashInvariant, PTL

(* tree.sha256 vouches for one tree, however the files were written.        *)
THEOREM HashOfOneTreeHolds == Spec => []HashOfOneTree
<1>1. HashInv => HashOfOneTree
  BY DEF HashInv, Reading, HashOfOneTree
<1> QED BY <1>1, HashInvariant, PTL

(* A printed hash was published by a worker that is gone for good.          *)
THEOREM PrintedIsOverHolds == Spec => []PrintedIsOver
<1>1. HashInv => PrintedIsOver
  BY DEF HashInv, Stopping, PrintedIsOver
<1> QED BY <1>1, HashInvariant, PTL
-----------------------------------------------------------------------------
(* The hash service is an owned resource: it begins when systemd activates  *)
(* it, ends with the last process, and an answer of stop proves it over.    *)
LEMMA InitResource == Init => Resource!Init
  BY DEF Init, Resource!Init, Phase, Has

\* Every step of the cluster hash is a step of the owned resource, or leaves it alone.
LEMMA StepResource == HashInv /\ [Next]_vars => [Resource!Next]_(Resource!vars)
<1> SUFFICES ASSUME HashInv, [Next]_vars PROVE [Resource!Next]_(Resource!vars)
  OBVIOUS
<1>a. TypeOK /\ Launching /\ Stopping
  BY DEF HashInv
<1> DEFINE Proof == never \/ Has("stop-proof")
<1> USE DEF Write, Has, Take, At, Release, Working, caller, service, weights, seen
(* What changes neither the processes nor the proof is a stutter.           *)
<1>s. ASSUME UNCHANGED <<alive, worker>>, Proof' = Proof
      PROVE  [Resource!Next]_(Resource!vars)
  BY <1>s DEF Resource!vars, Phase
<1>m. ASSUME UNCHANGED alive, Proof' = Proof, worker # "none", worker' # "none"
      PROVE  [Resource!Next]_(Resource!vars)
  BY <1>m DEF Resource!vars, Phase
<1>p. ASSUME UNCHANGED <<alive, worker>>, ~alive, Proof'
      PROVE  [Resource!Next]_(Resource!vars)
  BY <1>p DEF Resource!Next, Resource!Prove, Phase
<1>e. ASSUME alive, alive' \in BOOLEAN, UNCHANGED worker, worker # "none",
             Proof' = Proof
      PROVE  [Resource!Next]_(Resource!vars)
  BY <1>e DEF Resource!Next, Resource!End, Resource!vars, Phase
<1>1. CASE StartArgv \/ StartAttempt \/ StartRequest \/ StartIdentify
           \/ PollExited \/ PollEnd \/ StopBegin \/ StopIntent \/ StopRequest
           \/ StopAgain \/ Leave
  BY <1>1, <1>s DEF StartArgv, StartAttempt, StartRequest, StartIdentify,
     PollExited, PollEnd, StopBegin, StopIntent, StopRequest, StopAgain, Leave
<1>2. CASE StopNever
  BY <1>2, <1>a, <1>p DEF StopNever, NeverStarted, Launching
<1>3. CASE StopConfirm
  BY <1>3, <1>p DEF StopConfirm, Stopped
<1>4. CASE MetadataBefore \/ ReadFile \/ MetadataAfter \/ Publish
  <2>1. UNCHANGED <<alive, never>>
    BY <1>4 DEF MetadataBefore, ReadFile, MetadataAfter, Publish
  <2>2. files' = files \/ files' = files \cup {"tree"}
    BY <1>4 DEF MetadataBefore, ReadFile, MetadataAfter, Publish
  <2>3. Proof' = Proof
    BY <2>1, <2>2
  <2>4. worker # "none" /\ worker' # "none"
    BY <1>4 DEF MetadataBefore, ReadFile, MetadataAfter, Publish
  <2> QED BY <2>1, <2>3, <2>4, <1>m
<1>5. CASE Activate
  <2>1. ~alive /\ worker = "none" /\ ~Proof
    BY <1>5, <1>a DEF Activate, Launching, Stopping
  <2> QED BY <1>5, <2>1 DEF Activate, Resource!Next, Resource!Begin, Phase
<1>6. CASE ExitWell \/ Fail
  <2>1. alive /\ worker # "none"
    BY <1>6, <1>a DEF ExitWell, Fail, Launching
  <2>2. alive' \in BOOLEAN /\ UNCHANGED <<worker, never, files>>
    BY <1>6 DEF ExitWell, Fail
  <2> QED BY <2>1, <2>2, <1>e
<1>7. CASE Stop
  <2>1. CASE unit = "running"
    BY <1>7, <2>1, <1>a, <1>e DEF Stop, Launching
  <2>2. CASE unit # "running"
    BY <1>7, <2>2, <1>s DEF Stop
  <2> QED BY <2>1, <2>2
<1>8. CASE GroupEnds
  BY <1>8, <1>a, <1>e DEF GroupEnds, Launching
<1>9. CASE GroupRemoved \/ Collect \/ \E f \in Files : Rewrite(f)
  BY <1>9, <1>s DEF GroupRemoved, Collect, Rewrite
<1>10. CASE UNCHANGED vars
  BY <1>10, <1>s DEF vars
<1> QED BY <1>1, <1>2, <1>3, <1>4, <1>5, <1>6, <1>7, <1>8, <1>9, <1>10 DEF Next

(* At most one run, none at or behind a positive answer of stop.            *)
THEOREM HashIsOwnedOnce == Spec => OwnedOnce
  BY InitResource, StepResource, HashInvariant, PTL
     DEF Spec, OwnedOnce, Resource!Spec
-----------------------------------------------------------------------------
(* The inductive invariants of the runtime patches.                        *)
Holding == {"looking", "downloading", "unlocking", "indexing", "leaving", "dumping", "writing"}
Located == {"unlocking", "between", "indexing", "leaving", "filtering"}
Decided == {"loading", "copying", "dumping", "writing", "reading", "loaded"}
Places == {"start", "failed"} \cup Holding \cup Located \cup Decided

(* The type of the variables of a download.                                 *)
DownloadTypeOK ==
    /\ remote \in [shards : SUBSET Shards, index : BOOLEAN]
    /\ disk \in [shards : SUBSET Shards, index : BOOLEAN,
                 copies : [Shards -> {Absent, Torn, Whole}], names : {Absent, Torn, Whole}]
    /\ lock \in Loader \cup {Nobody}
    /\ at \in [Loader -> Places]
    /\ chosen \in [Loader -> SUBSET Shards]

(* Without an index the model is one file, so that a snapshot with any file *)
(* of it is whole; a list of copies is not begun before they are all there. *)
Snapshot ==
    /\ disk.shards \subseteq remote.shards
    /\ disk.index => remote.index
    /\ ~remote.index => \A s, t \in remote.shards : s = t
    /\ disk.names # Absent => \A s \in remote.shards : disk.copies[s] = Whole

SomeFile == disk.shards = {} => remote.shards = {}

(* What a process knows of the snapshot where it stands.                    *)
Progress(p) ==
    /\ at[p] \in Located => SomeFile
    /\ at[p] \in {"leaving", "filtering"} => disk.index = remote.index
    /\ at[p] \in Decided => chosen[p] = remote.shards

(* A process between taking the lock and giving it back holds it.           *)
Alone == \A p \in Loader : at[p] \in Holding => lock = p

DownloadInv == DownloadTypeOK /\ Snapshot /\ (\A p \in Loader : Progress(p)) /\ Alone
-----------------------------------------------------------------------------
Value == LiveBatches \cup {"idle", "capture"}
RawCells == [Inputs \cup {"swa"} -> Value]
PrefillCells == [held : [PrefillFields -> Value], shown : [PrefillFields -> Value]]
Uncaptured == <<>>

GraphTypeOK ==
    /\ runner \in {"target", "draft", "block", "extend", "prefill"}
    /\ aliased \in BOOLEAN
    /\ inputs \in [Inputs -> Value]
    /\ captured \in [Backends -> [Keys -> RawCells \cup PrefillCells \cup {Uncaptured}]]
    /\ graph \in [Backends -> [Keys -> {"none", "stored", "made", "frozen"}]]
    /\ current \in [Backends -> [key : Keys \cup {Nowhere}, full : BOOLEAN]]
    /\ restore \in [Backends -> Keys \cup {Nowhere}]
    /\ turn \in [at : {"rest", "warm", "record", "filled", "ready"}, key : Keys \cup {Nowhere},
                 batch : Value \cup {"unset"}, runs : Nat]
    /\ turn.at # "rest" => turn.key \in Keys
    /\ DOMAIN ran = Backends

(* What is stored for a key fits it.                                        *)
StoredFor(key) ==
    IF runner = "prefill" THEN captured[0][key] \in PrefillCells
    ELSE \A i \in Backends : captured[i][key] \in RawCells

Stored ==
    /\ \A key \in Keys : graph[0][key] # "none" => StoredFor(key)
    /\ turn.at # "rest" => StoredFor(turn.key)

(* What warm-up has made full is raw again when it is recorded, so that no  *)
(* graph keeps what it was captured with.                                   *)
Recording ==
    /\ turn.at = "warm" /\ IsRaw(turn.key) => \A i \in Backends : restore[i] = turn.key
    /\ turn.at = "record" /\ IsRaw(turn.key) => \A i \in Backends : ~current[i].full
    /\ \A i \in Backends, key \in Keys : graph[i][key] # "frozen"

(* The runner's buffers hold the batch; of an idle one not the requests.    *)
Filled ==
    turn.at \in {"filled", "ready"} =>
        /\ turn.batch \in LiveBatches \cup {"idle"}
        /\ inputs["seq"] = turn.batch
        /\ turn.batch = "idle" => inputs["loc"] = "idle" /\ runner # "prefill"
        /\ turn.at = "filled" /\ turn.batch # "idle" =>
              inputs["req"] = turn.batch /\ inputs["loc"] = turn.batch

Prepared ==
    turn.at = "ready" =>
        IF runner = "prefill"
        THEN /\ \A f \in Kernel : captured[0][turn.key].held[f] = turn.batch
             /\ \A f \in Break : captured[0][turn.key].shown[f] = turn.batch
             /\ current[0].key = turn.key
        ELSE \A i \in Replayed :
                /\ \A f \in Inputs : Cell(i, turn.key, f) = turn.batch
                /\ runner = "extend" => captured[i][turn.key]["swa"] = turn.batch

GraphInv == GraphTypeOK /\ Stored /\ Recording /\ Filled /\ Prepared /\ ReplayReadsItsBatch
-----------------------------------------------------------------------------
Stages == {"new", "opened", "attached", "weights", "loaded", "serving", "dead"}

TableTypeOK ==
    /\ tables.layout \in {"device", "shared", "private"}
    /\ stage \in [Rank -> Stages]
    /\ memory \in [Rank -> [Tensor -> [Row -> Int]]]

(* A rank behind a load has its own rows, and so has everybody of a shared  *)
(* table; once somebody serves a shared table, all of it is there.          *)
LoadedBy(q) ==
    \A p \in Rank : p = q \/ Shared =>
        \A i \in Row : i \in OwnedRows(q) =>
            /\ stage[q] \in {"weights", "loaded", "serving"} =>
                  memory[p]["weight"][i] = Due(i)
            /\ stage[q] \in {"loaded", "serving"} => memory[p]["scale"][i] = Due(i)
SharedWhole ==
    Shared /\ (\E q \in Rank : stage[q] = "serving") =>
        \A p \in Rank, t \in Tensor, i \in Row : memory[p][t][i] = Due(i)

TableInv ==
    /\ TableTypeOK
    /\ \A q \in Rank : LoadedBy(q)
    /\ SharedWhole
    /\ LookupIsOwnersRow
-----------------------------------------------------------------------------
WindowTypeOK ==
    /\ kind \in {"buffered", "completed"}
    /\ pending \in Seq(File)
    /\ load \in [File -> {"none", "queued", "running", "loaded", "failed", "dropped"}]
    /\ taken \in File \cup {0}
    /\ yielded \in Seq(File)
    /\ ended \in {"no", "whole", "error", "closed"}
    /\ reader \in [LocalRank -> [left : Seq(File), reading : SUBSET File, read : SUBSET File,
                                 errors : SUBSET File, canceled : BOOLEAN,
                                 state : {"seeding", "running", "done"}]]

(* The first files are submitted, and none is lost on its way to the        *)
(* consumer; what was yielded is dropped.                                   *)
NoneLost ==
    /\ Submitted = 1..Cardinality(Submitted)
    /\ Submitted \subseteq ToSet(pending) \cup {taken} \cup ToSet(yielded)
    /\ \A f \in ToSet(yielded) : load[f] = "dropped"
    /\ taken # 0 => load[taken] = "loaded"

(* The window slides over the files in order, and is refilled as long as    *)
(* there are files.                                                         *)
Sliding ==
    /\ yielded # <<>> \/ taken # 0 =>
           \/ Submitted = File
           \/ kind = "buffered" /\ Len(pending) = Buffer
    /\ kind = "buffered" =>
           LET begun == Len(yielded) + IF taken = 0 THEN 0 ELSE 1
           IN  /\ \A i \in DOMAIN yielded : yielded[i] = i
               /\ taken # 0 => taken = begun
               /\ \A i \in DOMAIN pending : pending[i] = begun + i
               /\ begun + Len(pending) = Cardinality(Submitted)
               /\ Len(pending) <= Buffer

(* A rank's files are each left, being read or dealt with; who is neither   *)
(* canceled nor at the end of them reads one.                               *)
ReadBy(r) ==
    LET p == reader[r]
    IN  /\ ToSet(SliceOf(r)) \subseteq ToSet(p.left) \cup p.reading \cup p.read \cup p.errors
        /\ Cardinality(p.reading) <= Threads
        /\ p.state = "running" /\ ~p.canceled => p.left = <<>> \/ p.reading # {}
        /\ p.state = "done" => p.reading = {} /\ (~p.canceled => p.left = <<>>)

WindowInv ==
    /\ WindowTypeOK
    /\ NoneLost
    /\ Sliding
    /\ IsInjective(yielded)
    /\ ended = "whole" => ToSet(yielded) = File
    /\ \A r \in LocalRank : ReadBy(r)
-----------------------------------------------------------------------------
(* The ids a text, a row of history or a batch may hold.                    *)
Id == Words \cup {ImagePad, ImageToken, 0}
HistoryRow == [1..N - 1 -> Id]

HistoryTypeOK ==
    /\ history \in [0..NumSlots -> HistoryRow]
    /\ request \in [Slots -> [text : Seq(Id), done : Nat, warm : BOOLEAN]]
    /\ \A s \in Slots : request[s] # Free => request[s].done < Len(request[s].text)
    /\ DOMAIN verifying \subseteq Slots
    /\ \A s \in DOMAIN verifying : verifying[s] \in Seq(Id) /\ Len(verifying[s]) = Block

(* These are the tokens before this place of a text, as far as it goes; a   *)
(* row keeps an image's token, where the text has the id of a piece.        *)
Precedes(given, text, done) ==
    \A c \in 1..N - 1 : done - (N - 1 - c) >= 1 =>
        Canonical(given[c]) = Canonical(text[done - (N - 1 - c)])

(* A row that was written for its slot's request holds the request's last   *)
(* tokens, and a block is verified behind such a row.                       *)
OwnRows ==
    /\ \A s \in Slots : request[s].warm =>
          Precedes(history[s], request[s].text, request[s].done)
    /\ \A s \in DOMAIN verifying : request[s] # Free /\ request[s].warm

HistoryInv == HistoryTypeOK /\ OwnRows /\ HashedWithOwnText
-----------------------------------------------------------------------------
(* Numbers.                                                                *)
LEMMA DivIs ==
    ASSUME NEW a \in Nat, NEW b \in Nat \ {0}
    PROVE  a \div b \in Nat /\ (a \div b) * b <= a /\ a < (a \div b) * b + b
<1> QED BY Z3
\* Multiplication is monotone.
LEMMA MulMono == ASSUME NEW x \in Nat, NEW y \in Nat, NEW b \in Nat, x <= y PROVE x * b <= y * b
<1> QED BY Z3
\* One more multiple adds one more block.
LEMMA MulNext == ASSUME NEW x \in Nat, NEW b \in Nat PROVE (x + 1) * b = x * b + b
<1> QED BY Z3

(* floor(a / b) < n iff a < n * b. *)
LEMMA DivLess ==
    ASSUME NEW a \in Nat, NEW b \in Nat \ {0}, NEW n \in Nat
    PROVE  a \div b < n <=> a < n * b
<1> DEFINE q == a \div b
<1>1. q \in Nat /\ q * b <= a /\ a < q * b + b
  BY DivIs
<1> HIDE DEF q
<1>2. CASE q < n
  <2>1. (q + 1) * b <= n * b /\ (q + 1) * b = q * b + b
    BY <1>1, <1>2, MulMono, MulNext
  <2>2. n * b \in Nat /\ q * b \in Nat
    BY <1>1
  <2>3. a < n * b
    BY <1>1, <2>1, <2>2
  <2> QED BY <1>2, <2>3 DEF q
<1>3. CASE ~(q < n)
  <2>1. n * b <= q * b
    BY <1>1, <1>3, MulMono
  <2>2. n * b \in Nat /\ q * b \in Nat
    BY <1>1
  <2>3. ~(a < n * b)
    BY <1>1, <2>1, <2>2
  <2> QED BY <1>3, <2>3 DEF q
<1> QED BY <1>2, <1>3

(***************************************************************************)
(* Sequences.                                                              *)
(***************************************************************************)
(* Induction over the numbers, for a set of them: who has the first and     *)
(* with every number the next has them all.                                 *)
LEMMA SetInduction ==
    ASSUME NEW S, 0 \in S, \A n \in Nat : n \in S => n + 1 \in S
    PROVE  Nat \subseteq S
<1> SUFFICES ASSUME Nat \ S # {} PROVE FALSE
  OBVIOUS
<1> DEFINE R == {ss \in Nat \X Nat : ss[1] < ss[2]}
           T == Nat \ S
<1>1. IsWellFoundedOn(R, Nat)
  BY NatLessThanWellFounded DEF OpToRel
<1>2. \A x, y \in Nat : <<y, x>> \in R <=> y < x
  OBVIOUS
<1>3. \E x \in T : \A y \in T : ~ (<<y, x>> \in R)
  <2> HIDE DEF R
  <2> T \subseteq Nat /\ T # {}
    OBVIOUS
  <2> HIDE DEF T
  <2> QED BY <1>1, WFMin
<1>4. PICK x \in T : \A y \in T : ~(y < x)
  BY <1>2, <1>3
<1>5. x # 0 /\ x - 1 \in Nat
  BY <1>4
<1>6. x - 1 \notin T
  BY <1>4, <1>5
<1> QED BY <1>4, <1>5, <1>6

(* What FlattenSeq computes on its way.                                     *)
Flat(seqs, f) == f = [i \in 1..Len(seqs) |-> IF i = 1 THEN seqs[i] ELSE f[i - 1] \o seqs[i]]
FlatUpTo(seqs, n, f) == \A i \in 1..n : f[i] = IF i = 1 THEN seqs[i] ELSE f[i - 1] \o seqs[i]

\* A flattening satisfies its definition up to its last element.
LEMMA FlatAt == ASSUME NEW seqs, NEW f, Flat(seqs, f) PROVE FlatUpTo(seqs, Len(seqs), f)
<1> DEFINE g == [i \in 1..Len(seqs) |-> IF i = 1 THEN seqs[i] ELSE f[i - 1] \o seqs[i]]
<1>1. f = g
  BY DEF Flat
<1>2. \A i \in 1..Len(seqs) : g[i] = IF i = 1 THEN seqs[i] ELSE f[i - 1] \o seqs[i]
  OBVIOUS
<1> HIDE DEF g
<1> QED BY <1>1, <1>2 DEF FlatUpTo

\* Every sequence of sequences has a flattening.
LEMMA FlatExists ==
    ASSUME NEW S, NEW seqs \in Seq(Seq(S))
    PROVE  \E f \in [1..Len(seqs) -> Seq(S)] : Flat(seqs, f)
<1> DEFINE T == {n \in Nat : n <= Len(seqs) => \E f \in [1..n -> Seq(S)] : FlatUpTo(seqs, n, f)}
<1>1. 0 \in T
  <2> DEFINE f == [i \in 1..0 |-> <<>>]
  <2>1. f \in [1..0 -> Seq(S)] /\ FlatUpTo(seqs, 0, f)
    BY DEF FlatUpTo
  <2> HIDE DEF f
  <2> QED BY <2>1
<1>2. ASSUME NEW n \in Nat, n \in T PROVE n + 1 \in T
  <2> SUFFICES ASSUME n + 1 <= Len(seqs)
               PROVE  \E f \in [1..n + 1 -> Seq(S)] : FlatUpTo(seqs, n + 1, f)
    OBVIOUS
  <2>1. PICK f \in [1..n -> Seq(S)] : FlatUpTo(seqs, n, f)
    BY <1>2
  <2> DEFINE last == IF n = 0 THEN seqs[1] ELSE f[n] \o seqs[n + 1]
             g == [i \in 1..n + 1 |-> IF i = n + 1 THEN last ELSE f[i]]
  <2>2. last \in Seq(S)
    <3>1. n # 0 => f[n] \in Seq(S)
      BY <2>1
    <3>2. seqs[n + 1] \in Seq(S)
      OBVIOUS
    <3> QED BY <3>1, <3>2, ConcatProperties
  <2>3. (n = 0 => last = seqs[1]) /\ (n # 0 => last = f[n] \o seqs[n + 1])
    OBVIOUS
  <2> HIDE DEF last
  <2>4. g \in [1..n + 1 -> Seq(S)] /\ \A i \in 1..n + 1 : g[i] = IF i = n + 1 THEN last ELSE f[i]
    BY <2>1, <2>2
  <2> HIDE DEF g
  <2>5. ASSUME NEW i \in 1..n + 1
        PROVE  g[i] = IF i = 1 THEN seqs[i] ELSE g[i - 1] \o seqs[i]
    <3>1. CASE i = n + 1 /\ n = 0
      BY <2>3, <2>4, <3>1
    <3>2. CASE i = n + 1 /\ n # 0
      <4>1. i - 1 = n /\ n \in 1..n + 1 /\ n # n + 1 /\ i # 1
        BY <3>2
      <4>2. g[i] = last /\ g[n] = f[n]
        BY <2>4, <3>2, <4>1
      <4> QED BY <2>3, <3>2, <4>1, <4>2
    <3>3. CASE i # n + 1
      <4>1. i \in 1..n /\ g[i] = f[i] /\ (i # 1 => g[i - 1] = f[i - 1])
        BY <2>4, <3>3
      <4>2. f[i] = IF i = 1 THEN seqs[i] ELSE f[i - 1] \o seqs[i]
        BY <2>1, <4>1 DEF FlatUpTo
      <4> QED BY <4>1, <4>2
    <3> QED BY <3>1, <3>2, <3>3
  <2> QED BY <2>4, <2>5 DEF FlatUpTo
<1> HIDE DEF T
<1>3. Nat \subseteq T
  BY <1>1, <1>2, SetInduction
<1>4. Len(seqs) \in T
  BY <1>3
<1>5. PICK f \in [1..Len(seqs) -> Seq(S)] : FlatUpTo(seqs, Len(seqs), f)
  BY <1>4 DEF T
<1>6. f = [i \in 1..Len(seqs) |-> IF i = 1 THEN seqs[i] ELSE f[i - 1] \o seqs[i]]
  BY <1>5 DEF FlatUpTo
<1> QED BY <1>6 DEF Flat

\* A prefix has the flattening of the whole, restricted to it.
LEMMA FlatUnique ==
    ASSUME NEW S, NEW seqs \in Seq(Seq(S)), NEW m \in 1..Len(seqs), NEW f, NEW g,
           Flat(seqs, f), Flat(SubSeq(seqs, 1, m), g)
    PROVE  \A i \in 1..m : f[i] = g[i]
<1>1. Len(SubSeq(seqs, 1, m)) = m /\ \A i \in 1..m : SubSeq(seqs, 1, m)[i] = seqs[i]
  BY SubSeqProperties
<1>2. \A i \in 1..m : f[i] = IF i = 1 THEN seqs[i] ELSE f[i - 1] \o seqs[i]
  <2>1. FlatUpTo(seqs, Len(seqs), f)
    BY FlatAt
  <2>2. \A i \in 1..Len(seqs) : f[i] = IF i = 1 THEN seqs[i] ELSE f[i - 1] \o seqs[i]
    BY <2>1, Zenon DEF FlatUpTo
  <2>3. 1..m \subseteq 1..Len(seqs)
    OBVIOUS
  <2> QED BY <2>2, <2>3, Zenon
<1>3. \A i \in 1..m : g[i] = IF i = 1 THEN seqs[i] ELSE g[i - 1] \o seqs[i]
  <2>1. FlatUpTo(SubSeq(seqs, 1, m), m, g)
    BY <1>1, FlatAt
  <2> QED BY <1>1, <2>1 DEF FlatUpTo
<1> DEFINE T == {n \in Nat : n \in 1..m => f[n] = g[n]}
<1>4. 0 \in T
  OBVIOUS
<1>5. ASSUME NEW n \in Nat, n \in T PROVE n + 1 \in T
  <2> SUFFICES ASSUME n + 1 \in 1..m PROVE f[n + 1] = g[n + 1]
    OBVIOUS
  <2>1. CASE n = 0
    BY <1>2, <1>3, <2>1
  <2>2. CASE n # 0
    <3>1. n \in 1..m /\ f[n] = g[n] /\ (n + 1) - 1 = n /\ n + 1 # 1
      BY <1>5, <2>2
    <3>2. f[n + 1] = f[n] \o seqs[n + 1] /\ g[n + 1] = g[n] \o seqs[n + 1]
      BY <1>2, <1>3, <3>1
    <3> QED BY <3>1, <3>2
  <2> QED BY <2>1, <2>2
<1> HIDE DEF T
<1>6. Nat \subseteq T
  BY <1>4, <1>5, SetInduction
<1> QED BY <1>6 DEF T

\* The community operator returns the last value of the flattening.
LEMMA FlattenSeqIs ==
    ASSUME NEW S, NEW seqs \in Seq(Seq(S)), NEW f, Flat(seqs, f), Len(seqs) # 0
    PROVE  FlattenSeq(seqs) = f[Len(seqs)]
<1> DEFINE c == CHOOSE g : Flat(seqs, g)
<1>1. Flat(seqs, c)
  BY Zenon
<1>2. FlattenSeq(seqs) = c[Len(seqs)]
  BY Zenon DEF FlattenSeq, Flat
<1> HIDE DEF c
<1>3. Len(seqs) \in 1..Len(seqs) /\ SubSeq(seqs, 1, Len(seqs)) = seqs
  BY SubSeqFull
<1>4. Flat(SubSeq(seqs, 1, Len(seqs)), c)
  BY <1>1, <1>3
<1>5. \A i \in 1..Len(seqs) : f[i] = c[i]
  BY <1>3, <1>4, FlatUnique
<1> QED BY <1>2, <1>3, <1>5

(* FlattenSeq, one more sequence at a time.                                 *)
LEMMA FlattenSeqSteps ==
    ASSUME NEW S, NEW seqs \in Seq(Seq(S))
    PROVE  /\ FlattenSeq(<<>>) = <<>>
           /\ \A m \in 1..Len(seqs) :
                FlattenSeq(SubSeq(seqs, 1, m)) = FlattenSeq(SubSeq(seqs, 1, m - 1)) \o seqs[m]
           /\ \A m \in 0..Len(seqs) : FlattenSeq(SubSeq(seqs, 1, m)) \in Seq(S)
           /\ FlattenSeq(seqs) = FlattenSeq(SubSeq(seqs, 1, Len(seqs)))
<1>1. PICK f \in [1..Len(seqs) -> Seq(S)] : Flat(seqs, f)
  BY FlatExists
<1>2. \A i \in 1..Len(seqs) : f[i] = IF i = 1 THEN seqs[i] ELSE f[i - 1] \o seqs[i]
  BY <1>1, FlatAt DEF FlatUpTo
<1>3. FlattenSeq(<<>>) = <<>>
  BY DEF FlattenSeq
<1>4. SubSeq(seqs, 1, 0) = <<>>
  BY SubSeqProperties
<1>5. ASSUME NEW m \in 1..Len(seqs) PROVE FlattenSeq(SubSeq(seqs, 1, m)) = f[m]
  <2> DEFINE part == SubSeq(seqs, 1, m)
  <2>1. part \in Seq(Seq(S)) /\ Len(part) = m /\ m # 0
    BY SubSeqProperties
  <2>2. PICK g \in [1..Len(part) -> Seq(S)] : Flat(part, g)
    BY <2>1, FlatExists
  <2>3. Flat(SubSeq(seqs, 1, m), g)
    BY <2>2
  <2> HIDE DEF part
  <2>4. \A i \in 1..m : f[i] = g[i]
    BY <1>1, <2>3, FlatUnique
  <2>5. FlattenSeq(part) = g[m]
    BY <2>1, <2>2, FlattenSeqIs
  <2> QED BY <2>4, <2>5 DEF part
<1>6. \A m \in 0..Len(seqs) : FlattenSeq(SubSeq(seqs, 1, m)) \in Seq(S)
  <2> TAKE m \in 0..Len(seqs)
  <2>1. CASE m = 0
    <3>1. <<>> \in Seq(S)
      OBVIOUS
    <3> QED BY <1>3, <1>4, <2>1, <3>1
  <2>2. CASE m # 0
    <3>1. m \in 1..Len(seqs)
      BY <2>2
    <3>2. f[m] \in Seq(S)
      BY <1>1, <3>1, Zenon
    <3>3. FlattenSeq(SubSeq(seqs, 1, m)) = f[m]
      BY <1>5, <3>1, Zenon
    <3> QED BY <3>2, <3>3, Zenon
  <2> QED BY <2>1, <2>2
<1>7. ASSUME NEW m \in 1..Len(seqs)
      PROVE  FlattenSeq(SubSeq(seqs, 1, m)) = FlattenSeq(SubSeq(seqs, 1, m - 1)) \o seqs[m]
  <2>1. CASE m = 1
    <3>1. <<>> \o seqs[m] = seqs[m] /\ m - 1 = 0
      BY <2>1, ConcatEmptySeq
    <3>2. FlattenSeq(SubSeq(seqs, 1, m - 1)) = <<>>
      BY <1>3, <1>4, <3>1
    <3>3. FlattenSeq(SubSeq(seqs, 1, m)) = seqs[m]
      BY <1>2, <1>5, <2>1
    <3> QED BY <3>1, <3>2, <3>3
  <2>2. CASE m # 1
    <3>1. m - 1 \in 1..Len(seqs)
      BY <2>2
    <3>2. FlattenSeq(SubSeq(seqs, 1, m - 1)) = f[m - 1]
      BY <1>5, <3>1
    <3> QED BY <1>2, <1>5, <2>2, <3>2
  <2> QED BY <2>1, <2>2
<1>8. FlattenSeq(seqs) = FlattenSeq(SubSeq(seqs, 1, Len(seqs)))
  BY SubSeqFull
<1> QED BY <1>3, <1>6, <1>7, <1>8

(* FlattenSeq keeps the elements of every sequence together, behind those   *)
(* of the sequences before it.                                              *)
LEMMA FlattenSeqAt ==
    ASSUME NEW S, NEW seqs \in Seq(Seq(S)), NEW g \in 1..Len(seqs), NEW k \in 1..Len(seqs[g])
    PROVE  LET place == Len(FlattenSeq(SubSeq(seqs, 1, g - 1))) + k
           IN  /\ place \in 1..Len(FlattenSeq(seqs))
               /\ FlattenSeq(seqs)[place] = seqs[g][k]
<1> DEFINE F(m) == FlattenSeq(SubSeq(seqs, 1, m))
           place == Len(F(g - 1)) + k
           T == {n \in Nat : g + n <= Len(seqs) => place \in 1..Len(F(g + n)) /\ F(g + n)[place] = seqs[g][k]}
<1>1. /\ \A m \in 1..Len(seqs) : F(m) = F(m - 1) \o seqs[m]
      /\ \A m \in 0..Len(seqs) : F(m) \in Seq(S)
      /\ FlattenSeq(seqs) = F(Len(seqs))
  BY FlattenSeqSteps
<1>2. \A m \in 1..Len(seqs) : seqs[m] \in Seq(S)
  OBVIOUS
<1> HIDE DEF F
<1>3. 0 \in T
  <2>1. g - 1 \in 0..Len(seqs)
    OBVIOUS
  <2>2. F(g) = F(g - 1) \o seqs[g] /\ F(g - 1) \in Seq(S) /\ seqs[g] \in Seq(S)
    BY <1>1, <1>2, <2>1
  <2>3. place \in 1..Len(F(g)) /\ F(g)[place] = seqs[g][k]
    <3> DEFINE a == F(g - 1)  b == seqs[g]
    <3> a \in Seq(S) /\ b \in Seq(S) /\ F(g) = a \o b /\ k \in 1..Len(b)
      BY <2>2
    <3> HIDE DEF a, b
    <3>1. Len(a) + k \in 1..Len(a \o b) /\ (a \o b)[Len(a) + k] = b[k]
      BY ConcatProperties
    <3> QED BY <3>1 DEF a, b
  <2> QED BY <2>3
<1>4. ASSUME NEW n \in Nat, n \in T PROVE n + 1 \in T
  <2> SUFFICES ASSUME g + (n + 1) <= Len(seqs)
               PROVE  place \in 1..Len(F(g + (n + 1))) /\ F(g + (n + 1))[place] = seqs[g][k]
    OBVIOUS
  <2> DEFINE m == g + (n + 1)
  <2>1. m \in 1..Len(seqs) /\ m - 1 = g + n /\ g + n \in 0..Len(seqs)
    OBVIOUS
  <2>2. F(m) = F(g + n) \o seqs[m] /\ F(g + n) \in Seq(S) /\ seqs[m] \in Seq(S)
    BY <1>1, <1>2, <2>1
  <2>3. place \in 1..Len(F(g + n)) /\ F(g + n)[place] = seqs[g][k]
    BY <1>4, <2>1
  <2>4. place \in 1..Len(F(m)) /\ F(m)[place] = seqs[g][k]
    <3> DEFINE a == F(g + n)  b == seqs[m]
    <3> a \in Seq(S) /\ b \in Seq(S) /\ F(m) = a \o b /\ place \in 1..Len(a) /\ a[place] = seqs[g][k]
      BY <2>2, <2>3
    <3> HIDE DEF a, b, place, m
    <3>1. Len(a \o b) = Len(a) + Len(b) /\ (a \o b)[place] = a[place]
      BY ConcatProperties
    <3> QED BY <3>1
  <2> HIDE DEF place
  <2> QED BY <2>4 DEF m
<1> HIDE DEF T
<1>5. Nat \subseteq T
  BY <1>3, <1>4, SetInduction
<1>6. Len(seqs) - g \in T /\ g + (Len(seqs) - g) = Len(seqs)
  BY <1>5
<1>7. place \in 1..Len(F(Len(seqs))) /\ F(Len(seqs))[place] = seqs[g][k]
  BY <1>6 DEF T
<1> QED BY <1>1, <1>7 DEF F
-----------------------------------------------------------------------------
(* The download of a model.                                                *)
LEMMA InitDownload == DownloadInit => DownloadInv
<1> SUFFICES ASSUME DownloadInit PROVE DownloadInv
  OBVIOUS
<1>1. /\ remote \in [shards : SUBSET Shards, index : BOOLEAN]
      /\ ~remote.index => \A s, t \in remote.shards : s = t
  <2>1. CASE remote = [shards |-> Shards, index |-> TRUE]
    BY <2>1
  <2>2. ASSUME NEW f \in Shards, remote = [shards |-> {f}, index |-> FALSE]
        PROVE  /\ remote \in [shards : SUBSET Shards, index : BOOLEAN]
               /\ \A s, t \in remote.shards : s = t
    BY <2>2
  <2> QED BY <2>1, <2>2 DEF DownloadInit
<1>2. DownloadTypeOK
  BY <1>1 DEF DownloadInit, DownloadTypeOK, Places, Absent
<1>3. Snapshot
  BY <1>1 DEF DownloadInit, Snapshot
<1>4. \A p \in Loader : at[p] = "start"
  BY DEF DownloadInit
<1>5. \A p \in Loader : Progress(p)
  BY <1>4 DEF Progress, Located, Decided
<1>6. Alone
  BY <1>4 DEF Alone, Holding
<1> QED BY <1>2, <1>3, <1>5, <1>6 DEF DownloadInv

(* A process that only moves, from one place to another.                    *)
LEMMA MovesOnly ==
    ASSUME DownloadInv, NEW p \in Loader, NEW to \in Places,
           at' = [at EXCEPT ![p] = to], UNCHANGED <<remote, disk, chosen>>,
           lock' \in Loader \cup {Nobody},
           to \in Located => SomeFile,
           to \in {"leaving", "filtering"} => disk.index = remote.index,
           to \in Decided => chosen[p] = remote.shards,
           to \in Holding => lock' = p,
           \A q \in Loader : q # p /\ lock = q => lock' = q
    PROVE  DownloadInv'
<1>1. DownloadTypeOK' /\ Snapshot'
  BY DEF DownloadInv, DownloadTypeOK, Snapshot
<1>2. \A q \in Loader : at'[q] = IF q = p THEN to ELSE at[q]
  BY DEF DownloadInv, DownloadTypeOK
<1>3. ASSUME NEW q \in Loader PROVE Progress(q)'
  BY <1>2 DEF DownloadInv, Progress, SomeFile
<1>4. Alone'
  BY <1>2 DEF DownloadInv, Alone
<1> QED BY <1>1, <1>3, <1>4 DEF DownloadInv

(* The lock is taken only when it is free.                                  *)
LEMMA AcquireKeeps ==
    ASSUME DownloadInv, NEW p \in Loader, NEW from \in Places, NEW to \in Places,
           Acquire(p, from, to),
           <<from, to>> \in {<<"start", "looking">>, <<"between", "indexing">>,
                             <<"copying", "dumping">>}
    PROVE  DownloadInv'
<1>1. lock' = p /\ at[p] = from /\ UNCHANGED <<remote, disk, chosen>>
      /\ at' = [at EXCEPT ![p] = to]
  BY DEF Acquire, Goes
<1>2. \A q \in Loader : lock # q
  BY LoaderAssumption DEF Acquire, Nobody
<1>3. /\ to \in Located => SomeFile
      /\ to \notin {"leaving", "filtering"}
      /\ to \in Decided => chosen[p] = remote.shards
  BY <1>1 DEF DownloadInv, Progress, Located, Decided
<1> QED BY <1>1, <1>2, <1>3, MovesOnly DEF Nobody

(* Who gives the lock back had it.                                          *)
LEMMA UnlockKeeps ==
    ASSUME DownloadInv, NEW p \in Loader, NEW from \in Places, NEW to \in Places,
           Unlock(p, from, to),
           <<from, to>> \in {<<"unlocking", "between">>, <<"leaving", "filtering">>}
    PROVE  DownloadInv'
<1>1. lock' = Nobody /\ at[p] = from /\ UNCHANGED <<remote, disk, chosen>>
      /\ at' = [at EXCEPT ![p] = to]
  BY DEF Unlock, Goes
<1>2. lock = p
  BY <1>1 DEF DownloadInv, Alone, Holding
<1>3. /\ to \in Located => SomeFile
      /\ to \in {"leaving", "filtering"} => disk.index = remote.index
      /\ to \notin Decided /\ to \notin Holding
  BY <1>1 DEF DownloadInv, Progress, Located, Decided, Holding
<1> QED BY <1>1, <1>2, <1>3, MovesOnly

(* Looking finds a whole snapshot or leads to the download.                 *)
LEMMA LookKeeps == ASSUME DownloadInv, NEW p \in Loader, Look(p) PROVE DownloadInv'
<1> DEFINE to == IF SnapshotComplete THEN "unlocking" ELSE "downloading"
<1>1. lock = p
  BY DEF Look, DownloadInv, Alone, Holding
<1>2. at' = [at EXCEPT ![p] = to] /\ UNCHANGED <<remote, disk, chosen, lock>>
  BY DEF Look
<1>3. /\ to \in Places /\ to \notin Decided /\ to \notin {"leaving", "filtering"}
      /\ to \in Located => SomeFile
  BY DEF SnapshotComplete, SomeFile, Places, Located, Decided, Holding
<1>4. lock' \in Loader \cup {Nobody}
  BY <1>2 DEF DownloadInv, DownloadTypeOK
<1> HIDE DEF to
<1> QED BY <1>1, <1>2, <1>3, <1>4, MovesOnly

\* The end of a fetch keeps the invariant.
LEMMA FetchedAllKeeps == ASSUME DownloadInv, NEW p \in Loader, FetchedAll(p) PROVE DownloadInv'
<1>1. /\ at[p] = "downloading" /\ at' = [at EXCEPT ![p] = "unlocking"]
      /\ UNCHANGED <<remote, disk, chosen, lock>>
      /\ remote.shards \subseteq disk.shards
  BY DEF FetchedAll, Goes
<1>2. lock = p
  BY <1>1 DEF DownloadInv, Alone, Holding
<1>3. SomeFile
  BY <1>1 DEF SomeFile
<1> QED BY <1>1, <1>2, <1>3, MovesOnly DEF Places, Holding, Located, Decided

(* One more file never makes a process know less.                           *)
LEMMA FetchShardKeeps == ASSUME DownloadInv, NEW p \in Loader, FetchShard(p) PROVE DownloadInv'
<1>1. PICK s \in remote.shards \ disk.shards : disk' = [disk EXCEPT !.shards = @ \cup {s}]
  BY DEF FetchShard
<1>2. UNCHANGED <<remote, lock, at, chosen>>
  BY DEF FetchShard
<1>3. disk'.shards = disk.shards \cup {s} /\ s \in Shards
  BY <1>1 DEF DownloadInv, DownloadTypeOK
<1>4. UNCHANGED <<disk.index, disk.copies, disk.names>>
  BY <1>1 DEF DownloadInv, DownloadTypeOK
<1>5. DownloadTypeOK'
  BY <1>1, <1>2, <1>3 DEF DownloadInv, DownloadTypeOK
<1>6. Snapshot'
  BY <1>1, <1>2, <1>3, <1>4 DEF DownloadInv, Snapshot
<1>7. ASSUME NEW q \in Loader PROVE Progress(q)'
  BY <1>2, <1>3, <1>4 DEF DownloadInv, Progress, SomeFile
<1>8. Alone'
  BY <1>2 DEF DownloadInv, Alone
<1> QED BY <1>5, <1>6, <1>7, <1>8 DEF DownloadInv

(* The index, once fetched, stays.                                          *)
LEMMA FetchIndexKeeps == ASSUME DownloadInv, NEW p \in Loader, FetchIndex(p) PROVE DownloadInv'
<1>1. /\ at[p] = "indexing" /\ at' = [at EXCEPT ![p] = "leaving"]
      /\ UNCHANGED <<remote, lock, chosen>>
      /\ disk' = [disk EXCEPT !.index = @ \/ remote.index]
  BY DEF FetchIndex, Goes
<1>2. /\ UNCHANGED <<disk.shards, disk.copies, disk.names>>
      /\ disk'.index = (disk.index \/ remote.index)
      /\ disk.index \in BOOLEAN /\ remote.index \in BOOLEAN
  BY <1>1 DEF DownloadInv, DownloadTypeOK
<1>3. DownloadTypeOK'
  BY <1>1 DEF DownloadInv, DownloadTypeOK, Places, Holding
<1>4. disk.index => remote.index
  BY DEF DownloadInv, Snapshot
<1>5. Snapshot' /\ disk'.index = remote.index
  BY <1>1, <1>2, <1>4 DEF DownloadInv, Snapshot
<1>6. \A q \in Loader : at'[q] = IF q = p THEN "leaving" ELSE at[q]
  BY <1>1 DEF DownloadInv, DownloadTypeOK
<1>7. ASSUME NEW q \in Loader PROVE Progress(q)'
  BY <1>1, <1>2, <1>5, <1>6 DEF DownloadInv, Progress, SomeFile, Located, Decided
<1>8. Alone'
  BY <1>1, <1>6 DEF DownloadInv, Alone, Holding
<1> QED BY <1>3, <1>5, <1>7, <1>8 DEF DownloadInv

(* What is chosen is the whole model: with an index because its files are   *)
(* looked up, without one because there is one file.                        *)
LEMMA FilterKeeps == ASSUME DownloadInv, NEW p \in Loader, Filter(p) PROVE DownloadInv'
<1>1. at[p] = "filtering" /\ UNCHANGED <<remote, disk, lock>>
  BY DEF Filter
<1>2. SomeFile /\ disk.index = remote.index /\ disk.shards \subseteq remote.shards
  BY <1>1 DEF DownloadInv, Progress, Located, Snapshot
<1>3. CASE disk.index /\ ~(remote.shards \subseteq disk.shards)
  <2>1. at' = [at EXCEPT ![p] = "failed"] /\ UNCHANGED chosen
    BY <1>3 DEF Filter
  <2>2. "failed" \in Places /\ "failed" \notin Located \cup Decided \cup Holding
    BY DEF Places, Located, Decided, Holding
  <2>3. lock' \in Loader \cup {Nobody} /\ "failed" \notin {"leaving", "filtering"}
    BY <1>1 DEF DownloadInv, DownloadTypeOK
  <2> QED BY <1>1, <2>1, <2>2, <2>3, MovesOnly
<1>4. CASE ~(disk.index /\ ~(remote.shards \subseteq disk.shards))
  <2>1. disk.shards = remote.shards
    BY <1>2, <1>4 DEF DownloadInv, Snapshot, SomeFile
  <2>2. PICK to \in {"loading", "copying"} : at' = [at EXCEPT ![p] = to]
    BY <1>4 DEF Filter
  <2>3. chosen' = [chosen EXCEPT ![p] = remote.shards]
    BY <1>4, <2>1 DEF Filter
  <2>4. \A q \in Loader : /\ at'[q] = IF q = p THEN to ELSE at[q]
                          /\ chosen'[q] = IF q = p THEN remote.shards ELSE chosen[q]
    BY <2>2, <2>3 DEF DownloadInv, DownloadTypeOK
  <2>5. DownloadTypeOK'
    BY <1>1, <2>2, <2>3 DEF DownloadInv, DownloadTypeOK, Places, Decided
  <2>6. Snapshot'
    BY <1>1 DEF DownloadInv, Snapshot
  <2>7. ASSUME NEW q \in Loader PROVE Progress(q)'
    BY <1>1, <2>4 DEF DownloadInv, Progress, SomeFile, Located
  <2>8. Alone'
    BY <1>1, <2>4 DEF DownloadInv, Alone, Holding
  <2> QED BY <2>5, <2>6, <2>7, <2>8 DEF DownloadInv
<1> QED BY <1>3, <1>4

(* The copies are cleared only while no list of them is begun.              *)
LEMMA SeeNamesKeeps == ASSUME DownloadInv, NEW p \in Loader, SeeNames(p) PROVE DownloadInv'
<1>1. at[p] = "dumping" /\ UNCHANGED <<remote, chosen>>
  BY DEF SeeNames
<1>2. lock = p /\ chosen[p] = remote.shards
  BY <1>1 DEF DownloadInv, Alone, Progress, Holding, Decided
<1>3. CASE disk.names = Absent
  <2>1. /\ at' = [at EXCEPT ![p] = "writing"] /\ lock' = p
        /\ disk' = [disk EXCEPT !.copies = [s \in Shards |-> Absent]]
    BY <1>3 DEF SeeNames
  <2>2. UNCHANGED <<disk.shards, disk.index, disk.names>>
    BY <2>1 DEF DownloadInv, DownloadTypeOK
  <2>3. \A q \in Loader : at'[q] = IF q = p THEN "writing" ELSE at[q]
    BY <2>1 DEF DownloadInv, DownloadTypeOK
  <2>4. DownloadTypeOK'
    BY <1>1, <2>1 DEF DownloadInv, DownloadTypeOK, Places, Decided
  <2>5. Snapshot'
    BY <1>1, <1>3, <2>2 DEF DownloadInv, Snapshot
  <2>6. ASSUME NEW q \in Loader PROVE Progress(q)'
    BY <1>1, <1>2, <2>2, <2>3 DEF DownloadInv, Progress, SomeFile, Located
  <2>7. Alone'
    BY <1>2, <2>1, <2>3 DEF DownloadInv, Alone
  <2> QED BY <2>4, <2>5, <2>6, <2>7 DEF DownloadInv
<1>4. CASE disk.names # Absent
  <2>1. at' = [at EXCEPT ![p] = "reading"] /\ lock' = Nobody /\ UNCHANGED disk
    BY <1>4 DEF SeeNames
  <2>2. "reading" \in Places /\ "reading" \notin Located \cup Holding
    BY DEF Places, Located, Decided, Holding
  <2> QED BY <1>1, <1>2, <2>1, <2>2, MovesOnly
<1> QED BY <1>3, <1>4

(* A copy is only ever completed: where a list of copies is begun, none of  *)
(* the model's is left to write.                                            *)
LEMMA WriteCopyKeeps ==
    ASSUME DownloadInv, NEW p \in Loader, NEW s \in Shards, WriteCopy(p, s) PROVE DownloadInv'
<1> DEFINE copy == IF disk.copies[s] = Absent THEN Torn ELSE Whole
<1>1. /\ at[p] = "writing" /\ s \in chosen[p] /\ disk.copies[s] # Whole
      /\ UNCHANGED <<remote, lock, at, chosen>>
      /\ disk' = [disk EXCEPT !.copies[s] = copy]
  BY DEF WriteCopy
<1>2. chosen[p] = remote.shards
  BY <1>1 DEF DownloadInv, Progress, Decided
<1>3. disk.names = Absent
  BY <1>1, <1>2 DEF DownloadInv, Snapshot
<1>4. UNCHANGED <<disk.shards, disk.index, disk.names>>
  BY <1>1 DEF DownloadInv, DownloadTypeOK
<1>5. disk' \in [shards : SUBSET Shards, index : BOOLEAN,
                 copies : [Shards -> {Absent, Torn, Whole}], names : {Absent, Torn, Whole}]
  <2> copy \in {Absent, Torn, Whole}
    OBVIOUS
  <2> HIDE DEF copy
  <2> QED BY <1>1 DEF DownloadInv, DownloadTypeOK
<1>6. DownloadTypeOK'
  BY <1>1, <1>5 DEF DownloadInv, DownloadTypeOK
<1>7. Snapshot'
  BY <1>1, <1>3, <1>4 DEF DownloadInv, Snapshot
<1>8. ASSUME NEW q \in Loader PROVE Progress(q)'
  BY <1>1, <1>4 DEF DownloadInv, Progress, SomeFile
<1>9. Alone'
  BY <1>1 DEF DownloadInv, Alone
<1> QED BY <1>6, <1>7, <1>8, <1>9 DEF DownloadInv

(* The list is begun when every copy is there.                              *)
LEMMA WriteNamesKeeps == ASSUME DownloadInv, NEW p \in Loader, WriteNames(p) PROVE DownloadInv'
<1> DEFINE names == IF disk.names = Absent THEN Torn ELSE Whole
<1>1. /\ at[p] = "writing" /\ \A s \in chosen[p] : disk.copies[s] = Whole
      /\ UNCHANGED <<remote, chosen>>
      /\ disk' = [disk EXCEPT !.names = names]
  BY DEF WriteNames
<1>2. chosen[p] = remote.shards /\ lock = p
  BY <1>1 DEF DownloadInv, Progress, Decided, Alone, Holding
<1>3. UNCHANGED <<disk.shards, disk.index, disk.copies>>
  BY <1>1 DEF DownloadInv, DownloadTypeOK
<1>4. disk' \in [shards : SUBSET Shards, index : BOOLEAN,
                 copies : [Shards -> {Absent, Torn, Whole}], names : {Absent, Torn, Whole}]
  <2> names \in {Absent, Torn, Whole}
    OBVIOUS
  <2> HIDE DEF names
  <2> QED BY <1>1 DEF DownloadInv, DownloadTypeOK
<1>5. Snapshot'
  BY <1>1, <1>2, <1>3 DEF DownloadInv, Snapshot
<1>6. /\ lock' \in {p, Nobody}
      /\ \A q \in Loader : at'[q] = IF q = p /\ lock' # p THEN "reading" ELSE at[q]
      /\ at' \in [Loader -> Places]
  <2>1. CASE disk.names = Torn
    <3>1. at' = [at EXCEPT ![p] = "reading"] /\ lock' = Nobody
      BY <2>1 DEF WriteNames
    <3> QED BY <3>1, LoaderAssumption DEF DownloadInv, DownloadTypeOK, Nobody, Places, Decided
  <2>2. CASE disk.names # Torn
    <3>1. UNCHANGED <<at, lock>>
      BY <2>2 DEF WriteNames
    <3> QED BY <3>1, <1>2 DEF DownloadInv, DownloadTypeOK
  <2> QED BY <2>1, <2>2
<1>7. DownloadTypeOK'
  BY <1>1, <1>4, <1>6 DEF DownloadInv, DownloadTypeOK
<1>8. ASSUME NEW q \in Loader PROVE Progress(q)'
  BY <1>1, <1>2, <1>3, <1>6 DEF DownloadInv, Progress, SomeFile, Located
<1>9. Alone'
  BY <1>2, <1>6 DEF DownloadInv, Alone, Holding
<1> QED BY <1>5, <1>7, <1>8, <1>9 DEF DownloadInv

(* The ends of a process: loaded, failed, dead, started again.              *)
LEMMA EndKeeps ==
    ASSUME DownloadInv, NEW p \in Loader, LoadShards(p) \/ ReadCopies(p) \/ DieLoading(p)
    PROVE  DownloadInv'
<1>1. PICK to \in {"loaded", "failed"} :
          /\ at' = [at EXCEPT ![p] = to] /\ UNCHANGED <<remote, disk, chosen>>
          /\ lock' = lock \/ (lock = p /\ lock' = Nobody)
          /\ to = "loaded" => at[p] \in {"loading", "reading"}
  <2>1. CASE LoadShards(p)
    BY <2>1 DEF LoadShards, Goes
  <2>2. CASE ReadCopies(p)
    BY <2>2 DEF ReadCopies
  <2>3. CASE DieLoading(p)
    BY <2>3 DEF DieLoading
  <2> QED BY <2>1, <2>2, <2>3
<1>2. to \in Places /\ to \notin Located \cup Holding /\ to \notin {"leaving", "filtering"}
  BY DEF Places, Located, Decided, Holding
<1>3. to \in Decided => chosen[p] = remote.shards
  BY <1>1 DEF DownloadInv, Progress, Decided
<1>4. lock' \in Loader \cup {Nobody} /\ \A q \in Loader : q # p /\ lock = q => lock' = q
  BY <1>1 DEF DownloadInv, DownloadTypeOK
<1> QED BY <1>1, <1>2, <1>3, <1>4, MovesOnly

\* A loader that starts again keeps the invariant.
LEMMA StartAgainKeeps == ASSUME DownloadInv, NEW p \in Loader, StartAgain(p) PROVE DownloadInv'
<1>1. /\ at' = [at EXCEPT ![p] = "start"] /\ chosen' = [chosen EXCEPT ![p] = {}]
      /\ UNCHANGED <<remote, disk, lock>>
  BY DEF StartAgain, Goes
<1>2. \A q \in Loader : /\ at'[q] = IF q = p THEN "start" ELSE at[q]
                        /\ q # p => chosen'[q] = chosen[q]
  BY <1>1 DEF DownloadInv, DownloadTypeOK
<1>3. DownloadTypeOK'
  BY <1>1 DEF DownloadInv, DownloadTypeOK, Places
<1>4. Snapshot'
  BY <1>1 DEF DownloadInv, Snapshot
<1>5. ASSUME NEW q \in Loader PROVE Progress(q)'
  BY <1>1, <1>2 DEF DownloadInv, Progress, SomeFile, Located, Decided
<1>6. Alone'
  BY <1>1, <1>2 DEF DownloadInv, Alone, Holding
<1> QED BY <1>3, <1>4, <1>5, <1>6 DEF DownloadInv

\* Every step, and every stutter, keeps the download invariant.
LEMMA NextDownload == DownloadInv /\ [DownloadNext]_downloadVars => DownloadInv'
<1> SUFFICES ASSUME DownloadInv, [DownloadNext]_downloadVars PROVE DownloadInv'
  OBVIOUS
<1>1. CASE UNCHANGED downloadVars
  BY <1>1 DEF DownloadInv, DownloadTypeOK, Snapshot, Progress, SomeFile, Alone, downloadVars
<1>2. ASSUME NEW p \in Loader, DownloadStep(p) PROVE DownloadInv'
  <2> USE DEF DownloadStep
  <2>1. CASE Acquire(p, "start", "looking") \/ Acquire(p, "between", "indexing")
             \/ Acquire(p, "copying", "dumping")
    BY <2>1, AcquireKeeps DEF Places, Holding, Located, Decided
  <2>2. CASE Unlock(p, "unlocking", "between") \/ Unlock(p, "leaving", "filtering")
    BY <2>2, UnlockKeeps DEF Places, Holding, Located
  <2>3. CASE Look(p) \/ FetchShard(p) \/ FetchedAll(p) \/ FetchIndex(p) \/ Filter(p)
    BY <2>3, LookKeeps, FetchShardKeeps, FetchedAllKeeps, FetchIndexKeeps, FilterKeeps
  <2>4. CASE SeeNames(p) \/ WriteNames(p) \/ \E s \in Shards : WriteCopy(p, s)
    BY <2>4, SeeNamesKeeps, WriteNamesKeeps, WriteCopyKeeps
  <2>5. CASE LoadShards(p) \/ ReadCopies(p) \/ StartAgain(p)
    BY <2>5, EndKeeps, StartAgainKeeps
  <2> QED BY <1>2, <2>1, <2>2, <2>3, <2>4, <2>5
<1>3. ASSUME NEW p \in Loader, DieLoading(p) PROVE DownloadInv'
  BY <1>3, EndKeeps
<1> QED BY <1>1, <1>2, <1>3 DEF DownloadNext

(* What a download knows holds for every set of processes and shards.       *)
THEOREM DownloadInvHolds == DownloadSpec => []DownloadInv
<1> QED BY InitDownload, NextDownload, PTL DEF DownloadSpec

(* Who gets to load has the whole model: of any model in any number of      *)
(* files, by any number of processes of which any may die at any point and  *)
(* come back (weight_utils.py).                                             *)
THEOREM LoadsWholeModelHolds == DownloadSpec => []LoadsWholeModel
<1>1. DownloadInv => LoadsWholeModel
  BY DEF DownloadInv, Snapshot, Progress, Decided, LoadsWholeModel
<1> QED BY <1>1, DownloadInvHolds, PTL

(***************************************************************************)
(* The replay of graphs.                                                   *)
(***************************************************************************)

(* A key names a bucket of its runner; the first backend always exists.     *)
LEMMA KeyOfRunner ==
    ASSUME runner \in {"target", "draft", "block", "extend", "prefill"}
    PROVE  /\ \A key \in Keys : /\ key # Nowhere
                                /\ key.bucket = "prefill" <=> runner = "prefill"
           /\ 0 \in Backends
           /\ Replayed \subseteq Backends
<1>1. ASSUME NEW key \in Keys PROVE key # Nowhere /\ (key.bucket = "prefill" <=> runner = "prefill")
  <2>1. key.bucket \in Buckets[runner]
    BY DEF Keys
  <2>2. /\ Buckets[runner] \subseteq {"decode", "verify", "draft_extend", "prefill"}
        /\ "prefill" \in Buckets[runner] => Buckets[runner] = {"prefill"} /\ runner = "prefill"
        /\ runner = "prefill" => Buckets[runner] = {"prefill"}
    BY DEF Buckets
  <2>3. Nowhere.bucket = "none"
    BY DEF Nowhere
  <2> QED BY <2>1, <2>2, <2>3
<1>2. 0 \in Backends /\ Replayed \subseteq Backends
  BY GraphAssumption DEF Backends, Replayed
<1> QED BY <1>1, <1>2

\* What the runner fixes stays fixed while the runner is the same.
LEMMA SameKeys ==
    ASSUME runner' = runner
    PROVE  /\ Keys' = Keys /\ Backends' = Backends /\ Replayed' = Replayed
           /\ \A key \in Keys : IsRaw(key)' = IsRaw(key)
<1> QED BY DEF Keys, Backends, Replayed, IsRaw

\* The initial states satisfy the graph invariant.
LEMMA InitGraph == GraphInit => GraphInv
<1> SUFFICES ASSUME GraphInit PROVE GraphInv
  OBVIOUS
<1>1. runner \in {"target", "draft", "block", "extend", "prefill"}
  BY DEF GraphInit, Buckets
<1>2. 0 \in Backends
  BY <1>1, KeyOfRunner
<1>3. aliased \in BOOLEAN
  BY DEF GraphInit
<1>4. GraphTypeOK
  BY <1>1, <1>3 DEF GraphInit, GraphTypeOK, Value, Resting, Nowhere, Uncaptured
<1>5. Stored
  BY <1>2 DEF GraphInit, Stored, Resting
<1>6. Recording
  BY DEF GraphInit, Recording, Resting
<1>7. Filled /\ Prepared
  BY DEF GraphInit, Filled, Prepared, Resting
<1>8. ReplayReadsItsBatch
  BY DEF GraphInit, ReplayReadsItsBatch
<1> QED BY <1>4, <1>5, <1>6, <1>7, <1>8 DEF GraphInv

(* What the last replay read stays as it was, as long as the runner does.   *)
LEMMA RanStays ==
    ASSUME GraphInv, runner' = runner, UNCHANGED ran \/ ran' = [i \in Backends |-> <<>>]
    PROVE  ReplayReadsItsBatch' /\ DOMAIN ran' = Backends'
<1>1. Backends' = Backends
  BY SameKeys
<1> QED BY <1>1 DEF GraphInv, GraphTypeOK, ReplayReadsItsBatch

(* A capture stores metadata of its kind.                                   *)
LEMMA CaptureOutGraphKeeps ==
    ASSUME GraphInv, NEW key \in Keys, CaptureOutGraph(key) PROVE GraphInv'
<1> DEFINE made == Made(key, "capture")
<1>0. runner \in {"target", "draft", "block", "extend", "prefill"}
  BY DEF GraphInv, GraphTypeOK
<1>1. /\ runner # "prefill"
      /\ captured' = [i \in Backends |-> [captured[i] EXCEPT ![key] = made]]
      /\ current' = [i \in Backends |-> [key |-> key, full |-> ~IsRaw(key)]]
      /\ restore' = [i \in Backends |-> IF IsRaw(key) THEN key ELSE Nowhere]
      /\ turn' = [Resting EXCEPT !.at = "warm", !.key = key]
      /\ UNCHANGED <<runner, aliased, inputs, graph, ran>>
  BY DEF CaptureOutGraph
<1>2. /\ Keys' = Keys /\ Backends' = Backends /\ Replayed' = Replayed
      /\ IsRaw(key)' = IsRaw(key)
  BY <1>1, SameKeys
<1>3. made \in RawCells
  BY <1>0, <1>1, KeyOfRunner DEF Made, RawCells, Value
<1>4. /\ turn'.at = "warm" /\ turn'.key = key /\ turn'.batch = "unset" /\ turn'.runs = 0
      /\ turn' \in [at : {"warm"}, key : Keys, batch : {"unset"}, runs : {0}]
  BY <1>1 DEF Resting
<1> HIDE DEF made
<1>5. captured' \in [Backends -> [Keys -> RawCells \cup PrefillCells \cup {Uncaptured}]]
  BY <1>1, <1>3 DEF GraphInv, GraphTypeOK
<1>6. \A i \in Backends, k \in Keys : captured'[i][k] = IF k = key THEN made ELSE captured[i][k]
  BY <1>1 DEF GraphInv, GraphTypeOK
<1>7. ReplayReadsItsBatch' /\ DOMAIN ran' = Backends'
  BY <1>1, RanStays
<1>8. GraphTypeOK'
  <2>1. current' \in [Backends -> [key : Keys \cup {Nowhere}, full : BOOLEAN]]
    BY <1>1 DEF IsRaw
  <2>2. restore' \in [Backends -> Keys \cup {Nowhere}]
    BY <1>1
  <2> QED BY <1>1, <1>2, <1>4, <1>5, <1>7, <2>1, <2>2 DEF GraphInv, GraphTypeOK
<1>9. Stored'
  BY <1>1, <1>2, <1>3, <1>4, <1>6 DEF GraphInv, Stored, StoredFor
<1>10. Recording'
  <2>1. IsRaw(turn.key)' = IsRaw(key)
    BY <1>1, <1>4 DEF IsRaw
  <2> QED BY <1>1, <1>2, <1>4, <2>1 DEF GraphInv, Recording
<1>11. Filled' /\ Prepared'
  BY <1>4 DEF Filled, Prepared
<1> QED BY <1>7, <1>8, <1>9, <1>10, <1>11 DEF GraphInv

\* The warm-up run before a capture keeps the invariant.
LEMMA WarmUpKeeps == ASSUME GraphInv, WarmUp PROVE GraphInv'
<1> DEFINE runs == turn.runs + 1
<1>1. /\ turn.at = "warm"
      /\ current' = [i \in Backends |-> [current[i] EXCEPT !.full = TRUE]]
      /\ turn' = [turn EXCEPT !.runs = runs]
      /\ UNCHANGED <<runner, aliased, inputs, captured, graph, restore, ran>>
  BY DEF WarmUp
<1>2. /\ Keys' = Keys /\ Backends' = Backends /\ Replayed' = Replayed
  BY <1>1, SameKeys
<1>3. /\ turn'.at = "warm" /\ UNCHANGED <<turn.key, turn.batch>>
      /\ turn' \in [at : {"warm"}, key : Keys \cup {Nowhere}, batch : Value \cup {"unset"}, runs : Nat]
  <2>1. runs \in Nat
    BY DEF GraphInv, GraphTypeOK
  <2> HIDE DEF runs
  <2> QED BY <1>1, <2>1 DEF GraphInv, GraphTypeOK
<1>4. current' \in [Backends -> [key : Keys \cup {Nowhere}, full : BOOLEAN]]
  BY <1>1, ZenonT(60) DEF GraphInv, GraphTypeOK
<1>5. ReplayReadsItsBatch' /\ DOMAIN ran' = Backends'
  BY <1>1, RanStays
<1>6. GraphTypeOK'
  BY <1>1, <1>2, <1>3, <1>4, <1>5 DEF GraphInv, GraphTypeOK
<1>7. Stored'
  BY <1>1, <1>2, <1>3 DEF GraphInv, Stored, StoredFor
<1>8. Recording'
  BY <1>1, <1>2, <1>3 DEF GraphInv, Recording, IsRaw
<1>9. Filled' /\ Prepared'
  BY <1>3 DEF Filled, Prepared
<1> QED BY <1>5, <1>6, <1>7, <1>8, <1>9 DEF GraphInv

(* Before it is recorded, raw metadata is raw.                              *)
LEMMA AfterWarmUpKeeps == ASSUME GraphInv, AfterWarmUp PROVE GraphInv'
<1>1. /\ turn.at = "warm"
      /\ current' = [i \in Backends |-> Restored(i)]
      /\ turn' = [turn EXCEPT !.at = "record"]
      /\ UNCHANGED <<runner, aliased, inputs, captured, graph, restore, ran>>
  BY DEF AfterWarmUp
<1>2. /\ Keys' = Keys /\ Backends' = Backends /\ Replayed' = Replayed
  BY <1>1, SameKeys
<1>3. /\ turn'.at = "record" /\ UNCHANGED <<turn.key, turn.batch>>
      /\ turn' \in [at : {"record"}, key : Keys \cup {Nowhere}, batch : Value \cup {"unset"}, runs : Nat]
  BY <1>1 DEF GraphInv, GraphTypeOK
<1>4. ASSUME NEW i \in Backends
      PROVE  /\ Restored(i) \in [key : Keys \cup {Nowhere}, full : BOOLEAN]
             /\ IsRaw(turn.key) => ~Restored(i).full
  <2>1. /\ restore[i] \in Keys \cup {Nowhere}
        /\ current[i] \in [key : Keys \cup {Nowhere}, full : BOOLEAN]
        /\ IsRaw(turn.key) => restore[i] = turn.key
    BY <1>1 DEF GraphInv, GraphTypeOK, Recording
  <2>2. IsRaw(turn.key) => turn.key # Nowhere
    BY DEF IsRaw
  <2> QED BY <2>1, <2>2 DEF Restored
<1>5. /\ current' \in [Backends -> [key : Keys \cup {Nowhere}, full : BOOLEAN]]
      /\ IsRaw(turn.key) => \A i \in Backends : ~current'[i].full
  BY <1>1, <1>4
<1>6. ReplayReadsItsBatch' /\ DOMAIN ran' = Backends'
  BY <1>1, RanStays
<1>7. GraphTypeOK'
  BY <1>1, <1>2, <1>3, <1>5, <1>6 DEF GraphInv, GraphTypeOK
<1>8. Stored'
  BY <1>1, <1>2, <1>3 DEF GraphInv, Stored, StoredFor
<1>9. Recording'
  <2>1. IsRaw(turn.key)' = IsRaw(turn.key)
    BY <1>1, <1>3 DEF IsRaw
  <2> QED BY <1>1, <1>2, <1>3, <1>5, <2>1 DEF GraphInv, Recording
<1>10. Filled' /\ Prepared'
  BY <1>3 DEF Filled, Prepared
<1> QED BY <1>6, <1>7, <1>8, <1>9, <1>10 DEF GraphInv

(* So nothing is recorded frozen.                                           *)
LEMMA RecordKeeps == ASSUME GraphInv, Record PROVE GraphInv'
<1> DEFINE how(i) == IF ~IsRaw(turn.key) THEN "stored" ELSE IF current[i].full THEN "frozen" ELSE "made"
<1>1. /\ turn.at = "record"
      /\ graph' = [i \in Backends |-> [graph[i] EXCEPT ![turn.key] = how(i)]]
      /\ current' = [i \in Backends |-> [current[i] EXCEPT !.full = TRUE]]
      /\ turn' = Resting
      /\ UNCHANGED <<runner, aliased, inputs, captured, restore, ran>>
  BY DEF Record
<1>2. /\ Keys' = Keys /\ Backends' = Backends /\ Replayed' = Replayed
  BY <1>1, SameKeys
<1>3. /\ turn'.at = "rest"
      /\ turn' \in [at : {"rest"}, key : {Nowhere}, batch : {"unset"}, runs : {0}]
  BY <1>1 DEF Resting
<1>4. current' \in [Backends -> [key : Keys \cup {Nowhere}, full : BOOLEAN]]
  BY <1>1, ZenonT(60) DEF GraphInv, GraphTypeOK
<1>5. \A i \in Backends : how(i) \in {"stored", "made"}
  BY <1>1 DEF GraphInv, Recording
<1> HIDE DEF how
<1>6. /\ graph' \in [Backends -> [Keys -> {"none", "stored", "made", "frozen"}]]
      /\ \A i \in Backends, k \in Keys : graph'[i][k] = IF k = turn.key THEN how(i) ELSE graph[i][k]
  BY <1>1, <1>5 DEF GraphInv, GraphTypeOK
<1>7. ReplayReadsItsBatch' /\ DOMAIN ran' = Backends'
  BY <1>1, RanStays
<1>8. GraphTypeOK'
  BY <1>1, <1>2, <1>3, <1>4, <1>6, <1>7 DEF GraphInv, GraphTypeOK
<1>9. Stored'
  <2>1. 0 \in Backends /\ StoredFor(turn.key)
    BY <1>1, KeyOfRunner DEF GraphInv, GraphTypeOK, Stored
  <2>2. \A key \in Keys : graph'[0][key] # "none" => StoredFor(key)
    BY <1>6, <2>1 DEF GraphInv, Stored
  <2> QED BY <1>1, <1>2, <1>3, <2>2 DEF Stored, StoredFor
<1>10. Recording'
  BY <1>2, <1>3, <1>5, <1>6 DEF GraphInv, Recording
<1>11. Filled' /\ Prepared'
  BY <1>3 DEF Filled, Prepared
<1> QED BY <1>7, <1>8, <1>9, <1>10, <1>11 DEF GraphInv

\* Capturing a prefill graph keeps the invariant.
LEMMA CapturePrefillKeeps ==
    ASSUME GraphInv, NEW key \in Keys, CapturePrefill(key) PROVE GraphInv'
<1> DEFINE made == Made(key, "capture")
<1>1. /\ turn = Resting /\ runner = "prefill"
      /\ captured' = [captured EXCEPT ![0][key] = made]
      /\ graph' = [graph EXCEPT ![0][key] = "stored"]
      /\ current' = [current EXCEPT ![0] = [key |-> key, full |-> TRUE]]
      /\ UNCHANGED <<runner, aliased, inputs, restore, turn, ran>>
  BY DEF CapturePrefill
<1>2. /\ Keys' = Keys /\ Backends' = Backends /\ Replayed' = Replayed /\ 0 \in Backends
  BY <1>1, SameKeys, KeyOfRunner
<1>3. made \in PrefillCells
  BY <1>1, KeyOfRunner DEF Made, PrefillCells, Value
<1>4. turn.at = "rest"
  BY <1>1 DEF Resting
<1> HIDE DEF made
<1>5. /\ captured' \in [Backends -> [Keys -> RawCells \cup PrefillCells \cup {Uncaptured}]]
      /\ \A k \in Keys : captured'[0][k] = IF k = key THEN made ELSE captured[0][k]
  BY <1>1, <1>2, <1>3 DEF GraphInv, GraphTypeOK
<1>6. /\ graph' \in [Backends -> [Keys -> {"none", "stored", "made", "frozen"}]]
      /\ \A i \in Backends, k \in Keys : graph'[i][k] \in {"stored", graph[i][k]}
      /\ \A k \in Keys : k # key => graph'[0][k] = graph[0][k]
  BY <1>1, <1>2 DEF GraphInv, GraphTypeOK
<1>7. current' \in [Backends -> [key : Keys \cup {Nowhere}, full : BOOLEAN]]
  BY <1>1 DEF GraphInv, GraphTypeOK
<1>8. ReplayReadsItsBatch' /\ DOMAIN ran' = Backends'
  BY <1>1, RanStays
<1>9. GraphTypeOK'
  BY <1>1, <1>2, <1>4, <1>5, <1>6, <1>7, <1>8 DEF GraphInv, GraphTypeOK
<1>10. Stored'
  BY <1>1, <1>2, <1>3, <1>4, <1>5, <1>6 DEF GraphInv, Stored, StoredFor
<1>11. Recording'
  BY <1>1, <1>2, <1>4, <1>6 DEF GraphInv, Recording
<1>12. Filled' /\ Prepared'
  BY <1>1, <1>4 DEF Filled, Prepared
<1> QED BY <1>8, <1>9, <1>10, <1>11, <1>12 DEF GraphInv

(* The runner fills its buffers for a batch when every graph is there.      *)
LEMMA FillKeeps ==
    ASSUME GraphInv, NEW key \in Keys, NEW b \in LiveBatches \cup {"idle"}, Fill(key, b)
    PROVE  GraphInv'
<1>1. /\ turn = Resting /\ AllCaptured
      /\ b = "idle" => runner # "prefill"
      /\ inputs' = [f \in Inputs |-> IF b = "idle" /\ f = "req" THEN inputs[f] ELSE b]
      /\ turn' = [at |-> "filled", key |-> key, batch |-> b, runs |-> 0]
      /\ ran' = [i \in Backends |-> <<>>]
      /\ UNCHANGED <<runner, aliased, captured, graph, current, restore>>
  BY DEF Fill
<1>2. /\ Keys' = Keys /\ Backends' = Backends /\ Replayed' = Replayed
  BY <1>1, SameKeys
<1>3. b \in Value
  BY DEF Value
<1>4. inputs' \in [Inputs -> Value]
  BY <1>1, <1>3 DEF GraphInv, GraphTypeOK
<1>5. ReplayReadsItsBatch' /\ DOMAIN ran' = Backends'
  BY <1>1, RanStays
<1>6. GraphTypeOK'
  BY <1>1, <1>2, <1>3, <1>4, <1>5 DEF GraphInv, GraphTypeOK
<1>7. Stored'
  BY <1>1, <1>2 DEF GraphInv, Stored, StoredFor, AllCaptured
<1>8. Recording'
  BY <1>1, <1>2 DEF GraphInv, Recording
<1>9. Filled'
  BY <1>1 DEF Filled, Inputs
<1>10. Prepared'
  BY <1>1 DEF Prepared
<1> QED BY <1>5, <1>6, <1>7, <1>8, <1>9, <1>10 DEF GraphInv

(* What is taken from the buffers is the batch.                             *)
LEMMA TemporaryIsBatch ==
    ASSUME GraphInv, turn.at = "filled" PROVE \A f \in Inputs : Temporary(f) = turn.batch
<1> QED BY DEF GraphInv, Filled, Temporary, Inputs

(* Preparing leaves the batch in the cells of every backend that runs.      *)
LEMMA OutGraphKeeps == ASSUME GraphInv, OutGraph PROVE GraphInv'
<1> DEFINE key == turn.key
           cells(i) == IF IsRaw(key) THEN CopyRaw(captured[i][key]) ELSE CopyFull(captured[i][key])
<1>1. /\ turn.at = "filled" /\ runner # "prefill"
      /\ captured' = [i \in Backends |->
            IF i \notin Replayed THEN captured[i] ELSE [captured[i] EXCEPT ![key] = cells(i)]]
      /\ inputs' = InputsAfterCopy
      /\ current' = [i \in Backends |->
            IF i \in Replayed THEN [key |-> key, full |-> ~IsRaw(key)] ELSE current[i]]
      /\ turn' = [turn EXCEPT !.at = "ready"]
      /\ UNCHANGED <<runner, aliased, graph, restore, ran>>
  BY DEF OutGraph
<1>2. /\ Keys' = Keys /\ Backends' = Backends /\ Replayed' = Replayed
  BY <1>1, SameKeys
<1>3. key \in Keys /\ turn.batch \in LiveBatches \cup {"idle"} /\ turn.batch \in Value
  BY <1>1 DEF GraphInv, GraphTypeOK, Filled, Value
<1>4. /\ turn'.at = "ready" /\ turn'.key = key /\ turn'.batch = turn.batch
      /\ turn' \in [at : {"ready"}, key : Keys, batch : Value \cup {"unset"}, runs : Nat]
  BY <1>1, <1>3 DEF GraphInv, GraphTypeOK
<1>5. \A f \in Inputs : Temporary(f) = turn.batch
  BY <1>1, TemporaryIsBatch
<1>6. ASSUME NEW i \in Replayed
      PROVE  /\ cells(i) \in RawCells
             /\ \A f \in Inputs : cells(i)[f] = turn.batch
             /\ runner = "extend" => cells(i)["swa"] = turn.batch
  <2>1. captured[i][key] \in RawCells
    BY <1>1, <1>3, KeyOfRunner DEF GraphInv, GraphTypeOK, Stored, StoredFor
  <2>2. DOMAIN captured[i][key] = Inputs \cup {"swa"} /\ "swa" \notin Inputs /\ "seq" \in Inputs
    BY <2>1 DEF RawCells, Inputs
  <2>3. /\ CopyRaw(captured[i][key]) \in RawCells
        /\ \A f \in Inputs : CopyRaw(captured[i][key])[f] = turn.batch
    BY <1>3, <1>5, <2>1, <2>2 DEF CopyRaw, RawCells
  <2>4. /\ CopyFull(captured[i][key]) \in RawCells
        /\ \A f \in Inputs : CopyFull(captured[i][key])[f] = turn.batch
        /\ runner = "extend" => CopyFull(captured[i][key])["swa"] = turn.batch
    BY <1>3, <1>5, <2>1, <2>2 DEF CopyFull, RawCells
  <2>5. IsRaw(key) => runner # "extend"
    BY DEF IsRaw
  <2> QED BY <2>3, <2>4, <2>5
<1> HIDE DEF key, cells
<1>7. /\ captured' \in [Backends -> [Keys -> RawCells \cup PrefillCells \cup {Uncaptured}]]
      /\ \A i \in Backends, k \in Keys : captured'[i][k] =
            IF i \in Replayed /\ k = key THEN cells(i) ELSE captured[i][k]
  BY <1>1, <1>3, <1>6 DEF GraphInv, GraphTypeOK
<1>8. inputs' \in [Inputs -> Value] /\ \A f \in Inputs : inputs'[f] \in {turn.batch, inputs[f]}
  BY <1>1, <1>3, <1>5 DEF InputsAfterCopy, GraphInv, GraphTypeOK, key
<1>9. \A f \in Inputs : aliased /\ IsRaw(key) /\ f \in {"req", "seq"} => inputs'[f] = turn.batch
  BY <1>1, <1>5 DEF InputsAfterCopy, key
<1>10. ReplayReadsItsBatch' /\ DOMAIN ran' = Backends'
  BY <1>1, RanStays
<1>11. GraphTypeOK'
  <2>1. current' \in [Backends -> [key : Keys \cup {Nowhere}, full : BOOLEAN]]
    BY <1>1, <1>3 DEF GraphInv, GraphTypeOK, IsRaw
  <2> QED BY <1>1, <1>2, <1>4, <1>7, <1>8, <1>10, <2>1 DEF GraphInv, GraphTypeOK
<1>12. Stored'
  <2>1. \A k \in Keys : StoredFor(k) => StoredFor(k)'
    BY <1>1, <1>2, <1>6, <1>7 DEF StoredFor
  <2>2. StoredFor(key)
    BY <1>1 DEF GraphInv, Stored, key
  <2> QED BY <1>1, <1>2, <1>3, <1>4, <2>1, <2>2 DEF GraphInv, Stored
<1>13. Recording'
  BY <1>1, <1>2, <1>4 DEF GraphInv, Recording
<1>14. Filled'
  <2>1. inputs["seq"] = turn.batch /\ (turn.batch = "idle" => inputs["loc"] = "idle")
    BY <1>1 DEF GraphInv, Filled
  <2> QED BY <1>1, <1>3, <1>4, <1>8, <2>1 DEF Filled, Inputs
<1>15. Prepared'
  <2>1. \A i \in Replayed, f \in Inputs : captured'[i][key][f] = turn.batch
    BY <1>3, <1>6, <1>7, KeyOfRunner DEF GraphInv, GraphTypeOK
  <2>2. IsRaw(turn.key)' = IsRaw(key)
    BY <1>1, <1>4 DEF IsRaw
  <2>3. \A i \in Replayed, f \in Inputs : Cell(i, turn.key, f)' = turn.batch
    BY <1>1, <1>4, <1>9, <2>1, <2>2 DEF Cell
  <2>4. \A i \in Replayed : runner = "extend" => captured'[i][key]["swa"] = turn.batch
    BY <1>3, <1>6, <1>7, KeyOfRunner DEF GraphInv, GraphTypeOK
  <2> QED BY <1>1, <1>2, <1>4, <2>3, <2>4 DEF Prepared
<1> QED BY <1>10, <1>11, <1>12, <1>13, <1>14, <1>15 DEF GraphInv

\* Preparing a prefill replay keeps the invariant.
LEMMA PreparePrefillKeeps == ASSUME GraphInv, PreparePrefill PROVE GraphInv'
<1> DEFINE key == turn.key
           cells == RefreshPrefill(captured[0][key])
<1>1. /\ turn.at = "filled" /\ runner = "prefill"
      /\ captured' = [captured EXCEPT ![0][key] = cells]
      /\ current' = [current EXCEPT ![0] = [key |-> key, full |-> TRUE]]
      /\ turn' = [turn EXCEPT !.at = "ready"]
      /\ UNCHANGED <<runner, aliased, inputs, graph, restore, ran>>
  BY DEF PreparePrefill
<1>2. /\ Keys' = Keys /\ Backends' = Backends /\ Replayed' = Replayed /\ 0 \in Backends
  BY <1>1, SameKeys, KeyOfRunner
<1>3. key \in Keys /\ turn.batch \in Value
  BY <1>1 DEF GraphInv, GraphTypeOK, Filled, Value
<1>4. /\ turn'.at = "ready" /\ turn'.key = key /\ turn'.batch = turn.batch
      /\ turn' \in [at : {"ready"}, key : Keys, batch : Value \cup {"unset"}, runs : Nat]
  BY <1>1, <1>3 DEF GraphInv, GraphTypeOK
<1>5. /\ cells \in PrefillCells
      /\ \A f \in Kernel : cells.held[f] = turn.batch
      /\ \A f \in Break : cells.shown[f] = turn.batch
  <2>1. captured[0][key] \in PrefillCells
    BY <1>1 DEF GraphInv, Stored, StoredFor
  <2>2. Kernel \subseteq PrefillFields /\ Break \subseteq PrefillFields
    BY DEF PrefillFields
  <2> QED BY <1>3, <2>1, <2>2 DEF RefreshPrefill, PrefillCells, CopiedFields, AssignedFields
<1> HIDE DEF key, cells
<1>6. /\ captured' \in [Backends -> [Keys -> RawCells \cup PrefillCells \cup {Uncaptured}]]
      /\ \A k \in Keys : captured'[0][k] = IF k = key THEN cells ELSE captured[0][k]
  BY <1>1, <1>2, <1>3, <1>5 DEF GraphInv, GraphTypeOK
<1>7. ReplayReadsItsBatch' /\ DOMAIN ran' = Backends'
  BY <1>1, RanStays
<1>8. /\ current' \in [Backends -> [key : Keys \cup {Nowhere}, full : BOOLEAN]]
      /\ current'[0].key = key
  BY <1>1, <1>2, <1>3 DEF GraphInv, GraphTypeOK
<1>9. GraphTypeOK'
  BY <1>1, <1>2, <1>4, <1>6, <1>7, <1>8 DEF GraphInv, GraphTypeOK
<1>10. Stored'
  <2>1. \A k \in Keys : StoredFor(k) => StoredFor(k)'
    BY <1>1, <1>2, <1>5, <1>6 DEF StoredFor
  <2>2. StoredFor(key)
    BY <1>1 DEF GraphInv, Stored, key
  <2> QED BY <1>1, <1>2, <1>3, <1>4, <2>1, <2>2 DEF GraphInv, Stored
<1>11. Recording'
  BY <1>1, <1>2, <1>4 DEF GraphInv, Recording, IsRaw
<1>12. Filled'
  BY <1>1, <1>4 DEF GraphInv, Filled
<1>13. Prepared'
  BY <1>1, <1>3, <1>4, <1>5, <1>6, <1>8 DEF Prepared
<1> QED BY <1>7, <1>9, <1>10, <1>11, <1>12, <1>13 DEF GraphInv

(* New locations in the buffer are no matter of the cells.                  *)
LEMMA RebindKeeps == ASSUME GraphInv, NEW b \in LiveBatches, Rebind(b) PROVE GraphInv'
<1>1. /\ turn.at = "ready" /\ turn.batch \in LiveBatches /\ runner \in {"draft", "extend"}
      /\ inputs' = [inputs EXCEPT !["loc"] = b]
      /\ UNCHANGED <<runner, aliased, captured, graph, current, restore, turn, ran>>
  BY DEF Rebind
<1>2. /\ Keys' = Keys /\ Backends' = Backends /\ Replayed' = Replayed
  BY <1>1, SameKeys
<1>3. /\ inputs' \in [Inputs -> Value]
      /\ \A f \in Inputs : f # "loc" => inputs'[f] = inputs[f]
  BY <1>1 DEF GraphInv, GraphTypeOK, Value
<1>4. ReplayReadsItsBatch' /\ DOMAIN ran' = Backends'
  BY <1>1, RanStays
<1>5. GraphTypeOK'
  BY <1>1, <1>2, <1>3, <1>4 DEF GraphInv, GraphTypeOK
<1>6. Stored'
  BY <1>1, <1>2 DEF GraphInv, Stored, StoredFor
<1>7. Recording'
  BY <1>1, <1>2 DEF GraphInv, Recording, IsRaw
<1>8. Filled'
  BY <1>1, <1>3, GraphAssumption DEF GraphInv, Filled, Inputs
<1>9. Prepared'
  <2>1. \A i \in Replayed, f \in Inputs : Cell(i, turn.key, f)' = Cell(i, turn.key, f)
    BY <1>1, <1>3 DEF Cell, IsRaw, Inputs
  <2> QED BY <1>1, <1>2, <2>1 DEF GraphInv, Prepared
<1> QED BY <1>4, <1>5, <1>6, <1>7, <1>8, <1>9 DEF GraphInv

(* The kernels read what was prepared.                                      *)
LEMMA ReplayKeeps == ASSUME GraphInv, Replay PROVE GraphInv'
<1> DEFINE record(i) == [batch |-> turn.batch, loc |-> inputs["loc"], reads |-> Reads(i, turn.key)]
<1>1. /\ turn.at = "ready" /\ runner # "prefill"
      /\ ran' = [i \in Backends |-> IF i \in Replayed THEN record(i) ELSE <<>>]
      /\ turn' = Resting
      /\ UNCHANGED <<runner, aliased, inputs, captured, graph, current, restore>>
  BY DEF Replay
<1>2. /\ Keys' = Keys /\ Backends' = Backends /\ Replayed' = Replayed
  BY <1>1, SameKeys
<1>3. /\ turn'.at = "rest"
      /\ turn' \in [at : {"rest"}, key : {Nowhere}, batch : {"unset"}, runs : {0}]
  BY <1>1 DEF Resting
<1>4. ASSUME NEW i \in Replayed
      PROVE  /\ \A f \in {"req", "seq", "loc"} : Reads(i, turn.key)[f] = turn.batch
             /\ Reads(i, turn.key).swa = turn.batch
             /\ Reads(i, turn.key).swa_loc = <<inputs["loc"], i>>
  <2>1. i \in Backends /\ turn.key \in Keys /\ turn.key # Nowhere
    BY <1>1, KeyOfRunner DEF GraphInv, GraphTypeOK
  <2>2. graph[i][turn.key] # "frozen"
    BY <2>1 DEF GraphInv, Recording
  <2>3. \A f \in Inputs : Cell(i, turn.key, f) = turn.batch
    BY <1>1 DEF GraphInv, Prepared
  <2>4. runner = "block" \/ IsRaw(turn.key) \/ runner = "extend"
    BY <1>1, <2>1 DEF GraphInv, GraphTypeOK, IsRaw
  <2>5. runner = "extend" => Cell(i, turn.key, "swa") = turn.batch
    BY <1>1 DEF GraphInv, Prepared, Cell
  <2>6. inputs["seq"] = turn.batch
    BY <1>1 DEF GraphInv, Filled
  <2> QED BY <2>2, <2>3, <2>4, <2>5, <2>6 DEF Reads, Inputs
<1>5. turn.batch = "idle" => inputs["loc"] = "idle"
  BY <1>1 DEF GraphInv, Filled
<1>6. ReplayReadsItsBatch' /\ DOMAIN ran' = Backends'
  <2>1. ASSUME NEW i \in Backends, ran'[i] # <<>>
        PROVE  /\ \A f \in {"req", "seq", "loc"} : ran'[i].reads[f] = ran'[i].batch
               /\ ran'[i].reads.swa = ran'[i].batch
               /\ ran'[i].reads.swa_loc = <<ran'[i].loc, i>>
               /\ ran'[i].batch = "idle" => ran'[i].loc = "idle"
    <3>1. i \in Replayed /\ ran'[i] = record(i)
      BY <1>1, <2>1
    <3> QED BY <1>4, <1>5, <3>1
  <2> QED BY <1>1, <1>2, <2>1 DEF ReplayReadsItsBatch
<1>7. GraphTypeOK'
  BY <1>1, <1>2, <1>3, <1>6 DEF GraphInv, GraphTypeOK
<1>8. Stored'
  BY <1>1, <1>2, <1>3 DEF GraphInv, Stored, StoredFor
<1>9. Recording'
  BY <1>1, <1>2, <1>3 DEF GraphInv, Recording
<1>10. Filled' /\ Prepared'
  BY <1>3 DEF Filled, Prepared
<1> QED BY <1>6, <1>7, <1>8, <1>9, <1>10 DEF GraphInv

\* A prefill replay reads the metadata its batch prepared.
LEMMA ReplayPrefillKeeps == ASSUME GraphInv, ReplayPrefill PROVE GraphInv'
<1> DEFINE key == turn.key
           old == captured[0][key]
           run == [held |-> [f \in PrefillFields |-> IF f \in Produced THEN turn.batch ELSE old.held[f]],
                   shown |-> [f \in PrefillFields |-> IF f \in Produced THEN turn.batch ELSE old.shown[f]]]
           reads == [f \in PrefillFields |->
                        IF f \in Kernel THEN run.held[f]
                        ELSE IF current[0].key = key THEN run.shown[f] ELSE "unset"]
<1>1. /\ turn.at = "ready" /\ runner = "prefill"
      /\ captured' = [captured EXCEPT ![0][key] = run]
      /\ ran' = [ran EXCEPT ![0] = [batch |-> turn.batch, reads |-> reads]]
      /\ turn' = Resting
      /\ UNCHANGED <<runner, aliased, inputs, graph, current, restore>>
  BY DEF ReplayPrefill
<1>2. /\ Keys' = Keys /\ Backends' = Backends /\ Replayed' = Replayed /\ 0 \in Backends
  BY <1>1, SameKeys, KeyOfRunner
<1>3. key \in Keys /\ turn.batch \in Value
  BY <1>1 DEF GraphInv, GraphTypeOK, Filled, Value
<1>4. /\ turn'.at = "rest"
      /\ turn' \in [at : {"rest"}, key : {Nowhere}, batch : {"unset"}, runs : {0}]
  BY <1>1 DEF Resting
<1>5. old \in PrefillCells
  BY <1>1 DEF GraphInv, Stored, StoredFor
<1>6. run \in PrefillCells
  BY <1>3, <1>5 DEF PrefillCells
<1>7. \A f \in PrefillFields : reads[f] = turn.batch
  <2>1. /\ \A f \in Kernel : old.held[f] = turn.batch /\ f \notin Produced
        /\ \A f \in Break : old.shown[f] = turn.batch
        /\ current[0].key = key
    BY <1>1 DEF GraphInv, Prepared, Kernel, Produced
  <2> QED BY <2>1 DEF PrefillFields
<1> HIDE DEF key, old, run, reads
<1>8. /\ captured' \in [Backends -> [Keys -> RawCells \cup PrefillCells \cup {Uncaptured}]]
      /\ \A k \in Keys : captured'[0][k] = IF k = key THEN run ELSE captured[0][k]
  BY <1>1, <1>2, <1>3, <1>6 DEF GraphInv, GraphTypeOK
<1>9. ReplayReadsItsBatch' /\ DOMAIN ran' = Backends'
  <2>1. Backends = {0}
    BY <1>1 DEF Backends
  <2>2. DOMAIN ran' = Backends /\ ran'[0] = [batch |-> turn.batch, reads |-> reads]
    BY <1>1, <1>2 DEF GraphInv, GraphTypeOK
  <2> QED BY <1>1, <1>2, <1>7, <2>1, <2>2 DEF ReplayReadsItsBatch
<1>10. GraphTypeOK'
  BY <1>1, <1>2, <1>4, <1>8, <1>9 DEF GraphInv, GraphTypeOK
<1>11. Stored'
  BY <1>1, <1>2, <1>4, <1>6, <1>8 DEF GraphInv, Stored, StoredFor
<1>12. Recording'
  BY <1>1, <1>2, <1>4 DEF GraphInv, Recording
<1>13. Filled' /\ Prepared'
  BY <1>4 DEF Filled, Prepared
<1> QED BY <1>9, <1>10, <1>11, <1>12, <1>13 DEF GraphInv

\* A batch run without a graph keeps the invariant.
LEMMA EagerKeeps == ASSUME GraphInv, Eager PROVE GraphInv'
<1>1. /\ turn = Resting
      /\ current' = [i \in Backends |->
            IF i \in Replayed THEN [key |-> Nowhere, full |-> TRUE] ELSE current[i]]
      /\ UNCHANGED <<runner, aliased, inputs, captured, graph, restore, turn, ran>>
  BY DEF Eager
<1>2. /\ Keys' = Keys /\ Backends' = Backends /\ Replayed' = Replayed
  BY <1>1, SameKeys
<1>3. turn.at = "rest"
  BY <1>1 DEF Resting
<1>4. current' \in [Backends -> [key : Keys \cup {Nowhere}, full : BOOLEAN]]
  BY <1>1 DEF GraphInv, GraphTypeOK
<1>5. ReplayReadsItsBatch' /\ DOMAIN ran' = Backends'
  BY <1>1, RanStays
<1>6. GraphTypeOK'
  BY <1>1, <1>2, <1>4, <1>5 DEF GraphInv, GraphTypeOK
<1>7. Stored'
  BY <1>1, <1>2, <1>3 DEF GraphInv, Stored, StoredFor
<1>8. Recording'
  BY <1>1, <1>2, <1>3 DEF GraphInv, Recording
<1>9. Filled' /\ Prepared'
  BY <1>1, <1>3 DEF Filled, Prepared
<1> QED BY <1>5, <1>6, <1>7, <1>8, <1>9 DEF GraphInv

\* Every step, and every stutter, keeps the graph invariant.
LEMMA NextGraph == GraphInv /\ [GraphNext]_graphVars => GraphInv'
<1> SUFFICES ASSUME GraphInv, [GraphNext]_graphVars PROVE GraphInv'
  OBVIOUS
<1>1. CASE UNCHANGED graphVars
  BY <1>1 DEF GraphInv, GraphTypeOK, Stored, StoredFor, Recording, Filled, Prepared, Keys,
              Backends, Replayed, Cell, IsRaw, ReplayReadsItsBatch, graphVars
<1>2. CASE \E key \in Keys : CaptureOutGraph(key) \/ CapturePrefill(key)
  BY <1>2, CaptureOutGraphKeeps, CapturePrefillKeeps
<1>3. CASE WarmUp \/ AfterWarmUp \/ Record
  BY <1>3, WarmUpKeeps, AfterWarmUpKeeps, RecordKeeps
<1>4. CASE \E key \in Keys, b \in LiveBatches \cup {"idle"} : Fill(key, b)
  BY <1>4, FillKeeps
<1>5. CASE OutGraph \/ PreparePrefill \/ \E b \in LiveBatches : Rebind(b)
  BY <1>5, OutGraphKeeps, PreparePrefillKeeps, RebindKeeps
<1>6. CASE Replay \/ ReplayPrefill \/ Eager
  BY <1>6, ReplayKeeps, ReplayPrefillKeeps, EagerKeeps
<1> QED BY <1>1, <1>2, <1>3, <1>4, <1>5, <1>6 DEF GraphNext

(* What is known of a replay holds for every number of draft steps, every   *)
(* set of graphs and every number of warm-up runs.                          *)
THEOREM GraphInvHolds == GraphSpec => []GraphInv
<1> QED BY InitGraph, NextGraph, PTL DEF GraphSpec

(* A replay of any graph, whichever batches were replayed, idle or run      *)
(* eagerly before it, works on its own batch (deepseek_v4_backend.py).      *)
THEOREM ReplayReadsItsBatchHolds == GraphSpec => []ReplayReadsItsBatch
<1>1. GraphInv => ReplayReadsItsBatch
  BY DEF GraphInv
<1> QED BY <1>1, GraphInvHolds, PTL
-----------------------------------------------------------------------------
(* The table of a group.                                                   *)
(* A rank owns the rows that lie in its share of the table.                 *)
LEMMA OwnedIs ==
    ASSUME NEW r \in Rank, NEW i \in Row
    PROVE  i \in OwnedRows(r) <=> NumRows * r < (i + 1) * TP /\ (i + 1) * TP <= NumRows * (r + 1)
<1>1. NumRows \in Nat /\ TP \in Nat \ {0} /\ r \in Nat /\ i + 1 \in Nat /\ i \in Nat
  BY GroupAssumption DEF Rank, Row
<1>2. NumRows * r \in Nat /\ NumRows * (r + 1) \in Nat
  BY <1>1
<1>3. RowStart(r) < i + 1 <=> NumRows * r < (i + 1) * TP
  BY <1>1, <1>2, DivLess DEF RowStart
<1>4. RowStart(r + 1) < i + 1 <=> NumRows * (r + 1) < (i + 1) * TP
  BY <1>1, <1>2, DivLess DEF RowStart
<1>5. RowStart(r) \in Nat /\ RowStart(r + 1) \in Nat
  BY <1>1, <1>2, DivIs DEF RowStart
<1>6. i \in OwnedRows(r) <=> RowStart(r) < i + 1 /\ ~(RowStart(r + 1) < i + 1)
  BY <1>1, <1>5 DEF OwnedRows
<1>7. (i + 1) * TP \in Nat
  BY <1>1
<1> QED BY <1>2, <1>3, <1>4, <1>6, <1>7

(* Every row has an owner, and one only, however the rows divide.           *)
LEMMA OneOwner ==
    ASSUME NEW i \in Row
    PROVE  \E r \in Rank : i \in OwnedRows(r) /\ \A q \in Rank : i \in OwnedRows(q) => q = r
<1> DEFINE c == (i + 1) * TP
           r == (c - 1) \div NumRows
<1>1. NumRows \in Nat \ {0} /\ TP \in Nat \ {0} /\ i \in Nat /\ i + 1 <= NumRows
  BY GroupAssumption DEF Row
<1>2. c \in Nat /\ TP * 1 <= c /\ c <= NumRows * TP
  <2>1. 1 * TP <= (i + 1) * TP /\ (i + 1) * TP <= NumRows * TP
    BY <1>1, MulMono
  <2> QED BY <1>1, <2>1
<1>3. c - 1 \in Nat
  BY <1>1, <1>2
<1> HIDE DEF c
<1>4. r \in Nat /\ r * NumRows <= c - 1 /\ c - 1 < r * NumRows + NumRows
  BY <1>1, <1>3, DivIs
<1>5. r < TP
  <2>1. c - 1 < TP * NumRows
    BY <1>1, <1>2, <1>3
  <2> QED BY <1>1, <1>3, <2>1, DivLess
<1> HIDE DEF r
<1>6. r \in Rank
  BY <1>1, <1>4, <1>5 DEF Rank
<1>7. NumRows * r < c /\ c <= NumRows * (r + 1)
  <2>1. NumRows * r = r * NumRows /\ NumRows * (r + 1) = r * NumRows + NumRows
    BY <1>1, <1>4
  <2>2. r * NumRows \in Nat
    BY <1>1, <1>4
  <2> QED BY <1>1, <1>2, <1>4, <2>1, <2>2
<1>8. i \in OwnedRows(r)
  BY <1>6, <1>7, OwnedIs DEF c
<1>9. ASSUME NEW q \in Rank, i \in OwnedRows(q) PROVE q = r
  <2>1. NumRows * q < c /\ c <= NumRows * (q + 1) /\ q \in Nat
    BY <1>9, OwnedIs DEF c, Rank
  <2>2. ASSUME NEW x \in Nat, NEW y \in Nat, x < y, NumRows * y < c, c <= NumRows * (x + 1)
        PROVE  FALSE
    <3>1. (x + 1) * NumRows <= y * NumRows
      BY <1>1, <2>2, MulMono
    <3>2. NumRows * (x + 1) \in Nat /\ NumRows * y \in Nat /\ NumRows * (x + 1) <= NumRows * y
      BY <1>1, <3>1
    <3> QED BY <1>2, <2>2, <3>2
  <2> QED BY <1>4, <1>7, <2>1, <2>2
<1> QED BY <1>6, <1>8, <1>9

(* So a row is due as its owner has it, and that does not change.           *)
LEMMA DueIs ==
    ASSUME NEW i \in Row
    PROVE  /\ \A r \in Rank : i \in OwnedRows(r) => Source(r, i) = Due(i)
           /\ Due(i) \in Nat
           /\ UNCHANGED tables => Due(i)' = Due(i)
<1>1. \A r \in Rank : i \in OwnedRows(r) => r = CHOOSE q \in Rank : i \in OwnedRows(q)
  BY OneOwner
<1>2. Checkpoint(i) \in Nat
  BY DEF Checkpoint, Row
<1> QED BY <1>1, <1>2 DEF Due, Source

\* A rank that has reached the loaded stage is loaded or serves.
LEMMA BehindStage ==
    ASSUME NEW r \in Rank
    PROVE  Reached(r, "loaded") => stage[r] \in {"loaded", "serving"}
<1> QED BY DEF Reached, Steps

\* The initial states satisfy the table invariant.
LEMMA InitTable == TableInit => TableInv
<1> SUFFICES ASSUME TableInit PROVE TableInv
  OBVIOUS
<1>1. TableTypeOK
  <2>1. tables.layout \in {"device", "shared", "private"}
    BY GroupAssumption DEF TableInit
  <2>2. memory \in [Rank -> [Tensor -> [Row -> Int]]]
    BY DEF TableInit, Nothing
  <2>3. stage \in [Rank -> Stages]
    BY DEF TableInit, Stages
  <2> QED BY <2>1, <2>2, <2>3 DEF TableTypeOK
<1>2. \A q \in Rank : stage[q] = "new"
  BY DEF TableInit
<1>3. (\A q \in Rank : LoadedBy(q)) /\ SharedWhole
  BY <1>2 DEF LoadedBy, SharedWhole
<1>4. LookupIsOwnersRow
  BY DEF TableInit, LookupIsOwnersRow
<1> QED BY <1>1, <1>3, <1>4 DEF TableInv

(* A rank that moves on without a load, to a stage that says no more.       *)
LEMMA StageOnly ==
    ASSUME TableInv, NEW r \in Rank, NEW to \in Stages, UNCHANGED <<tables, memory, answers>>,
           stage' = [stage EXCEPT ![r] = to],
           to \in {"weights", "loaded", "serving"} => stage[r] = "loaded",
           to = "serving" /\ Shared =>
              \A p \in Rank, t \in Tensor, i \in Row : memory[p][t][i] = Due(i)
    PROVE  TableInv'
<1>1. TableTypeOK'
  BY DEF TableInv, TableTypeOK
<1>2. \A q \in Rank : stage'[q] = IF q = r THEN to ELSE stage[q]
  BY DEF TableInv, TableTypeOK
<1>3. ASSUME NEW q \in Rank PROVE LoadedBy(q)'
  BY <1>2, DueIs DEF TableInv, LoadedBy, Shared
<1>4. SharedWhole'
  BY <1>2, DueIs DEF TableInv, SharedWhole, Shared
<1>5. LookupIsOwnersRow'
  BY DEF TableInv, LookupIsOwnersRow, Due, Source
<1> QED BY <1>1, <1>3, <1>4, <1>5 DEF TableInv

(* A rank writes its own rows as they are due.                              *)
LEMMA LoadRowsWrites ==
    ASSUME TableInv, NEW r \in Rank, NEW t \in Tensor, LoadRows(r, t)
    PROVE  /\ memory' \in [Rank -> [Tensor -> [Row -> Int]]]
           /\ \A p \in Rank, u \in Tensor, i \in Row :
                 memory'[p][u][i] = IF (p = r \/ Shared) /\ u = t /\ i \in OwnedRows(r)
                                    THEN Due(i) ELSE memory[p][u][i]
<1> DEFINE rows(p) == [i \in Row |-> IF i \in OwnedRows(r) THEN Source(r, i) ELSE memory[p][t][i]]
<1>1. memory' = [p \in Rank |-> IF p = r \/ Shared THEN [memory[p] EXCEPT ![t] = rows(p)]
                                ELSE memory[p]]
  BY DEF LoadRows
<1>2. memory \in [Rank -> [Tensor -> [Row -> Int]]]
  BY DEF TableInv, TableTypeOK
<1>3. \A i \in Row : i \in OwnedRows(r) => Source(r, i) = Due(i)
  BY DueIs
<1>4. \A i \in Row : Due(i) \in Int
  BY DueIs
<1>5. ASSUME NEW p \in Rank
      PROVE  /\ rows(p) \in [Row -> Int]
             /\ \A i \in Row : rows(p)[i] = IF i \in OwnedRows(r) THEN Due(i) ELSE memory[p][t][i]
  BY <1>2, <1>3, <1>4
<1> HIDE DEF rows
<1>6. memory' \in [Rank -> [Tensor -> [Row -> Int]]]
  BY <1>1, <1>2, <1>5
<1>7. ASSUME NEW p \in Rank, NEW u \in Tensor, NEW i \in Row
      PROVE  memory'[p][u][i] = IF (p = r \/ Shared) /\ u = t /\ i \in OwnedRows(r)
                                THEN Due(i) ELSE memory[p][u][i]
  <2>1. CASE (p = r \/ Shared) /\ u = t
    <3>1. memory'[p][u] = rows(p)
      BY <1>1, <1>2, <2>1
    <3> QED BY <1>5, <2>1, <3>1
  <2>2. CASE ~((p = r \/ Shared) /\ u = t)
    <3>1. memory'[p][u] = memory[p][u]
      BY <1>1, <1>2, <2>2
    <3> QED BY <2>2, <3>1
  <2> QED BY <2>1, <2>2
<1> QED BY <1>6, <1>7

\* Writing the rows of a weight or of a scale keeps the invariant.
LEMMA LoadKeeps ==
    ASSUME TableInv, NEW r \in Rank, LoadWeight(r) \/ LoadScale(r) PROVE TableInv'
<1>1. PICK t \in Tensor, to \in {"weights", "loaded"} :
          /\ LoadRows(r, t) /\ stage' = [stage EXCEPT ![r] = to] /\ UNCHANGED <<tables, answers>>
          /\ to = "weights" => t = "weight"
          /\ to = "loaded" => t = "scale" /\ stage[r] = "weights"
  BY DEF LoadWeight, LoadScale, Go, Tensor
<1>2. /\ memory' \in [Rank -> [Tensor -> [Row -> Int]]]
      /\ \A p \in Rank, u \in Tensor, i \in Row :
            memory'[p][u][i] = IF (p = r \/ Shared) /\ u = t /\ i \in OwnedRows(r)
                               THEN Due(i) ELSE memory[p][u][i]
  BY <1>1, LoadRowsWrites
<1>3. \A q \in Rank : stage'[q] = IF q = r THEN to ELSE stage[q]
  BY <1>1 DEF TableInv, TableTypeOK
<1>4. TableTypeOK'
  BY <1>1, <1>2 DEF TableInv, TableTypeOK, Stages
<1>5. Shared' = Shared /\ \A i \in Row : Due(i)' = Due(i)
  BY <1>1, DueIs DEF Shared
<1>6. ASSUME NEW q \in Rank PROVE LoadedBy(q)'
  <2> SUFFICES ASSUME NEW p \in Rank, p = q \/ Shared, NEW i \in Row, i \in OwnedRows(q)
               PROVE  /\ stage'[q] \in {"weights", "loaded", "serving"} =>
                            memory'[p]["weight"][i] = Due(i)
                      /\ stage'[q] \in {"loaded", "serving"} =>
                            memory'[p]["scale"][i] = Due(i)
    BY <1>5 DEF LoadedBy
  <2>1. /\ stage[q] \in {"weights", "loaded", "serving"} => memory[p]["weight"][i] = Due(i)
        /\ stage[q] \in {"loaded", "serving"} => memory[p]["scale"][i] = Due(i)
    BY DEF TableInv, LoadedBy
  <2>2. \A u \in Tensor :
            memory'[p][u][i] = IF (p = r \/ Shared) /\ u = t /\ i \in OwnedRows(r)
                               THEN Due(i) ELSE memory[p][u][i]
    BY <1>2
  <2>3. CASE q = r
    BY <1>1, <1>3, <2>1, <2>2, <2>3 DEF Tensor
  <2>4. CASE q # r
    BY <1>3, <2>1, <2>2, <2>4 DEF Tensor
  <2> QED BY <2>3, <2>4
<1>7. SharedWhole'
  <2>1. \A p \in Rank, u \in Tensor, i \in Row :
            memory[p][u][i] = Due(i) => memory'[p][u][i] = Due(i)
    BY <1>2
  <2>2. (\E q \in Rank : stage'[q] = "serving") => \E q \in Rank : stage[q] = "serving"
    BY <1>1, <1>3
  <2> QED BY <1>5, <2>1, <2>2 DEF TableInv, SharedWhole
<1>8. LookupIsOwnersRow'
  BY <1>1 DEF TableInv, LookupIsOwnersRow, Due, Source
<1> QED BY <1>4, <1>6, <1>7, <1>8 DEF TableInv

(* Behind the barrier of a shared table every row has been loaded.          *)
LEMMA FinishLoadKeeps == ASSUME TableInv, NEW r \in Rank, FinishLoad(r) PROVE TableInv'
<1>1. /\ stage[r] = "loaded" /\ stage' = [stage EXCEPT ![r] = "serving"]
      /\ Shared => \A q \in Rank : stage[q] \in {"loaded", "serving"}
      /\ UNCHANGED <<tables, memory, answers>>
  BY BehindStage DEF FinishLoad, Go, Everybody
<1>2. ASSUME Shared, NEW p \in Rank, NEW t \in Tensor, NEW i \in Row
      PROVE  memory[p][t][i] = Due(i)
  <2>1. PICK q \in Rank : i \in OwnedRows(q)
    BY OneOwner
  <2> QED BY <1>1, <1>2, <2>1 DEF TableInv, LoadedBy, Tensor
<1> QED BY <1>1, <1>2, StageOnly DEF Stages

\* Opening the table, attaching to it and the death of a rank keep the invariant.
LEMMA OpenAttachDieKeeps ==
    ASSUME TableInv, NEW r \in Rank, Open(r) \/ Attach(r) \/ Die(r) PROVE TableInv'
<1>1. PICK to \in {"opened", "attached", "dead"} :
          stage' = [stage EXCEPT ![r] = to] /\ UNCHANGED <<tables, memory, answers>>
  BY DEF Open, Attach, Die, Go
<1> QED BY <1>1, StageOnly DEF Stages

(* A batch is a sequence of sequences of rows, one for every group; a rank  *)
(* belongs to one of them.                                                  *)
LEMMA BatchIs ==
    ASSUME NEW lots \in Batches, NEW r \in Rank
    PROVE  lots \in Seq(Seq(Row)) /\ GroupOf(r, Len(lots)) \in 1..Len(lots)
<1>1. PICK groups \in 1..TP : lots \in [1..groups -> SeqOf(Row, MaxIds)]
  BY DEF Batches
<1>2. SeqOf(Row, MaxIds) \subseteq Seq(Row)
  <2>1. ASSUME NEW s \in SeqOf(Row, MaxIds) PROVE s \in Seq(Row)
    <3>1. PICK m \in 0..MaxIds : s \in [1..m -> Row]
      BY DEF SeqOf
    <3>2. m \in Nat
      BY GroupAssumption
    <3> QED BY <3>1, <3>2
  <2> QED BY <2>1
<1>3. groups \in Nat /\ lots \in Seq(Seq(Row)) /\ Len(lots) = groups
  <2>1. lots \in [1..groups -> Seq(Row)] /\ groups \in Nat
    BY <1>1, <1>2, GroupAssumption
  <2> QED BY <2>1
<1>4. r \in Nat /\ groups \in Nat \ {0} /\ TP \in Nat \ {0} /\ r < TP /\ r * groups \in Nat
  BY <1>1, <1>3, GroupAssumption DEF Rank
<1>5. r * groups < groups * TP
  <2>1. (r + 1) * groups <= TP * groups /\ (r + 1) * groups = r * groups + groups
    BY <1>4, MulMono, MulNext
  <2>2. TP * groups = groups * TP /\ groups * TP \in Nat
    BY <1>4
  <2> QED BY <1>4, <2>1, <2>2
<1>6. (r * groups) \div TP < groups /\ (r * groups) \div TP \in Nat
  BY <1>4, <1>5, DivLess, DivIs
<1> QED BY <1>3, <1>4, <1>6 DEF GroupOf

(* One row of one rank and zeros of the others sum up to the row.           *)
LEMMA SumIsRow ==
    ASSUME TableInv, \A r \in Rank : stage[r] = "serving", NEW i \in Row
    PROVE  AllReduce(i) = Due(i)
<1>1. PICK r \in Rank : i \in OwnedRows(r) /\ \A q \in Rank : i \in OwnedRows(q) => q = r
  BY OneOwner
<1>2. memory[r]["weight"][i] = Due(i) /\ memory[r]["scale"][i] = Due(i)
  BY <1>1 DEF TableInv, LoadedBy
<1>3. Due(i) \in Nat /\ Due(i) # Nothing
  BY DueIs DEF Nothing
<1>4. OwnedValue(r, i) = Due(i)
  BY <1>1, <1>2, <1>3 DEF OwnedValue, Read
<1>5. \A q \in Rank : q # r => OwnedValue(q, i) = 0
  BY <1>1 DEF OwnedValue
<1>6. CASE Due(i) = 0
  BY <1>4, <1>5, <1>6 DEF AllReduce
<1>7. CASE Due(i) # 0
  <2> DEFINE c == CHOOSE q \in Rank : OwnedValue(q, i) # 0
  <2>1. \E q \in Rank : OwnedValue(q, i) # 0
    BY <1>4, <1>7
  <2>2. c \in Rank /\ OwnedValue(c, i) # 0
    BY <2>1, Zenon
  <2> HIDE DEF c
  <2>3. OwnedValue(c, i) = Due(i)
    BY <1>4, <1>5, <2>2
  <2>4. \E p \in Rank : \A q \in Rank : q # p => OwnedValue(q, i) = 0
    BY <1>5
  <2> QED BY <2>1, <2>3, <2>4, Zenon DEF AllReduce, c
<1> QED BY <1>6, <1>7

\* The answer of a serving rank to row ids is the row due for each id.
LEMMA AnswerIs ==
    ASSUME TableInv, NEW r \in Rank, NEW ids \in Seq(Row),
           IF Shared THEN stage[r] = "serving" ELSE \A q \in Rank : stage[q] = "serving"
    PROVE  Answer(r, ids) = [k \in DOMAIN ids |-> Due(ids[k])]
<1>1. \A k \in DOMAIN ids : ids[k] \in Row
  OBVIOUS
<1>2. ASSUME Shared, NEW i \in Row PROVE Read(r, i) = Due(i)
  <2>1. \A t \in Tensor : memory[r][t][i] = Due(i)
    BY <1>2 DEF TableInv, SharedWhole
  <2>2. Due(i) # Nothing
    BY <1>2, DueIs DEF Nothing
  <2> QED BY <2>1, <2>2 DEF Read, Tensor
<1>3. ASSUME ~Shared, NEW i \in Row PROVE AllReduce(i) = Due(i)
  BY <1>3, SumIsRow
<1>4. CASE Shared
  BY <1>1, <1>2, <1>4 DEF Answer
<1>5. CASE ~Shared
  BY <1>1, <1>3, <1>5 DEF Answer
<1> QED BY <1>4, <1>5

(* A rank's slice of what all looked up is what it looked up.               *)
LEMMA SliceIs ==
    ASSUME TableInv, NEW r \in Rank, NEW lots \in Batches,
           IF Shared THEN stage[r] = "serving" ELSE \A q \in Rank : stage[q] = "serving"
    PROVE  LET mine == lots[GroupOf(r, Len(lots))]
           IN  Slice(r, lots) = [k \in DOMAIN mine |-> Due(mine[k])]
<1> DEFINE g == GroupOf(r, Len(lots))
           mine == lots[g]
           all == FlattenSeq(lots)
           start == SliceStart(lots, g)
           n == Len(mine)
<1>1. lots \in Seq(Seq(Row)) /\ g \in 1..Len(lots)
  BY BatchIs
<1>2. mine \in Seq(Row) /\ n \in Nat /\ DOMAIN mine = 1..n
  BY <1>1
<1>3. all \in Seq(Row)
  <2>1. Len(lots) \in 0..Len(lots)
    BY <1>1
  <2> QED BY <1>1, <2>1, FlattenSeqSteps
<1>4. start \in Nat
  <2>1. g - 1 \in 0..Len(lots)
    BY <1>1
  <2>2. FlattenSeq(SubSeq(lots, 1, g - 1)) \in Seq(Row)
    BY <1>1, <2>1, FlattenSeqSteps
  <2> QED BY <2>2 DEF SliceStart
<1>5. \A k \in 1..n : start + k \in 1..Len(all) /\ all[start + k] = mine[k]
  BY <1>1, FlattenSeqAt DEF SliceStart
<1>6. Answer(r, mine) = [k \in DOMAIN mine |-> Due(mine[k])]
  BY <1>2, AnswerIs
<1>7. Answer(r, all) = [k \in DOMAIN all |-> Due(all[k])]
  BY <1>3, AnswerIs
<1>8. Slice(r, lots) = IF Shared THEN Answer(r, mine)
                        ELSE SubSeq(Answer(r, all), start + 1, start + n)
  BY DEF Slice
<1>9. \A k \in 1..n : mine[k] \in Row
  BY <1>2
<1> HIDE DEF g, mine, all, start, n
<1>10. \A k \in 1..n : Answer(r, all)[start + k] = Due(mine[k])
  BY <1>3, <1>5, <1>7
<1>11. \A k \in 1..n : Due(mine[k]) \in Int
  BY <1>9, DueIs
<1>12. SubSeq(Answer(r, all), start + 1, start + n) = [k \in 1..n |-> Due(mine[k])]
  <2> DEFINE a == Answer(r, all)
             b == SubSeq(a, start + 1, start + n)
  <2>1. \A j \in start + 1..start + n : a[j] \in Int
    <3> TAKE j \in start + 1..start + n
    <3>1. j - start \in 1..n /\ start + (j - start) = j
      BY <1>2, <1>4
    <3> QED BY <1>10, <1>11, <3>1
  <2> HIDE DEF a
  <2>2. /\ b \in Seq(Int)
        /\ Len(b) = n
        /\ \A k \in 1..n : b[k] = a[start + k]
    <3>1. /\ start + 1 \in Int /\ start + n \in Int
          /\ (start + n) - (start + 1) + 1 = n
          /\ \A k \in 1..n : (start + 1) + k - 1 = start + k
          /\ (start + 1 <= start + n <=> n # 0)
      BY <1>2, <1>4
    <3> QED BY <1>2, <2>1, <3>1, SubSeqProperties
  <2> HIDE DEF b
  <2>3. b = [k \in 1..n |-> b[k]]
    BY <2>2
  <2> QED BY <1>10, <2>2, <2>3 DEF a, b
<1> QED BY <1>2, <1>6, <1>8, <1>12 DEF g, mine

\* A lookup returns the rows that are due, so the invariant holds after it.
LEMMA LookupKeeps ==
    ASSUME TableInv, NEW lots \in Batches, NEW readers \in {Rank} \cup {{r} : r \in Rank},
           Lookup(lots, readers)
    PROVE  TableInv'
<1>1. /\ \A r \in readers : stage[r] = "serving"
      /\ ~Shared => readers = Rank
      /\ answers' = [r \in readers |-> [asked |-> lots[GroupOf(r, Len(lots))],
                                        got |-> Slice(r, lots)]]
      /\ UNCHANGED <<tables, stage, memory>>
  BY DEF Lookup
<1>2. readers \subseteq Rank
  OBVIOUS
<1>3. ASSUME NEW r \in readers
      PROVE  LET mine == lots[GroupOf(r, Len(lots))]
             IN  Slice(r, lots) = [k \in DOMAIN mine |-> Due(mine[k])]
  BY <1>1, <1>2, SliceIs
<1>4. LookupIsOwnersRow'
  <2>1. ASSUME NEW r \in DOMAIN answers'
        PROVE  answers'[r].got =
                   [k \in DOMAIN answers'[r].asked |-> Due(answers'[r].asked[k])]
    <3>1. r \in readers
      BY <1>1, <2>1
    <3>2. /\ answers'[r].asked = lots[GroupOf(r, Len(lots))]
          /\ answers'[r].got = Slice(r, lots)
      BY <1>1, <3>1
    <3> QED BY <1>3, <3>1, <3>2
  <2>2. \A r \in DOMAIN answers' : \A k \in DOMAIN answers'[r].asked :
            Due(answers[r].asked[k])' = Due(answers'[r].asked[k])
    BY <1>1 DEF Due, Source
  <2> QED BY <2>1, <2>2 DEF LookupIsOwnersRow
<1>5. TableTypeOK' /\ SharedWhole' /\ \A q \in Rank : LoadedBy(q)'
  BY <1>1, DueIs DEF TableInv, TableTypeOK, SharedWhole, LoadedBy, Shared
<1> QED BY <1>4, <1>5 DEF TableInv

\* Every step, and every stutter, keeps the table invariant.
LEMMA NextTable == TableInv /\ [TableNext]_tableVars => TableInv'
<1> SUFFICES ASSUME TableInv, [TableNext]_tableVars PROVE TableInv'
  OBVIOUS
<1>1. CASE UNCHANGED tableVars
  BY <1>1 DEF TableInv, TableTypeOK, SharedWhole, LoadedBy, Shared, LookupIsOwnersRow, Due,
              Source, tableVars
<1>2. CASE \E r \in Rank : \/ Open(r) \/ Attach(r) \/ LoadWeight(r) \/ LoadScale(r)
                           \/ FinishLoad(r) \/ Die(r)
  BY <1>2, OpenAttachDieKeeps, LoadKeeps, FinishLoadKeeps
<1>3. CASE \E lots \in Batches, readers \in {Rank} \cup {{r} : r \in Rank} : Lookup(lots, readers)
  BY <1>3, LookupKeeps
<1>4. CASE Use
  <2>1. answers' = <<>> /\ UNCHANGED <<tables, stage, memory>>
    BY <1>4 DEF Use
  <2>2. LookupIsOwnersRow'
    BY <2>1 DEF LookupIsOwnersRow
  <2> QED BY <2>1, <2>2, DueIs DEF TableInv, TableTypeOK, SharedWhole, LoadedBy, Shared
<1> QED BY <1>1, <1>2, <1>3, <1>4 DEF TableNext

(* What the ranks of a group have loaded holds for every size of the table  *)
(* and of the group, whether one divides the other or not.                  *)
THEOREM TableInvHolds == TableSpec => []TableInv
<1> QED BY InitTable, NextTable, PTL DEF TableSpec

(* Every lookup returns, to every rank and in the order they were asked     *)
(* for, the rows as their owners load them - the checkpoint's, or zeros in  *)
(* a hole of the owner's local store: for every number of rows, ranks and   *)
(* ids, every layout and local store and every way the ranks form groups.   *)
THEOREM LookupIsOwnersRowHolds == TableSpec => []LookupIsOwnersRow
<1>1. TableInv => LookupIsOwnersRow
  BY DEF TableInv
<1> QED BY <1>1, TableInvHolds, PTL
-----------------------------------------------------------------------------
(* The window of shards.                                                   *)
LEMMA NumFilesFacts == /\ NumFiles \in Nat /\ File = 1..NumFiles /\ File \subseteq Nat /\ 0 \notin File
                       /\ IsFiniteSet(File) /\ Cardinality(File) = NumFiles
                       /\ Buffer \in Nat \ {0}
<1>1. NumFiles \in Nat /\ MaxWorkers \in Nat
  BY WindowAssumption
<1>2. IsFiniteSet(1..NumFiles) /\ Cardinality(1..NumFiles) = NumFiles
  BY <1>1, FS_Interval
<1> QED BY <1>1, <1>2 DEF File, Buffer

\* The numbers from 1 to m are m.
LEMMA CountTo == ASSUME NEW m \in Nat PROVE Cardinality(1..m) = m /\ IsFiniteSet(1..m)
<1> QED BY FS_Interval

\* At most every file is submitted, and all of them exactly when the count says so.
LEMMA HowMany ==
    /\ Cardinality(Submitted) \in Nat
    /\ Cardinality(Submitted) <= NumFiles
    /\ Cardinality(Submitted) = NumFiles <=> Submitted = File
<1>1. Submitted \in SUBSET File
  BY DEF Submitted
<1>2. IsFiniteSet(Submitted) /\ Cardinality(Submitted) <= NumFiles
      /\ (Cardinality(Submitted) = NumFiles => Submitted = File)
  BY <1>1, NumFilesFacts, FS_Subset
<1> QED BY <1>2, NumFilesFacts, FS_CardinalityType

(* A sequence without the element at a place.                               *)
LEMMA RemoveAtIs ==
    ASSUME NEW S, NEW s \in Seq(S), NEW i \in 1..Len(s)
    PROVE  /\ RemoveAt(s, i) \in Seq(S)
           /\ Len(RemoveAt(s, i)) = Len(s) - 1
           /\ \A j \in 1..Len(s) - 1 : RemoveAt(s, i)[j] = IF j < i THEN s[j] ELSE s[j + 1]
<1> DEFINE a == SubSeq(s, 1, i - 1)
           b == SubSeq(s, i + 1, Len(s))
           n == Len(s)
<1>1. n \in Nat /\ i \in Nat /\ 1 <= i /\ i <= n /\ \A j \in 1..n : s[j] \in S
  OBVIOUS
<1>2. a \in Seq(S) /\ Len(a) = i - 1 /\ \A j \in 1..i - 1 : a[j] = s[j]
  <2>1. 1 \in Int /\ i - 1 \in Int /\ (\A j \in 1..i - 1 : s[j] \in S)
    BY <1>1
  <2>2. /\ a \in Seq(S) /\ Len(a) = IF 1 <= i - 1 THEN (i - 1) - 1 + 1 ELSE 0
        /\ \A j \in 1..(i - 1) - 1 + 1 : a[j] = s[1 + j - 1]
    BY <2>1, SubSeqProperties
  <2> HIDE DEF a
  <2> QED BY <1>1, <2>2
<1>3. b \in Seq(S) /\ Len(b) = n - i /\ \A j \in 1..n - i : b[j] = s[i + j]
  <2>1. i + 1 \in Int /\ n \in Int /\ (\A j \in i + 1..n : s[j] \in S)
    BY <1>1
  <2>2. /\ b \in Seq(S) /\ Len(b) = IF i + 1 <= n THEN n - (i + 1) + 1 ELSE 0
        /\ \A j \in 1..n - (i + 1) + 1 : b[j] = s[(i + 1) + j - 1]
    BY <2>1, SubSeqProperties
  <2> HIDE DEF b, n
  <2>3. \A j \in 1..n - i : j \in 1..n - (i + 1) + 1 /\ (i + 1) + j - 1 = i + j
    BY <1>1
  <2> QED BY <1>1, <2>2, <2>3
<1>4. RemoveAt(s, i) = a \o b
  BY DEF RemoveAt
<1> HIDE DEF a, b, n
<1>5. /\ a \o b \in Seq(S) /\ Len(a \o b) = Len(a) + Len(b)
      /\ \A j \in 1..Len(a) + Len(b) : (a \o b)[j] = IF j <= Len(a) THEN a[j] ELSE b[j - Len(a)]
  BY <1>2, <1>3, ConcatProperties
<1>6. Len(a) + Len(b) = n - 1
  BY <1>1, <1>2, <1>3
<1>7. ASSUME NEW j \in 1..n - 1 PROVE (a \o b)[j] = IF j < i THEN s[j] ELSE s[j + 1]
  <2>1. (a \o b)[j] = IF j <= i - 1 THEN a[j] ELSE b[j - (i - 1)]
    BY <1>2, <1>5, <1>6
  <2>2. CASE j < i
    BY <1>1, <1>2, <2>1, <2>2
  <2>3. CASE ~(j < i)
    <3>1. j - (i - 1) \in 1..n - i /\ i + (j - (i - 1)) = j + 1
      BY <1>1, <2>3
    <3> QED BY <1>1, <1>3, <2>1, <2>3, <3>1
  <2> QED BY <2>2, <2>3
<1> QED BY <1>4, <1>5, <1>6, <1>7 DEF n

\* Appending adds one element to what a sequence holds.
LEMMA AppendSet ==
    ASSUME NEW S, NEW s \in Seq(S), NEW e \in S
    PROVE  ToSet(Append(s, e)) = ToSet(s) \cup {e}
<1>1. /\ Append(s, e) \in Seq(S) /\ Len(Append(s, e)) = Len(s) + 1
      /\ \A i \in 1..Len(s) : Append(s, e)[i] = s[i]
      /\ Append(s, e)[Len(s) + 1] = e
  BY AppendProperties
<1>2. Len(s) \in Nat /\ DOMAIN s = 1..Len(s) /\ DOMAIN Append(s, e) = 1..Len(s) + 1
  BY <1>1
<1>3. 1..Len(s) + 1 = (1..Len(s)) \cup {Len(s) + 1}
  BY <1>2
<1> QED BY <1>1, <1>2, <1>3 DEF ToSet

(* A rank's slice of the files: every LocalRanks-th, from its own on.        *)
LEMMA SliceIn == ASSUME NEW r \in LocalRank PROVE SliceOf(r) \in Seq(File)
<1> DEFINE n == (NumFiles - r + (LocalRanks - 1)) \div LocalRanks
<1>1. NumFiles \in Nat /\ LocalRanks \in Nat \ {0} /\ r \in Nat /\ r < LocalRanks
  BY WindowAssumption DEF LocalRank
<1>2. NumFiles - r + (LocalRanks - 1) \in Nat
  BY <1>1
<1>3. n \in Nat /\ n * LocalRanks <= NumFiles - r + (LocalRanks - 1)
  BY <1>1, <1>2, DivIs
<1> HIDE DEF n
<1>4. ASSUME NEW i \in 1..n PROVE (i - 1) * LocalRanks + r + 1 \in File
  <2>1. i \in Nat /\ i - 1 \in Nat /\ i <= n
    BY <1>3
  <2>2. i * LocalRanks <= n * LocalRanks /\ i * LocalRanks = (i - 1) * LocalRanks + LocalRanks
    <3>1. ((i - 1) + 1) * LocalRanks = (i - 1) * LocalRanks + LocalRanks
      BY <1>1, <2>1, MulNext
    <3>2. (i - 1) + 1 = i
      BY <2>1
    <3> QED BY <1>1, <1>3, <2>1, <3>1, <3>2, MulMono
  <2>3. i * LocalRanks \in Nat /\ n * LocalRanks \in Nat /\ (i - 1) * LocalRanks \in Nat
    BY <1>1, <1>3, <2>1
  <2> QED BY <1>1, <1>3, <2>2, <2>3 DEF File
<1> DEFINE s == [i \in 1..n |-> (i - 1) * LocalRanks + r + 1]
<1>5. s \in Seq(File)
  BY <1>3, <1>4
<1> QED BY <1>5 DEF SliceOf, n

(* The slices of a node's ranks are all of the files.                       *)
LEMMA SlicesCover == ASSUME NEW f \in File PROVE \E r \in LocalRank : f \in ToSet(SliceOf(r))
<1> DEFINE q == (f - 1) \div LocalRanks
           r == (f - 1) - q * LocalRanks
           n == (NumFiles - r + (LocalRanks - 1)) \div LocalRanks
<1>1. NumFiles \in Nat /\ LocalRanks \in Nat \ {0} /\ f - 1 \in Nat /\ f <= NumFiles /\ f \in Nat
  BY WindowAssumption DEF File
<1>2. q \in Nat /\ q * LocalRanks <= f - 1 /\ f - 1 < q * LocalRanks + LocalRanks
  BY <1>1, DivIs
<1>3. q * LocalRanks \in Nat
  BY <1>1, <1>2
<1>4. r \in Nat /\ r < LocalRanks /\ f - 1 = q * LocalRanks + r
  BY <1>1, <1>2, <1>3
<1>5. r \in LocalRank
  BY <1>1, <1>4 DEF LocalRank
<1> DEFINE c == NumFiles - r + (LocalRanks - 1)
<1>6. c \in Nat
  BY <1>1, <1>4
<1> HIDE DEF q
<1> DEFINE p == q * LocalRanks
<1>7. ~(c < (q + 1) * LocalRanks)
  <2>1. (q + 1) * LocalRanks = p + LocalRanks
    BY <1>1, <1>2, MulNext
  <2> HIDE DEF p
  <2> QED BY <1>1, <1>3, <1>4, <2>1 DEF p
<1> HIDE DEF r, p, c
<1>8. ~(c \div LocalRanks < q + 1)
  BY <1>1, <1>2, <1>6, <1>7, DivLess
<1>9. c \div LocalRanks \in Nat
  BY <1>1, <1>6, DivIs
<1>10. q + 1 \in 1..(c \div LocalRanks)
  BY <1>2, <1>8, <1>9
<1>11. SliceOf(r) = [i \in 1..(c \div LocalRanks) |-> (i - 1) * LocalRanks + r + 1]
  BY DEF SliceOf, c
<1>12. SliceOf(r)[q + 1] = ((q + 1) - 1) * LocalRanks + r + 1
  BY <1>10, <1>11
<1>13. SliceOf(r)[q + 1] = f
  <2>1. (q + 1) - 1 = q
    BY <1>2
  <2>2. SliceOf(r)[q + 1] = q * LocalRanks + r + 1
    BY <1>12, <2>1
  <2>3. q * LocalRanks + r + 1 = f
    BY <1>1, <1>3, <1>4
  <2> QED BY <2>2, <2>3
<1>14. q + 1 \in DOMAIN SliceOf(r)
  BY <1>10, <1>11
<1> QED BY <1>5, <1>13, <1>14 DEF ToSet

\* The initial states satisfy the window invariant.
LEMMA InitWindow == WindowInit => WindowInv
<1> SUFFICES ASSUME WindowInit PROVE WindowInv
  OBVIOUS
<1>1. Submitted = {}
  BY DEF WindowInit, Submitted
<1>2. Cardinality({}) = 0 /\ 1..0 = {} /\ ToSet(<<>>) = {}
  BY FS_EmptySet DEF ToSet
<1>3. \A r \in LocalRank : SliceOf(r) \in Seq(File)
  BY SliceIn
<1>4. WindowTypeOK
  <2>1. \A r \in LocalRank : NotStarted(r) \in
           [left : Seq(File), reading : SUBSET File, read : SUBSET File, errors : SUBSET File,
            canceled : BOOLEAN, state : {"seeding", "running", "done"}]
    BY <1>3 DEF NotStarted
  <2> QED BY <2>1 DEF WindowInit, WindowTypeOK
<1>5. NoneLost
  BY <1>1, <1>2 DEF NoneLost, WindowInit
<1>6. Sliding
  <2>1. Len(<<>>) = 0 /\ DOMAIN <<>> = {} /\ Cardinality(Submitted) = 0 /\ Buffer \in Nat
    BY <1>1, <1>2, NumFilesFacts
  <2>2. pending = <<>> /\ yielded = <<>> /\ taken = 0
    BY DEF WindowInit
  <2> QED BY <2>1, <2>2 DEF Sliding
<1>7. IsInjective(yielded) /\ ended # "whole"
  BY DEF WindowInit, IsInjective
<1>8. ASSUME NEW r \in LocalRank PROVE ReadBy(r)
  <2>1. reader[r] = NotStarted(r)
    BY DEF WindowInit
  <2>2. Threads \in Nat
    BY WindowAssumption
  <2> QED BY <1>2, <2>1, <2>2 DEF ReadBy, NotStarted
<1> QED BY <1>4, <1>5, <1>6, <1>7, <1>8 DEF WindowInv

(* Who does nothing but move a file in the pool loses none.                 *)
LEMMA PoolKeeps ==
    ASSUME WindowInv, NEW f \in File, NEW to \in {"running", "loaded", "failed"},
           load[f] \in {"queued", "running"}, load' = [load EXCEPT ![f] = to],
           UNCHANGED <<kind, pending, taken, yielded, ended, reader>>
    PROVE  WindowInv'
<1>1. /\ WindowTypeOK /\ NoneLost /\ Sliding
      /\ \A g \in File : load'[g] = IF g = f THEN to ELSE load[g]
  BY DEF WindowInv, WindowTypeOK
<1>2. WindowTypeOK'
  BY <1>1 DEF WindowTypeOK
<1>3. Submitted' = Submitted
  BY <1>1 DEF Submitted
<1>4. yielded \in Seq(File)
  BY <1>1 DEF WindowTypeOK
<1>5. ToSet(yielded) \subseteq File
  BY <1>4 DEF ToSet
<1>6. NoneLost'
  BY <1>1, <1>3, <1>5 DEF NoneLost, WindowTypeOK
<1>7. Sliding'
  BY <1>1, <1>3 DEF Sliding
<1>8. IsInjective(yielded)' /\ (ended = "whole" => ToSet(yielded) = File)'
      /\ \A r \in LocalRank : ReadBy(r)'
  BY DEF WindowInv, ReadBy
<1> QED BY <1>2, <1>6, <1>7, <1>8 DEF WindowInv

(* The next file is submitted.                                              *)
LEMMA NextSubmitted ==
    ASSUME WindowInv, NEW f \in File, f = Cardinality(Submitted) + 1,
           load' = [load EXCEPT ![f] = "queued"]
    PROVE  /\ load' \in [File -> {"none", "queued", "running", "loaded", "failed", "dropped"}]
           /\ Submitted' = Submitted \cup {f} /\ Submitted' = 1..f /\ Cardinality(Submitted') = f
           /\ load[f] = "none" /\ \A g \in File : g # f => load'[g] = load[g]
<1>1. load \in [File -> {"none", "queued", "running", "loaded", "failed", "dropped"}]
  BY DEF WindowInv, WindowTypeOK
<1>2. Submitted = 1..Cardinality(Submitted) /\ Cardinality(Submitted) \in Nat
  BY HowMany DEF WindowInv, NoneLost
<1>3. f \notin Submitted /\ f \in Nat
  BY <1>2
<1>4. load[f] = "none"
  BY <1>3 DEF Submitted
<1>5. \A g \in File : load'[g] = IF g = f THEN "queued" ELSE load[g]
  BY <1>1
<1>6. Submitted' = Submitted \cup {f}
  BY <1>5 DEF Submitted
<1>7. Submitted' = 1..f
  BY <1>2, <1>6
<1> QED BY <1>1, <1>3, <1>4, <1>5, <1>6, <1>7, CountTo

\* Filling the window keeps the invariant.
LEMMA SeedKeeps == ASSUME WindowInv, SeedWindow PROVE WindowInv'
<1>1. PICK f \in File : f = Cardinality(Submitted) + 1 /\ Submit(f)
  BY DEF SeedWindow
<1>2. /\ taken = 0 /\ yielded = <<>> /\ Cardinality(Submitted) < Seed
      /\ ended = "no" /\ UNCHANGED <<kind, taken, yielded, ended, reader>>
      /\ pending' = Append(pending, f) /\ load' = [load EXCEPT ![f] = "queued"]
  BY <1>1 DEF SeedWindow, Submit
<1>3. /\ load' \in [File -> {"none", "queued", "running", "loaded", "failed", "dropped"}]
      /\ Submitted' = Submitted \cup {f} /\ Submitted' = 1..f /\ Cardinality(Submitted') = f
      /\ load[f] = "none" /\ \A g \in File : g # f => load'[g] = load[g]
  BY <1>1, <1>2, NextSubmitted
<1>4. pending \in Seq(File) /\ WindowTypeOK /\ NoneLost /\ Sliding
  BY DEF WindowInv, WindowTypeOK
<1>5. /\ pending' \in Seq(File) /\ Len(pending') = Len(pending) + 1
      /\ \A i \in 1..Len(pending) : pending'[i] = pending[i]
      /\ pending'[Len(pending) + 1] = f /\ ToSet(pending') = ToSet(pending) \cup {f}
      /\ DOMAIN pending = 1..Len(pending) /\ DOMAIN pending' = 1..Len(pending) + 1
      /\ Len(pending) \in Nat
  BY <1>2, <1>4, AppendProperties, AppendSet
<1>6. WindowTypeOK'
  BY <1>2, <1>3, <1>4, <1>5 DEF WindowTypeOK
<1>7. NoneLost'
  <2>1. ToSet(yielded) = {}
    BY <1>2 DEF ToSet
  <2> QED BY <1>2, <1>3, <1>4, <1>5, <2>1 DEF NoneLost
<1>8. Sliding'
  <2>1. CASE kind = "buffered"
    <3>1. Len(yielded) = 0 /\ DOMAIN yielded = {} /\ Seed = Buffer
      BY <1>2, <2>1 DEF Seed
    <3>2. /\ \A i \in DOMAIN pending : pending[i] = 0 + 0 + i
          /\ 0 + 0 + Len(pending) = Cardinality(Submitted)
      BY <1>2, <1>4, <2>1, <3>1 DEF Sliding
    <3>3. \A i \in DOMAIN pending' : pending'[i] = i
      BY <1>1, <1>5, <3>2
    <3>4. Len(pending') = Cardinality(Submitted') /\ Len(pending') <= Buffer
      BY <1>1, <1>2, <1>3, <1>5, <3>1, <3>2, NumFilesFacts
    <3> QED BY <1>2, <1>5, <3>1, <3>3, <3>4 DEF Sliding
  <2>2. CASE kind # "buffered"
    BY <1>2, <2>2 DEF Sliding
  <2> QED BY <2>1, <2>2
<1>9. IsInjective(yielded)' /\ (ended = "whole" => ToSet(yielded) = File)'
      /\ \A r \in LocalRank : ReadBy(r)'
  BY <1>2 DEF WindowInv, ReadBy
<1> QED BY <1>6, <1>7, <1>8, <1>9 DEF WindowInv
-----------------------------------------------------------------------------
(* The head of the window, or whatever is complete, is taken out.           *)
LEMMA TakenOut ==
    ASSUME WindowInv, NEW f \in Ready
    PROVE  LET rest == RemoveAt(pending, CHOOSE i \in DOMAIN pending : pending[i] = f)
           IN  /\ f \in File /\ rest \in Seq(File) /\ Len(rest) = Len(pending) - 1
               /\ ToSet(pending) \subseteq ToSet(rest) \cup {f}
               /\ Len(pending) \in Nat \ {0}
               /\ kind = "buffered" => /\ f = pending[1]
                                       /\ \A j \in 1..Len(rest) : rest[j] = pending[j + 1]
<1> DEFINE i == CHOOSE k \in DOMAIN pending : pending[k] = f
           rest == RemoveAt(pending, i)
<1>1. f \in ToSet(pending) /\ (kind = "buffered" => f = Head(pending))
  BY DEF Ready
<1>2. pending \in Seq(File) /\ Len(pending) \in Nat /\ DOMAIN pending = 1..Len(pending)
  BY DEF WindowInv, WindowTypeOK
<1>3. i \in 1..Len(pending) /\ pending[i] = f
  <2>1. \E k \in DOMAIN pending : pending[k] = f
    BY <1>1 DEF ToSet
  <2>2. i \in DOMAIN pending /\ pending[i] = f
    BY <2>1, Zenon
  <2> QED BY <1>2, <2>2
<1> HIDE DEF i
<1>4. /\ rest \in Seq(File) /\ Len(rest) = Len(pending) - 1
      /\ \A j \in 1..Len(pending) - 1 : rest[j] = IF j < i THEN pending[j] ELSE pending[j + 1]
  BY <1>2, <1>3, RemoveAtIs
<1> HIDE DEF rest
<1>5. f \in File /\ Len(pending) # 0
  BY <1>2, <1>3
<1>6. ToSet(pending) \subseteq ToSet(rest) \cup {f}
  <2> SUFFICES ASSUME NEW j \in 1..Len(pending), j # i PROVE pending[j] \in ToSet(rest)
    BY <1>2, <1>3 DEF ToSet
  <2>1. CASE j < i
    <3>1. j \in 1..Len(pending) - 1 /\ rest[j] = pending[j] /\ j \in DOMAIN rest
      BY <1>2, <1>3, <1>4, <2>1
    <3> QED BY <3>1 DEF ToSet
  <2>2. CASE ~(j < i)
    <3>1. j - 1 \in 1..Len(pending) - 1 /\ ~(j - 1 < i) /\ (j - 1) + 1 = j
      BY <1>2, <1>3, <2>2
    <3>2. rest[j - 1] = pending[j] /\ j - 1 \in DOMAIN rest
      BY <1>4, <3>1
    <3> QED BY <3>2 DEF ToSet
  <2> QED BY <2>1, <2>2
<1>7. ASSUME kind = "buffered"
      PROVE  f = pending[1] /\ \A j \in 1..Len(rest) : rest[j] = pending[j + 1]
  <2>1. f = pending[1]
    BY <1>1, <1>2, <1>5, <1>7
  <2>2. \A k \in DOMAIN pending : pending[k] =
           (Len(yielded) + IF taken = 0 THEN 0 ELSE 1) + k
    BY <1>7 DEF WindowInv, Sliding
  <2>3. Len(yielded) \in Nat
    BY DEF WindowInv, WindowTypeOK
  <2>4. i = 1
    BY <1>2, <1>3, <2>1, <2>2, <2>3
  <2> QED BY <1>2, <1>4, <2>1, <2>4
<1> QED BY <1>2, <1>4, <1>5, <1>6, <1>7 DEF rest, i

\* Taking a finished file and submitting the next keeps the invariant.
LEMMA TakeKeeps == ASSUME WindowInv, NEW f \in File, TakeNext(f) PROVE WindowInv'
<1> DEFINE rest == RemoveAt(pending, CHOOSE i \in DOMAIN pending : pending[i] = f)
           m == Cardinality(Submitted)
<1>1. WindowTypeOK /\ NoneLost /\ Sliding /\ ended = "no" /\ taken = 0 /\ f \in Ready
      /\ (m >= Seed \/ Submitted = File) /\ UNCHANGED <<kind, yielded, reader>>
  BY DEF WindowInv, TakeNext
<1>2. CASE load[f] = "failed"
  <2>1. ended' = "error" /\ UNCHANGED <<pending, load, taken, kind, yielded, reader>>
    BY <1>2 DEF TakeNext
  <2> QED BY <1>1, <2>1
        DEF WindowInv, WindowTypeOK, NoneLost, Sliding, ReadBy, Submitted
<1>3. CASE load[f] # "failed"
  <2>1. taken' = f /\ Refill(f) /\ ended' = ended
    BY <1>3 DEF TakeNext
  <2>2. load[f] = "loaded"
    BY <1>1, <1>3 DEF Ready
  <2>3. /\ rest \in Seq(File) /\ Len(rest) = Len(pending) - 1
        /\ ToSet(pending) \subseteq ToSet(rest) \cup {f} /\ Len(pending) \in Nat \ {0}
        /\ kind = "buffered" => f = pending[1] /\ \A j \in 1..Len(rest) : rest[j] = pending[j + 1]
    BY <1>1, TakenOut
  <2>4. /\ (kind = "buffered" /\ m + 1 <= NumFiles =>
               pending' = Append(rest, m + 1) /\ load' = [load EXCEPT ![m + 1] = "queued"])
        /\ (~(kind = "buffered" /\ m + 1 <= NumFiles) => pending' = rest /\ load' = load)
    BY <2>1 DEF Refill
  <2> HIDE DEF rest, m
  <2>5. yielded \in Seq(File) /\ Len(yielded) \in Nat /\ ToSet(yielded) \subseteq File
    BY <1>1 DEF WindowTypeOK, ToSet
  <2>6. m \in Nat /\ m <= NumFiles /\ (m = NumFiles <=> Submitted = File) /\ NumFiles \in Nat
    BY HowMany, NumFilesFacts DEF m
  <2>7. f \notin ToSet(yielded)
    BY <1>1, <2>2 DEF NoneLost
  <2>8. kind = "buffered" =>
           /\ f = Len(yielded) + 1
           /\ \A j \in 1..Len(rest) : rest[j] = (Len(yielded) + 1) + j
           /\ Len(yielded) + Len(pending) = m
           /\ Len(pending) <= Buffer
           /\ \A i \in DOMAIN yielded : yielded[i] = i
    <3> SUFFICES ASSUME kind = "buffered"
                 PROVE  /\ f = Len(yielded) + 1
                        /\ \A j \in 1..Len(rest) : rest[j] = (Len(yielded) + 1) + j
                        /\ Len(yielded) + Len(pending) = m
                        /\ Len(pending) <= Buffer
                        /\ \A i \in DOMAIN yielded : yielded[i] = i
      OBVIOUS
    <3>1. /\ \A i \in DOMAIN pending : pending[i] = (Len(yielded) + 0) + i
          /\ (Len(yielded) + 0) + Len(pending) = m
          /\ Len(pending) <= Buffer
          /\ \A i \in DOMAIN yielded : yielded[i] = i
      BY <1>1 DEF Sliding, m
    <3>2. DOMAIN pending = 1..Len(pending)
      BY <1>1 DEF WindowTypeOK
    <3>3. f = Len(yielded) + 1
      <4>1. f = pending[1] /\ 1 \in DOMAIN pending
        BY <2>3, <3>2
      <4> QED BY <2>5, <3>1, <4>1
    <3>4. ASSUME NEW j \in 1..Len(rest) PROVE rest[j] = (Len(yielded) + 1) + j
      <4>1. rest[j] = pending[j + 1] /\ j + 1 \in DOMAIN pending
        BY <2>3, <3>2
      <4>2. pending[j + 1] = (Len(yielded) + 0) + (j + 1)
        BY <3>1, <4>1
      <4> QED BY <2>5, <4>1, <4>2
    <3> QED BY <2>5, <3>1, <3>3, <3>4
  <2>9. CASE kind = "buffered" /\ m + 1 <= NumFiles
    <3>1. m + 1 \in File
      BY <2>6, <2>9 DEF File
    <3> DEFINE e == m + 1
    <3>2. /\ load' \in [File -> {"none", "queued", "running", "loaded", "failed", "dropped"}]
          /\ Submitted' = Submitted \cup {e} /\ Submitted' = 1..e /\ Cardinality(Submitted') = e
          /\ load[e] = "none" /\ \A g \in File : g # e => load'[g] = load[g]
      BY <2>4, <2>9, <3>1, NextSubmitted DEF m
    <3>3. /\ pending' \in Seq(File) /\ Len(pending') = Len(rest) + 1
          /\ \A i \in 1..Len(rest) : pending'[i] = rest[i]
          /\ pending'[Len(rest) + 1] = e /\ ToSet(pending') = ToSet(rest) \cup {e}
          /\ DOMAIN pending' = 1..Len(rest) + 1 /\ Len(rest) \in Nat
      <4>1. rest \in Seq(File) /\ e \in File /\ pending' = Append(rest, e)
        BY <2>3, <2>4, <2>9, <3>1
      <4> HIDE DEF e
      <4>2. ToSet(Append(rest, e)) = ToSet(rest) \cup {e}
        BY <4>1, AppendSet
      <4>3. /\ Append(rest, e) \in Seq(File) /\ Len(Append(rest, e)) = Len(rest) + 1
            /\ \A i \in 1..Len(rest) : Append(rest, e)[i] = rest[i]
            /\ Append(rest, e)[Len(rest) + 1] = e
        BY <4>1, AppendProperties
      <4>4. Len(rest) \in Nat
        BY <4>1
      <4> QED BY <4>1, <4>2, <4>3, <4>4
    <3>4. WindowTypeOK'
      BY <1>1, <2>1, <3>2, <3>3 DEF WindowTypeOK
    <3>5. NoneLost'
      <4>1. f # e /\ load'[f] = "loaded"
        BY <2>2, <3>2
      <4>2. \A g \in ToSet(yielded) : load'[g] = "dropped"
        BY <1>1, <2>5, <3>2 DEF NoneLost
      <4>3. 0 \notin Submitted
        BY NumFilesFacts DEF Submitted
      <4>4. Submitted' \subseteq ToSet(pending') \cup {f} \cup ToSet(yielded)
        BY <1>1, <2>3, <3>2, <3>3, <4>3 DEF NoneLost
      <4> QED BY <1>1, <2>1, <3>2, <4>1, <4>2, <4>4 DEF NoneLost
    <3>6. e = (Len(yielded) + 1) + (Len(rest) + 1)
      <4>1. Len(yielded) + Len(pending) = m /\ Len(rest) = Len(pending) - 1
        BY <2>3, <2>8, <2>9
      <4> HIDE DEF m
      <4>2. Len(pending) \in Nat /\ m \in Nat
        BY <2>3, <2>6
      <4> QED BY <2>5, <4>1, <4>2
    <3>7. Sliding'
      <4>1. /\ taken' # 0 /\ kind' = "buffered" /\ yielded' = yielded
            /\ Seed = Buffer
        BY <1>1, <2>1, <2>9, NumFilesFacts DEF Seed
      <4>2. Len(pending) = Buffer
        <5>1. CASE yielded # <<>>
          BY <1>1, <2>6, <2>9, <5>1 DEF Sliding
        <5>2. CASE yielded = <<>>
          <6>1. Len(yielded) = 0 /\ m >= Buffer
            BY <1>1, <2>6, <2>9, <4>1, <5>2
          <6> QED BY <2>3, <2>8, <2>9, <6>1, NumFilesFacts
        <5> QED BY <5>1, <5>2
      <4>3. Len(pending') = Buffer
        BY <2>3, <3>3, <4>2, NumFilesFacts
      <4>4. \A i \in DOMAIN pending' : pending'[i] = (Len(yielded) + 1) + i
        <5>1. e = (Len(yielded) + 1) + (Len(rest) + 1)
          BY <3>6
        <5> QED BY <2>8, <2>9, <3>3, <5>1
      <4>5. (Len(yielded) + 1) + Len(pending') = Cardinality(Submitted')
        BY <2>5, <3>2, <3>3, <3>6
      <4>6. Len(yielded) + 1 = Len(yielded') + IF taken' = 0 THEN 0 ELSE 1
        BY <4>1
      <4> QED BY <2>1, <2>8, <2>9, <4>1, <4>3, <4>4, <4>5, <4>6, NumFilesFacts DEF Sliding
    <3> QED BY <1>1, <2>1, <3>4, <3>5, <3>7 DEF WindowInv, ReadBy
  <2>10. CASE ~(kind = "buffered" /\ m + 1 <= NumFiles)
    <3>1. pending' = rest /\ load' = load /\ Submitted' = Submitted
      BY <2>4, <2>10 DEF Submitted
    <3>2. Submitted = File
      BY <1>1, <2>6, <2>10 DEF Seed, WindowTypeOK, m
    <3>3. WindowTypeOK'
      BY <1>1, <2>1, <2>3, <3>1 DEF WindowTypeOK
    <3>4. NoneLost'
      <4>1. 0 \notin Submitted
        BY NumFilesFacts DEF Submitted
      <4> QED BY <1>1, <2>1, <2>2, <2>3, <3>1, <4>1 DEF NoneLost
    <3>5. Sliding'
      <4>1. Len(yielded) + 1 = Len(yielded') + IF taken' = 0 THEN 0 ELSE 1
        BY <1>1, <2>1, NumFilesFacts
      <4>2. DOMAIN rest = 1..Len(rest)
        BY <2>3
      <4>3. kind = "buffered" => /\ (Len(yielded) + 1) + Len(rest) = Cardinality(Submitted)
                                 /\ Len(rest) <= Buffer
        BY <2>3, <2>5, <2>6, <2>8, NumFilesFacts DEF m
      <4> QED BY <1>1, <2>1, <2>8, <3>1, <3>2, <4>1, <4>2, <4>3 DEF Sliding
    <3> QED BY <1>1, <2>1, <3>3, <3>4, <3>5 DEF WindowInv, ReadBy
  <2> QED BY <2>9, <2>10
<1> QED BY <1>2, <1>3

\* Dropping a file the consumer has got keeps the invariant.
LEMMA YieldKeeps == ASSUME WindowInv, Yield PROVE WindowInv'
<1>1. /\ WindowTypeOK /\ NoneLost /\ Sliding /\ IsInjective(yielded)
      /\ ended = "no" /\ taken # 0 /\ taken' = 0 /\ UNCHANGED <<kind, pending, ended, reader>>
      /\ yielded' = Append(yielded, taken) /\ load' = [load EXCEPT ![taken] = "dropped"]
  BY DEF WindowInv, Yield
<1>2. taken \in File /\ load[taken] = "loaded"
  BY <1>1 DEF WindowTypeOK, NoneLost
<1>3. \A g \in File : load'[g] = IF g = taken THEN "dropped" ELSE load[g]
  BY <1>1 DEF WindowTypeOK
<1>4. Submitted' = Submitted
  BY <1>2, <1>3 DEF Submitted
<1>5. yielded \in Seq(File)
  BY <1>1 DEF WindowTypeOK
<1>6. /\ yielded' \in Seq(File) /\ Len(yielded') = Len(yielded) + 1
      /\ \A i \in 1..Len(yielded) : yielded'[i] = yielded[i]
      /\ yielded'[Len(yielded) + 1] = taken /\ ToSet(yielded') = ToSet(yielded) \cup {taken}
      /\ DOMAIN yielded = 1..Len(yielded) /\ DOMAIN yielded' = 1..Len(yielded) + 1
      /\ Len(yielded) \in Nat
  BY <1>1, <1>2, <1>5, AppendProperties, AppendSet
<1>7. ToSet(yielded) \subseteq File
  BY <1>5 DEF ToSet
<1>8. WindowTypeOK'
  BY <1>1, <1>2, <1>3, <1>6 DEF WindowTypeOK
<1>9. NoneLost'
  BY <1>1, <1>2, <1>3, <1>4, <1>6, <1>7 DEF NoneLost
<1>10. Sliding'
  <2>1. Len(yielded) + 1 = Len(yielded') + IF taken' = 0 THEN 0 ELSE 1
    BY <1>1, <1>6
  <2>2. kind = "buffered" =>
           /\ \A i \in DOMAIN yielded : yielded[i] = i
           /\ taken = Len(yielded) + 1
           /\ \A i \in DOMAIN pending : pending[i] = (Len(yielded) + 1) + i
           /\ (Len(yielded) + 1) + Len(pending) = Cardinality(Submitted)
           /\ Len(pending) <= Buffer
    BY <1>1 DEF Sliding
  <2>3. kind = "buffered" => \A i \in DOMAIN yielded' : yielded'[i] = i
    BY <1>6, <2>2
  <2> QED BY <1>1, <1>4, <2>1, <2>2, <2>3 DEF Sliding
<1>11. IsInjective(yielded')
  <2>1. taken \notin ToSet(yielded)
    BY <1>1, <1>2 DEF NoneLost
  <2>2. \A i \in 1..Len(yielded) : yielded[i] # taken
    BY <1>6, <2>1 DEF ToSet
  <2>3. ASSUME NEW i \in 1..Len(yielded) + 1, NEW j \in 1..Len(yielded) + 1,
               yielded'[i] = yielded'[j]
        PROVE  i = j
    BY <1>1, <1>6, <2>2, <2>3 DEF IsInjective
  <2> QED BY <1>6, <2>3 DEF IsInjective
<1> QED BY <1>1, <1>8, <1>9, <1>10, <1>11 DEF WindowInv, ReadBy

\* An iterator that is closed or exhausted keeps the invariant.
LEMMA CloseOrEndKeeps == ASSUME WindowInv, CloseIterator \/ EndIterator PROVE WindowInv'
<1>1. /\ WindowTypeOK /\ NoneLost /\ Sliding /\ UNCHANGED <<kind, pending, load, taken, yielded, reader>>
      /\ ended' \in {"closed", "whole"}
      /\ ended' = "whole" => taken = 0 /\ pending = <<>> /\ Submitted # {}
  BY DEF WindowInv, CloseIterator, EndIterator
<1>2. ASSUME ended' = "whole" PROVE ToSet(yielded) = File
  <2>1. ToSet(pending) = {} /\ 0 \notin Submitted /\ Len(pending) = 0
    BY <1>1, <1>2, NumFilesFacts DEF ToSet, Submitted
  <2>2. Submitted \subseteq ToSet(yielded)
    BY <1>1, <1>2, <2>1 DEF NoneLost
  <2>3. yielded # <<>>
    BY <1>1, <1>2, <2>2 DEF ToSet
  <2>4. Submitted = File
    BY <1>1, <1>2, <2>1, <2>3, NumFilesFacts DEF Sliding
  <2>5. ToSet(yielded) \subseteq File
    BY <1>1 DEF WindowTypeOK, ToSet
  <2> QED BY <2>2, <2>4, <2>5
<1> QED BY <1>1, <1>2 DEF WindowInv, WindowTypeOK, NoneLost, Sliding, ReadBy, Submitted

(* The prefetch of one rank does not touch the iterator.                    *)
LEMMA ReaderOnly ==
    ASSUME WindowInv, NEW r \in LocalRank, NEW p,
           p \in [left : Seq(File), reading : SUBSET File, read : SUBSET File, errors : SUBSET File,
                  canceled : BOOLEAN, state : {"seeding", "running", "done"}],
           reader' = [reader EXCEPT ![r] = p],
           ToSet(SliceOf(r)) \subseteq ToSet(p.left) \cup p.reading \cup p.read \cup p.errors,
           Cardinality(p.reading) <= Threads,
           p.state = "running" /\ ~p.canceled => p.left = <<>> \/ p.reading # {},
           p.state = "done" => p.reading = {} /\ (~p.canceled => p.left = <<>>),
           UNCHANGED <<kind, pending, load, taken, yielded, ended>>
    PROVE  WindowInv'
<1>1. \A q \in LocalRank : reader'[q] = IF q = r THEN p ELSE reader[q]
  BY DEF WindowInv, WindowTypeOK
<1>2. \A q \in LocalRank : ReadBy(q)'
  BY <1>1 DEF WindowInv, ReadBy
<1>3. WindowTypeOK'
  BY DEF WindowInv, WindowTypeOK
<1>4. Submitted' = Submitted
  BY DEF Submitted
<1>5. NoneLost' /\ Sliding' /\ IsInjective(yielded)' /\ (ended = "whole" => ToSet(yielded) = File)'
  BY <1>4 DEF WindowInv, NoneLost, Sliding
<1> QED BY <1>2, <1>3, <1>5 DEF WindowInv

\* What is known of the prefetch reader of one rank.
LEMMA ReaderIs ==
    ASSUME WindowInv, NEW r \in LocalRank
    PROVE  /\ reader[r] \in [left : Seq(File), reading : SUBSET File, read : SUBSET File,
                             errors : SUBSET File, canceled : BOOLEAN,
                             state : {"seeding", "running", "done"}]
           /\ ReadBy(r)
           /\ IsFiniteSet(reader[r].reading) /\ Cardinality(reader[r].reading) \in Nat
           /\ Threads \in Nat \ {0}
<1>1. reader[r] \in [left : Seq(File), reading : SUBSET File, read : SUBSET File,
                     errors : SUBSET File, canceled : BOOLEAN,
                     state : {"seeding", "running", "done"}]
  BY DEF WindowInv, WindowTypeOK
<1>2. reader[r].reading \in SUBSET File
  BY <1>1
<1> QED BY <1>1, <1>2, NumFilesFacts, FS_Subset, FS_CardinalityType, WindowAssumption DEF WindowInv

(* What a prefetch schedules leaves its list for what is being read.        *)
LEMMA ScheduleIs ==
    ASSUME NEW p \in [left : Seq(File), reading : SUBSET File, read : SUBSET File,
                      errors : SUBSET File, canceled : BOOLEAN,
                      state : {"seeding", "running", "done"}]
    PROVE  LET q == Schedule(p)
           IN  /\ q \in [left : Seq(File), reading : SUBSET File, read : SUBSET File,
                         errors : SUBSET File, canceled : BOOLEAN,
                         state : {"seeding", "running", "done"}]
               /\ ToSet(p.left) \cup p.reading \subseteq ToSet(q.left) \cup q.reading
               /\ Cardinality(q.reading) \in Nat
               /\ Cardinality(p.reading) \in Nat
               /\ Cardinality(q.reading) <= Cardinality(p.reading) + 1
               /\ ~p.canceled => q.left = <<>> \/ q.reading # {}
               /\ q.read = p.read /\ q.errors = p.errors /\ q.canceled = p.canceled
               /\ q.state = p.state
<1> DEFINE q == Schedule(p)
<1>1. IsFiniteSet(p.reading) /\ Cardinality(p.reading) \in Nat
  <2>1. p.reading \in SUBSET File
    OBVIOUS
  <2> QED BY <2>1, NumFilesFacts, FS_Subset, FS_CardinalityType
<1>2. CASE p.canceled \/ p.left = <<>>
  BY <1>1, <1>2 DEF Schedule
<1>3. CASE ~(p.canceled \/ p.left = <<>>)
  <2> DEFINE h == Head(p.left)
             t == Tail(p.left)
  <2>1. q = [p EXCEPT !.reading = p.reading \cup {h}, !.left = t]
    BY <1>3 DEF Schedule
  <2>2. p.left \in Seq(File) /\ p.left # <<>> /\ Len(p.left) \in Nat
    BY <1>3
  <2>3. /\ h \in File /\ t \in Seq(File) /\ Len(t) = Len(p.left) - 1
        /\ \A i \in 1..Len(t) : t[i] = p.left[i + 1]
    BY <2>2, HeadTailProperties
  <2>4. ToSet(p.left) \subseteq ToSet(t) \cup {h}
    <3>1. h = p.left[1] /\ DOMAIN p.left = 1..Len(p.left) /\ DOMAIN t = 1..Len(t)
      BY <2>2, <2>3
    <3> HIDE DEF h, t
    <3>2. ASSUME NEW i \in 1..Len(p.left), i # 1 PROVE p.left[i] \in ToSet(t)
      <4>1. i - 1 \in 1..Len(t) /\ (i - 1) + 1 = i
        BY <2>2, <2>3, <3>2
      <4>2. t[i - 1] = p.left[i]
        BY <2>3, <4>1
      <4> QED BY <3>1, <4>1, <4>2 DEF ToSet
    <3> QED BY <3>1, <3>2 DEF ToSet
  <2> HIDE DEF h, t, q
  <2>5. /\ q.reading = p.reading \cup {h} /\ q.left = t /\ q.read = p.read /\ q.errors = p.errors
        /\ q.canceled = p.canceled /\ q.state = p.state
        /\ q \in [left : Seq(File), reading : SUBSET File, read : SUBSET File,
                  errors : SUBSET File, canceled : BOOLEAN, state : {"seeding", "running", "done"}]
    BY <2>1, <2>3
  <2>6. /\ IsFiniteSet(p.reading \cup {h})
        /\ Cardinality(p.reading \cup {h}) =
              IF h \in p.reading THEN Cardinality(p.reading) ELSE Cardinality(p.reading) + 1
    BY <1>1, FS_AddElement
  <2> QED BY <1>1, <2>4, <2>5, <2>6 DEF q
<1> QED BY <1>2, <1>3

\* Filling the prefetch window of a rank keeps the invariant.
LEMMA PrefetchSeedKeeps == ASSUME WindowInv, NEW r \in LocalRank, PrefetchSeed(r) PROVE WindowInv'
<1> DEFINE p == reader[r]
<1>1. /\ p \in [left : Seq(File), reading : SUBSET File, read : SUBSET File,
                errors : SUBSET File, canceled : BOOLEAN, state : {"seeding", "running", "done"}]
      /\ ReadBy(r) /\ Cardinality(p.reading) \in Nat /\ Threads \in Nat \ {0}
  BY ReaderIs
<1>2. /\ p.state = "seeding" /\ UNCHANGED <<kind, pending, load, taken, yielded, ended>>
      /\ reader' = [reader EXCEPT ![r] =
              IF Cardinality(p.reading) < Threads /\ p.left # <<>> /\ ~p.canceled
              THEN Schedule(p) ELSE [p EXCEPT !.state = "running"]]
  BY DEF PrefetchSeed
<1>3. /\ ToSet(SliceOf(r)) \subseteq ToSet(p.left) \cup p.reading \cup p.read \cup p.errors
      /\ Cardinality(p.reading) <= Threads
  BY <1>1 DEF ReadBy
<1>4. CASE Cardinality(p.reading) < Threads /\ p.left # <<>> /\ ~p.canceled
  <2> DEFINE q == Schedule(p)
  <2>1. /\ q \in [left : Seq(File), reading : SUBSET File, read : SUBSET File,
                  errors : SUBSET File, canceled : BOOLEAN, state : {"seeding", "running", "done"}]
        /\ ToSet(p.left) \cup p.reading \subseteq ToSet(q.left) \cup q.reading
        /\ Cardinality(q.reading) \in Nat
        /\ Cardinality(q.reading) <= Cardinality(p.reading) + 1
        /\ q.read = p.read /\ q.errors = p.errors /\ q.state = p.state
    BY <1>1, ScheduleIs
  <2>2. reader' = [reader EXCEPT ![r] = q]
    BY <1>2, <1>4
  <2> HIDE DEF q, p
  <2>3. Cardinality(q.reading) <= Threads
    BY <1>1, <1>4, <2>1
  <2>4. ToSet(SliceOf(r)) \subseteq ToSet(q.left) \cup q.reading \cup q.read \cup q.errors
    BY <1>3, <2>1
  <2> QED BY <1>2, <2>1, <2>2, <2>3, <2>4, ReaderOnly
<1>5. CASE ~(Cardinality(p.reading) < Threads /\ p.left # <<>> /\ ~p.canceled)
  <2> DEFINE q == [p EXCEPT !.state = "running"]
  <2>1. /\ q \in [left : Seq(File), reading : SUBSET File, read : SUBSET File,
                  errors : SUBSET File, canceled : BOOLEAN, state : {"seeding", "running", "done"}]
        /\ q.left = p.left /\ q.reading = p.reading /\ q.read = p.read /\ q.errors = p.errors
        /\ q.canceled = p.canceled /\ q.state = "running"
    BY <1>1
  <2>2. reader' = [reader EXCEPT ![r] = q]
    BY <1>2, <1>5
  <2>3. p.left = <<>> \/ p.reading # {} \/ p.canceled
    <3>1. p.reading = {} => Cardinality(p.reading) = 0
      BY FS_EmptySet
    <3> QED BY <1>1, <1>5, <3>1
  <2> HIDE DEF q, p
  <2> QED BY <1>2, <1>3, <2>1, <2>2, <2>3, ReaderOnly, ZenonT(60)
<1> QED BY <1>4, <1>5

\* A file that a prefetch thread has read, or failed to, keeps the invariant.
LEMMA PrefetchDoneKeeps ==
    ASSUME WindowInv, NEW r \in LocalRank, NEW f \in File, PrefetchDone(r, f)
    PROVE  WindowInv'
<1> DEFINE p == reader[r]
<1>1. /\ p \in [left : Seq(File), reading : SUBSET File, read : SUBSET File,
                errors : SUBSET File, canceled : BOOLEAN, state : {"seeding", "running", "done"}]
      /\ ReadBy(r) /\ Cardinality(p.reading) \in Nat /\ IsFiniteSet(p.reading)
      /\ Threads \in Nat \ {0}
  BY ReaderIs
<1>2. /\ p.state = "running" /\ f \in p.reading
      /\ UNCHANGED <<kind, pending, load, taken, yielded, ended>>
  BY DEF PrefetchDone
<1>3. PICK result \in {"read", "error"} :
          reader' = [reader EXCEPT ![r] = Schedule(
              [p EXCEPT !.reading = p.reading \ {f},
                        !.read = IF result = "read" THEN p.read \cup {f} ELSE p.read,
                        !.errors = IF result = "error" THEN p.errors \cup {f} ELSE p.errors])]
  BY DEF PrefetchDone
<1> DEFINE d == [p EXCEPT !.reading = p.reading \ {f},
                          !.read = IF result = "read" THEN p.read \cup {f} ELSE p.read,
                          !.errors = IF result = "error" THEN p.errors \cup {f} ELSE p.errors]
           q == Schedule(d)
<1>4. /\ d \in [left : Seq(File), reading : SUBSET File, read : SUBSET File,
                errors : SUBSET File, canceled : BOOLEAN, state : {"seeding", "running", "done"}]
      /\ d.left = p.left /\ d.reading = p.reading \ {f} /\ d.canceled = p.canceled
      /\ d.state = "running" /\ p.read \subseteq d.read /\ p.errors \subseteq d.errors
      /\ f \in d.read \cup d.errors
  BY <1>1, <1>2
<1>5. reader' = [reader EXCEPT ![r] = q]
  BY <1>3
<1>6. /\ ToSet(SliceOf(r)) \subseteq ToSet(p.left) \cup p.reading \cup p.read \cup p.errors
      /\ Cardinality(p.reading) <= Threads
  BY <1>1 DEF ReadBy
<1>7. Cardinality(p.reading \ {f}) = Cardinality(p.reading) - 1
  BY <1>1, <1>2, FS_RemoveElement
<1> HIDE DEF d
<1>8. /\ q \in [left : Seq(File), reading : SUBSET File, read : SUBSET File,
                errors : SUBSET File, canceled : BOOLEAN, state : {"seeding", "running", "done"}]
      /\ ToSet(d.left) \cup d.reading \subseteq ToSet(q.left) \cup q.reading
      /\ Cardinality(q.reading) \in Nat
      /\ Cardinality(q.reading) <= Cardinality(d.reading) + 1
      /\ ~d.canceled => q.left = <<>> \/ q.reading # {}
      /\ q.read = d.read /\ q.errors = d.errors /\ q.canceled = d.canceled
      /\ q.state = d.state
  BY <1>4, ScheduleIs
<1> HIDE DEF q, p
<1>9. Cardinality(q.reading) <= Threads
  BY <1>1, <1>4, <1>6, <1>7, <1>8
<1>10. ToSet(SliceOf(r)) \subseteq ToSet(q.left) \cup q.reading \cup q.read \cup q.errors
  BY <1>4, <1>6, <1>8
<1> QED BY <1>2, <1>4, <1>5, <1>8, <1>9, <1>10, ReaderOnly

\* The end of a prefetch keeps the invariant.
LEMMA PrefetchEndKeeps == ASSUME WindowInv, NEW r \in LocalRank, PrefetchEnd(r) PROVE WindowInv'
<1> DEFINE p == reader[r]
           q == [p EXCEPT !.state = "done"]
<1>1. /\ p \in [left : Seq(File), reading : SUBSET File, read : SUBSET File,
                errors : SUBSET File, canceled : BOOLEAN, state : {"seeding", "running", "done"}]
      /\ ReadBy(r)
  BY ReaderIs
<1>2. /\ p.state = "running" /\ p.reading = {} /\ reader' = [reader EXCEPT ![r] = q]
      /\ UNCHANGED <<kind, pending, load, taken, yielded, ended>>
  BY DEF PrefetchEnd
<1>3. /\ q \in [left : Seq(File), reading : SUBSET File, read : SUBSET File,
                errors : SUBSET File, canceled : BOOLEAN, state : {"seeding", "running", "done"}]
      /\ q.left = p.left /\ q.reading = p.reading /\ q.read = p.read /\ q.errors = p.errors
      /\ q.canceled = p.canceled /\ q.state = "done"
  BY <1>1
<1>4. /\ ToSet(SliceOf(r)) \subseteq ToSet(p.left) \cup p.reading \cup p.read \cup p.errors
      /\ Cardinality(p.reading) <= Threads /\ (~p.canceled => p.left = <<>>)
  BY <1>1, <1>2 DEF ReadBy
<1> HIDE DEF q, p
<1> QED BY <1>2, <1>3, <1>4, ReaderOnly

\* A prefetch that is cancelled keeps the invariant.
LEMMA PrefetchCancelKeeps ==
    ASSUME WindowInv, NEW r \in LocalRank, PrefetchCancel(r) PROVE WindowInv'
<1> DEFINE p == reader[r]
           q == [p EXCEPT !.canceled = TRUE]
<1>1. /\ p \in [left : Seq(File), reading : SUBSET File, read : SUBSET File,
                errors : SUBSET File, canceled : BOOLEAN, state : {"seeding", "running", "done"}]
      /\ ReadBy(r)
  BY ReaderIs
<1>2. /\ p.state # "done" /\ reader' = [reader EXCEPT ![r] = q]
      /\ UNCHANGED <<kind, pending, load, taken, yielded, ended>>
  BY DEF PrefetchCancel
<1>3. /\ q \in [left : Seq(File), reading : SUBSET File, read : SUBSET File,
                errors : SUBSET File, canceled : BOOLEAN, state : {"seeding", "running", "done"}]
      /\ q.left = p.left /\ q.reading = p.reading /\ q.read = p.read /\ q.errors = p.errors
      /\ q.canceled = TRUE /\ q.state = p.state
  BY <1>1
<1>4. /\ ToSet(SliceOf(r)) \subseteq ToSet(p.left) \cup p.reading \cup p.read \cup p.errors
      /\ Cardinality(p.reading) <= Threads
  BY <1>1 DEF ReadBy
<1> HIDE DEF q, p
<1> QED BY <1>2, <1>3, <1>4, ReaderOnly

\* Every step, and every stutter, keeps the window invariant.
LEMMA NextWindow == WindowInv /\ [WindowNext]_windowVars => WindowInv'
<1> SUFFICES ASSUME WindowInv, [WindowNext]_windowVars PROVE WindowInv'
  OBVIOUS
<1>1. CASE UNCHANGED windowVars
  BY <1>1 DEF WindowInv, WindowTypeOK, NoneLost, Sliding, ReadBy, Submitted, windowVars
<1>2. ASSUME NEW f \in File, WorkerTakes(f) PROVE WindowInv'
  <2>1. /\ load[f] = "queued" /\ load' = [load EXCEPT ![f] = "running"]
        /\ UNCHANGED <<kind, pending, taken, yielded, ended, reader>>
    BY <1>2 DEF WorkerTakes
  <2> QED BY <2>1, PoolKeeps
<1>3. ASSUME NEW f \in File, WorkerEnds(f) PROVE WindowInv'
  <2>1. PICK result \in {"loaded", "failed"} : load' = [load EXCEPT ![f] = result]
    BY <1>3 DEF WorkerEnds
  <2>2. load[f] = "running" /\ UNCHANGED <<kind, pending, taken, yielded, ended, reader>>
    BY <1>3 DEF WorkerEnds
  <2>3. CASE result = "loaded"
    BY <2>1, <2>2, <2>3, PoolKeeps
  <2>4. CASE result = "failed"
    BY <2>1, <2>2, <2>4, PoolKeeps
  <2> QED BY <2>3, <2>4
<1>4. CASE Iterator
  BY <1>2, <1>3, <1>4, SeedKeeps, YieldKeeps, CloseOrEndKeeps, TakeKeeps DEF Iterator
<1>5. CASE Prefetch
  BY <1>5, PrefetchSeedKeeps, PrefetchEndKeeps, PrefetchCancelKeeps, PrefetchDoneKeeps DEF Prefetch
<1> QED BY <1>1, <1>4, <1>5 DEF WindowNext

(* No shard is lost or passed over between the pool, the window, the        *)
(* consumer and the ranks' prefetches (weight_utils.py).                    *)
THEOREM WindowInvHolds == WindowSpec => []WindowInv
<1> QED BY InitWindow, NextWindow, PTL DEF WindowSpec

\* The buffered iterator holds at most two files more than it has workers, one of them taken.
LEMMA HeldFew ==
    ASSUME WindowInv, kind = "buffered"
    PROVE  Cardinality(Held) <= MaxWorkers + 2 /\ Cardinality(Held \ {taken}) <= MaxWorkers + 1
<1> DEFINE begun == Len(yielded) + IF taken = 0 THEN 0 ELSE 1
           n == Len(pending)
<1>1. /\ pending \in Seq(File) /\ n \in Nat /\ begun \in Nat /\ DOMAIN pending = 1..n
      /\ \A i \in DOMAIN pending : pending[i] = begun + i
      /\ n <= Buffer
  BY DEF WindowInv, WindowTypeOK, Sliding
<1>2. ToSet(pending) \subseteq begun + 1..begun + n
  BY <1>1 DEF ToSet
<1>3. Held \subseteq ToSet(pending) \cup {taken}
  BY DEF Held, Running, WindowInv, NoneLost, Submitted
<1> HIDE DEF begun, n
<1>4. IsFiniteSet(begun + 1..begun + n) /\ Cardinality(begun + 1..begun + n) = n
  <2>1. begun + 1 \in Int /\ begun + n \in Int
    BY <1>1
  <2>2. /\ IsFiniteSet(begun + 1..begun + n)
        /\ Cardinality(begun + 1..begun + n) =
              IF begun + 1 > begun + n THEN 0 ELSE (begun + n) - (begun + 1) + 1
    BY <2>1, FS_Interval
  <2> QED BY <1>1, <2>2
<1>5. /\ Held \ {taken} \in SUBSET (begun + 1..begun + n)
      /\ IsFiniteSet(Held \ {taken}) /\ Cardinality(Held \ {taken}) <= n
  <2>1. Held \ {taken} \in SUBSET (begun + 1..begun + n)
    BY <1>2, <1>3
  <2> QED BY <1>4, <2>1, FS_Subset
<1>6. IsFiniteSet(Held) /\ Cardinality(Held) \in Nat /\ Cardinality(Held \ {taken}) \in Nat
  <2>1. Held \in SUBSET File
    BY DEF Held, Running
  <2> QED BY <1>5, <2>1, NumFilesFacts, FS_Subset, FS_CardinalityType
<1>7. Cardinality(Held \ {taken}) = IF taken \in Held THEN Cardinality(Held) - 1 ELSE Cardinality(Held)
  BY <1>6, FS_RemoveElement
<1> QED BY <1>1, <1>5, <1>6, <1>7, WindowAssumption DEF Buffer

(* Loading is bounded, ordered and complete, for every number of files,     *)
(* workers, ranks of a node and prefetch threads, however slow the consumer *)
(* is, whoever fails and whoever is canceled (weight_utils.py).             *)
THEOREM ShardsArriveHolds == WindowSpec => []ShardsArrive
<1>1. ASSUME WindowInv PROVE ShardsArrive
  <2>1. kind = "buffered" => yielded = [i \in 1..Len(yielded) |-> i]
    <3>1. yielded \in Seq(File)
      BY <1>1 DEF WindowInv, WindowTypeOK
    <3>2. kind = "buffered" => \A i \in DOMAIN yielded : yielded[i] = i
      BY <1>1 DEF WindowInv, Sliding
    <3> QED BY <3>1, <3>2
  <2>2. \A r \in LocalRank : Cardinality(reader[r].reading) <= Threads
    BY <1>1 DEF WindowInv, ReadBy
  <2>3. ASSUME \A r \in LocalRank : /\ reader[r].state = "done" /\ ~reader[r].canceled
                                    /\ reader[r].errors = {}
        PROVE  UNION {reader[r].read : r \in LocalRank} = File
    <3>1. \A r \in LocalRank : ToSet(SliceOf(r)) \subseteq reader[r].read
      <4>1. ToSet(<<>>) = {}
        BY DEF ToSet
      <4> QED BY <1>1, <2>3, <4>1 DEF WindowInv, ReadBy
    <3>2. \A f \in File : \E r \in LocalRank : f \in ToSet(SliceOf(r))
      BY SlicesCover
    <3>3. \A r \in LocalRank : reader[r].read \subseteq File
      BY <1>1 DEF WindowInv, WindowTypeOK
    <3> QED BY <3>1, <3>2, <3>3
  <2> QED BY <1>1, <2>1, <2>2, <2>3, HeldFew DEF ShardsArrive, WindowInv
<1> QED BY <1>1, WindowInvHolds, PTL
-----------------------------------------------------------------------------
(* The history of the n-gram hash.                                         *)
Runs == [slot : Slots, ids : Seq(Id), position : Nat, given : HistoryRow, padding : BOOLEAN]

(* A run is a piece of this text behind the tokens it is given.             *)
OfText(run, text) ==
    /\ text \in Seq(Id) /\ run.position + Len(run.ids) <= Len(text)
    /\ \A k \in 1..Len(run.ids) : run.ids[k] = text[run.position + k]
    /\ Precedes(run.given, text, run.position)

\* The ranges of the sizes, and that the padding row is no slot.
LEMMA Sizes == /\ N \in Nat /\ N >= 1 /\ Block \in Nat /\ Block >= 1 /\ NumSlots \in Nat /\ MaxLen \in Nat
               /\ Slots = 0..NumSlots - 1 /\ PadRow = NumSlots /\ PadRow \notin Slots
<1> QED BY HistoryAssumption DEF Slots, PadRow

\* Only the padding of an image is renamed, to the image token, and renaming twice is renaming once.
LEMMA CanonicalIs ==
    /\ \A id \in Id : Canonical(id) \in Id
    /\ \A id : Canonical(Canonical(id)) = Canonical(id)
    /\ \A id : Canonical(id) # ImageToken => Canonical(id) = id
<1> QED BY DEF Canonical, Id

(* A batch keeps the ids of a run together.                                 *)
LEMMA IdsAt ==
    ASSUME NEW run \in Seq(Runs), NEW j \in 1..Len(run), NEW k \in 1..Len(run[j].ids)
    PROVE  Starts(run)[j] \in Nat /\ Ids(run)[Starts(run)[j] + k] = run[j].ids[k]
<1> DEFINE all == [i \in DOMAIN run |-> run[i].ids]
           part == SubSeq(run, 1, j - 1)
           ids == [i \in DOMAIN part |-> part[i].ids]
<1>1. DOMAIN run = 1..Len(run) /\ Len(run) \in Nat /\ \A i \in 1..Len(run) : run[i] \in Runs
  OBVIOUS
<1>2. \A i \in 1..Len(run) : run[i].ids \in Seq(Id)
  BY <1>1 DEF Runs
<1>3. /\ all \in Seq(Seq(Id)) /\ Len(all) = Len(run)
      /\ \A i \in 1..Len(run) : all[i] = run[i].ids
  BY <1>1, <1>2
<1>4. /\ part \in Seq(Runs) /\ Len(part) = j - 1
      /\ \A i \in 1..j - 1 : part[i] = run[i]
  BY <1>1, SubSeqProperties
<1>5. /\ ids \in Seq(Seq(Id)) /\ Len(ids) = j - 1 /\ \A i \in 1..j - 1 : ids[i] = run[i].ids
  <2>1. DOMAIN part = 1..j - 1 /\ \A i \in 1..j - 1 : part[i].ids \in Seq(Id)
    BY <1>1, <1>2, <1>4
  <2> HIDE DEF part
  <2> DEFINE m == j - 1
  <2>2. m \in Nat
    BY <1>1
  <2> HIDE DEF m
  <2>3. ids = [i \in 1..m |-> part[i].ids] /\ \A i \in 1..m : part[i].ids \in Seq(Id)
    BY <2>1 DEF m
  <2>4. ids \in Seq(Seq(Id)) /\ Len(ids) = m /\ \A i \in 1..m : ids[i] = part[i].ids
    <3> HIDE DEF ids
    <3> QED BY <2>2, <2>3
  <2>5. \A i \in 1..m : part[i].ids = run[i].ids
    BY <1>4 DEF m
  <2> HIDE DEF ids
  <2> QED BY <2>4, <2>5 DEF m
<1>6. Ids(run) = FlattenSeq(all) /\ Starts(run)[j] = Len(FlattenSeq(ids))
  BY <1>1 DEF Ids, Starts
<1> HIDE DEF all, part, ids
<1>7. /\ SubSeq(all, 1, j - 1) \in Seq(Seq(Id)) /\ Len(SubSeq(all, 1, j - 1)) = j - 1
      /\ \A i \in 1..j - 1 : SubSeq(all, 1, j - 1)[i] = all[i]
  <2>1. \A i \in 1..Len(all) : all[i] \in Seq(Id)
    BY <1>3
  <2> QED BY <1>1, <1>3, <2>1, SubSeqProperties
<1>8. ids = SubSeq(all, 1, j - 1)
  <2>1. \A i \in 1..j - 1 : ids[i] = SubSeq(all, 1, j - 1)[i]
    BY <1>1, <1>3, <1>5, <1>7
  <2> QED BY <1>5, <1>7, <2>1, SeqEqual
<1>9. FlattenSeq(all)[Len(FlattenSeq(SubSeq(all, 1, j - 1))) + k] = all[j][k]
  <2>1. j \in 1..Len(all) /\ k \in 1..Len(all[j])
    BY <1>3
  <2> QED BY <1>3, <2>1, FlattenSeqAt
<1>10. FlattenSeq(ids) \in Seq(Id)
  <2>1. FlattenSeq(ids) = FlattenSeq(SubSeq(ids, 1, Len(ids))) /\ Len(ids) \in 0..Len(ids)
        /\ \A m \in 0..Len(ids) : FlattenSeq(SubSeq(ids, 1, m)) \in Seq(Id)
    <3>1. ids \in Seq(Seq(Id))
      BY <1>5
    <3>2. /\ FlattenSeq(ids) = FlattenSeq(SubSeq(ids, 1, Len(ids)))
          /\ \A m \in 0..Len(ids) : FlattenSeq(SubSeq(ids, 1, m)) \in Seq(Id)
      BY <3>1, FlattenSeqSteps
    <3>3. Len(ids) \in 0..Len(ids)
      BY <1>1, <1>5
    <3> QED BY <3>2, <3>3
  <2> QED BY <2>1
<1> QED BY <1>3, <1>6, <1>8, <1>9, <1>10

(* The token s places before a token of a run.                              *)
LEMMA TokensAre ==
    ASSUME NEW run \in Seq(Runs), NEW j \in 1..Len(run), NEW o \in 0..Len(run[j].ids) - 1,
           NEW s \in 0..N - 1
    PROVE  Tokens(run, j, o)[s] =
              IF s <= o THEN Canonical(run[j].ids[o + 1 - s])
              ELSE Canonical(run[j].given[N - (s - o)])
<1> DEFINE t == Starts(run)[j] + o + 1
           token(u) == IF u <= o THEN Ids(run)[t - u] ELSE run[j].given[N - (u - o)]
<1>1. Tokens(run, j, o) = [u \in 0..N - 1 |-> Canonical(token(u))]
  BY Zenon DEF Tokens
<1>2. Tokens(run, j, o)[s] = Canonical(token(s))
  BY <1>1
<1>3. run[j] \in Runs
  OBVIOUS
<1>4. Len(run[j].ids) \in Nat /\ o \in Nat /\ o + 1 <= Len(run[j].ids)
  BY <1>3 DEF Runs
<1>5. CASE s <= o
  <2>1. o + 1 - s \in 1..Len(run[j].ids)
    BY <1>4, <1>5, Sizes
  <2>2. Starts(run)[j] \in Nat /\ Ids(run)[Starts(run)[j] + (o + 1 - s)] = run[j].ids[o + 1 - s]
    BY <2>1, IdsAt
  <2>3. t - s = Starts(run)[j] + (o + 1 - s)
    BY <1>4, <2>2, Sizes
  <2> HIDE DEF t
  <2>4. token(s) = run[j].ids[o + 1 - s]
    BY <1>5, <2>2, <2>3
  <2> QED BY <1>2, <1>5, <2>4
<1>6. CASE ~(s <= o)
  <2>1. token(s) = run[j].given[N - (s - o)]
    BY <1>6
  <2> QED BY <1>2, <1>6, <2>1
<1> QED BY <1>5, <1>6

\* A token read for a gram is an id.
LEMMA TokensType ==
    ASSUME NEW run \in Seq(Runs), NEW j \in 1..Len(run), NEW o \in 0..Len(run[j].ids) - 1,
           NEW s \in 0..N - 1
    PROVE  Tokens(run, j, o)[s] \in Id
<1>1. run[j] \in Runs
  OBVIOUS
<1>2. run[j].ids \in Seq(Id) /\ run[j].given \in [1..N - 1 -> Id] /\ Len(run[j].ids) \in Nat
  BY <1>1 DEF Runs, HistoryRow
<1>3. CASE s <= o
  <2>1. o + 1 - s \in 1..Len(run[j].ids)
    BY <1>2, <1>3, Sizes
  <2> QED BY <1>2, <1>3, <2>1, TokensAre, CanonicalIs
<1>4. CASE ~(s <= o)
  <2>1. N - (s - o) \in 1..N - 1
    BY <1>2, <1>4, Sizes
  <2>2. run[j].given[N - (s - o)] \in Id
    BY <1>2, <2>1
  <2>3. Tokens(run, j, o)[s] = Canonical(run[j].given[N - (s - o)])
    BY <1>4, TokensAre
  <2> QED BY <2>2, <2>3, CanonicalIs
<1> QED BY <1>3, <1>4

\* For a run of a text, a token inside the text is the canonical id at its place.
LEMMA TokensOfText ==
    ASSUME NEW run \in Seq(Runs), NEW j \in 1..Len(run), NEW text, OfText(run[j], text),
           NEW o \in 0..Len(run[j].ids) - 1, NEW s \in 0..N - 1,
           run[j].position + o + 1 - s >= 1
    PROVE  Tokens(run, j, o)[s] = Canonical(text[run[j].position + o + 1 - s])
<1>1. run[j] \in Runs
  OBVIOUS
<1>2. run[j].position \in Nat /\ Len(run[j].ids) \in Nat
  BY <1>1 DEF Runs
<1>3. CASE s <= o
  <2>1. o + 1 - s \in 1..Len(run[j].ids)
    BY <1>2, <1>3, Sizes
  <2>2. run[j].ids[o + 1 - s] = text[run[j].position + (o + 1 - s)]
    BY <2>1 DEF OfText
  <2>3. run[j].position + (o + 1 - s) = run[j].position + o + 1 - s
    BY <1>2, Sizes
  <2> QED BY <1>3, <2>2, <2>3, TokensAre
<1>4. CASE ~(s <= o)
  <2> DEFINE c == N - (s - o)
  <2>1. c \in 1..N - 1 /\ run[j].position - (N - 1 - c) = run[j].position + o + 1 - s
    BY <1>2, <1>4, Sizes
  <2> HIDE DEF c
  <2>2. Canonical(run[j].given[c]) = Canonical(text[run[j].position + o + 1 - s])
    BY <2>1 DEF OfText, Precedes
  <2>3. Tokens(run, j, o)[s] = Canonical(run[j].given[c])
    BY <1>4, TokensAre DEF c
  <2> QED BY <2>2, <2>3
<1> QED BY <1>3, <1>4

(* So a run of a text is hashed with the text's own n-grams.                *)
LEMMA GramIs ==
    ASSUME NEW run \in Seq(Runs), NEW j \in 1..Len(run), NEW text, OfText(run[j], text),
           NEW o \in 0..Len(run[j].ids) - 1
    PROVE  Gram(run, j, o) = OwnGram(text, run[j].position + o + 1)
<1> DEFINE tokens == Tokens(run, j, o)
           p == run[j].position + o
           i == p + 1
<1>1. run[j] \in Runs
  OBVIOUS
<1>2. p \in Nat /\ run[j].position + o + 1 = i
  BY <1>1 DEF Runs
<1>3. ASSUME NEW s \in 0..N - 1, i - s >= 1 PROVE tokens[s] = Canonical(text[i - s])
  <2>1. run[j].position + o + 1 - s = i - s /\ run[j].position + o + 1 - s >= 1
    BY <1>2, <1>3
  <2>2. Tokens(run, j, o)[s] = Canonical(text[run[j].position + o + 1 - s])
    BY <2>1, TokensOfText
  <2> QED BY <2>1, <2>2
<1>4. Gram(run, j, o) = [s \in 0..N - 1 |-> IF Blocked(tokens, p)[s] THEN PadId ELSE tokens[s]]
  BY Zenon DEF Gram
<1> HIDE DEF tokens, p
<1>5. ASSUME NEW s \in 0..N - 1
      PROVE  (IF Blocked(tokens, p)[s] THEN PadId ELSE tokens[s]) = OwnGram(text, i)[s]
  <2>1. Blocked(tokens, p)[s] = (p < s \/ \E u \in 0..s : tokens[u] = ImageToken)
    BY DEF Blocked
  <2>2. OwnGram(text, i)[s] =
           IF i - s < 1 \/ \E u \in 0..s : Canonical(text[i - u]) = ImageToken
           THEN PadId ELSE text[i - s]
    BY DEF OwnGram
  <2>3. i - s < 1 <=> p < s
    BY <1>2, Sizes
  <2>4. CASE p < s
    BY <2>1, <2>2, <2>3, <2>4
  <2>5. CASE ~(p < s)
    <3>1. \A u \in 0..s : u \in 0..N - 1 /\ i - u >= 1
      BY <1>2, <2>5, Sizes
    <3>2. \A u \in 0..s : tokens[u] = Canonical(text[i - u])
      BY <1>3, <3>1
    <3>3. s \in 0..s
      BY Sizes
    <3>4. tokens[s] # ImageToken => tokens[s] = text[i - s]
      BY <3>2, <3>3, CanonicalIs
    <3> QED BY <2>1, <2>2, <2>3, <2>5, <3>2, <3>3, <3>4
  <2> QED BY <2>4, <2>5
<1>6. OwnGram(text, i) = [s \in 0..N - 1 |-> OwnGram(text, i)[s]]
  BY DEF OwnGram
<1> HIDE DEF i
<1>7. Gram(run, j, o) = OwnGram(text, i)
  BY <1>4, <1>5, <1>6
<1> QED BY <1>2, <1>7

\* Runs that agree with their texts are hashed with their own grams.
LEMMA JudgeIs ==
    ASSUME NEW run \in Seq(Runs), NEW texts,
           \A j \in 1..Len(run) : ~run[j].padding => OfText(run[j], texts[run[j].slot])
    PROVE  \A pair \in Judge(run, texts) : pair[1] = pair[2]
<1> SUFFICES ASSUME NEW pair \in Judge(run, texts) PROVE pair[1] = pair[2]
  OBVIOUS
<1>1. PICK j \in {k \in DOMAIN run : ~run[k].padding} :
         pair \in {<<Gram(run, j, o), OwnGram(texts[run[j].slot], run[j].position + o + 1)>> :
                      o \in 0..Len(run[j].ids) - 1}
  BY DEF Judge
<1>2. PICK o \in 0..Len(run[j].ids) - 1 :
         pair = <<Gram(run, j, o), OwnGram(texts[run[j].slot], run[j].position + o + 1)>>
  BY <1>1
<1>3. j \in 1..Len(run) /\ OfText(run[j], texts[run[j].slot])
  BY <1>1
<1>4. Gram(run, j, o) = OwnGram(texts[run[j].slot], run[j].position + o + 1)
  BY <1>3, GramIs
<1> QED BY <1>2, <1>4

(* What is kept of a run goes on behind it.                                 *)
LEMMA LastTokensAre ==
    ASSUME NEW run \in Seq(Runs), NEW j \in 1..Len(run), run[j].ids # <<>>
    PROVE  /\ LastTokens(run, j) \in HistoryRow
           /\ \A text : OfText(run[j], text) =>
                 Precedes(LastTokens(run, j), text, run[j].position + Len(run[j].ids))
<1> DEFINE o == Len(run[j].ids) - 1
           tokens == Tokens(run, j, o)
<1>1. run[j] \in Runs
  OBVIOUS
<1>2. /\ run[j].position \in Nat /\ Len(run[j].ids) \in Nat /\ o \in 0..Len(run[j].ids) - 1
      /\ o \in Nat /\ Len(run[j].ids) = o + 1
  BY <1>1 DEF Runs
<1>3. LastTokens(run, j) = [c \in 1..N - 1 |-> tokens[N - 1 - c]]
  BY Zenon DEF LastTokens
<1>4. \A c \in 1..N - 1 : N - 1 - c \in 0..N - 1
  BY Sizes
<1>5. \A s \in 0..N - 1 : tokens[s] \in Id
  BY <1>2, TokensType
<1>6. LastTokens(run, j) \in HistoryRow
  BY <1>3, <1>4, <1>5 DEF HistoryRow
<1>7. ASSUME NEW text, OfText(run[j], text)
      PROVE  Precedes(LastTokens(run, j), text, run[j].position + Len(run[j].ids))
  <2> DEFINE done == run[j].position + Len(run[j].ids)
  <2>1. ASSUME NEW c \in 1..N - 1, done - (N - 1 - c) >= 1
        PROVE  Canonical(LastTokens(run, j)[c]) = Canonical(text[done - (N - 1 - c)])
    <3>1. LastTokens(run, j)[c] = tokens[N - 1 - c]
      BY <1>3
    <3>2. run[j].position + o + 1 - (N - 1 - c) = done - (N - 1 - c)
      <4> DEFINE p == run[j].position
                 l == Len(run[j].ids)
      <4>1. p \in Nat /\ l \in Nat /\ o = l - 1 /\ c \in Int /\ N \in Int
        BY <1>2, Sizes
      <4>3. run[j].position = p /\ done = p + l
        OBVIOUS
      <4> HIDE DEF p, l, o, done
      <4>2. p + o + 1 - (N - 1 - c) = p + l - (N - 1 - c)
        BY <4>1
      <4> QED BY <4>1, <4>2, <4>3
    <3>3. tokens[N - 1 - c] = Canonical(text[run[j].position + o + 1 - (N - 1 - c)])
      BY <1>2, <1>4, <1>7, <2>1, <3>2, TokensOfText
    <3> HIDE DEF tokens, done, o
    <3> QED BY <3>1, <3>2, <3>3, CanonicalIs
  <2> QED BY <2>1 DEF Precedes
<1> QED BY <1>6, <1>7

(* Every slot of a batch is there, and behind the batch the padding.        *)
LEMMA OrderIs ==
    ASSUME NEW S \in SUBSET Slots
    PROVE  /\ Cardinality(S) \in Nat
           /\ Order(S) \in [1..Cardinality(S) -> S]
           /\ \A s \in S : \E j \in 1..Cardinality(S) : Order(S)[j] = s
<1>1. IsFiniteSet(Slots)
  <2>1. 0 \in Int /\ NumSlots - 1 \in Int
    BY Sizes
  <2> QED BY <2>1, FS_Interval, Sizes
<1>2. IsFiniteSet(S)
  BY <1>1, FS_Subset
<1> DEFINE n == Cardinality(S)
<1>3. n \in Nat /\ ExistsBijection(1..n, S)
  BY <1>2, FS_CardinalityType
<1>4. PICK f \in Bijection(1..n, S) : TRUE
  BY <1>3 DEF ExistsBijection
<1>5. f \in [1..n -> S] /\ IsInjective(f)
  BY <1>4 DEF Bijection, Injection, IsInjective
<1>6. Order(S) \in [1..n -> S] /\ IsInjective(Order(S))
  <2>1. Order(S) = CHOOSE g \in [1..n -> S] : IsInjective(g)
    BY Zenon DEF Order, SetToSeq
  <2> QED BY <1>5, <2>1, Zenon
<1>7. Order(S) \in Injection(1..n, S)
  BY <1>6 DEF Injection, IsInjective
<1>8. Cardinality(1..n) = n
  <2>1. 1 \in Int /\ n \in Int
    BY <1>3
  <2>2. Cardinality(1..n) = IF 1 > n THEN 0 ELSE n - 1 + 1
    BY <2>1, FS_Interval
  <2> HIDE DEF n
  <2> QED BY <1>3, <2>2
<1>9. Order(S) \in Surjection(1..n, S)
  BY <1>2, <1>7, <1>8, FS_Injection
<1> QED BY <1>3, <1>6, <1>9 DEF Surjection

(* A forward's batch ends in padding.                                       *)
PaddedBatch(S, ids, given, alias, tail) == Append(Batch(S, ids, given), Padding(alias, tail))

RunsOf(S, ids, given) == {Real(s, ids[s], given[s]) : s \in S}

(* What a batch and its padding are made of.                                *)
LEMMA PaddedIs ==
    ASSUME NEW S \in SUBSET Slots, NEW ids, NEW given, NEW alias \in Slots,
           NEW tail \in Seq(Id), HistoryTypeOK,
           \A s \in S : ids[s] \in Seq(Id) /\ given[s] \in HistoryRow
    PROVE  /\ Batch(S, ids, given) \in Seq(Runs) /\ PaddedBatch(S, ids, given, alias, tail) \in Seq(Runs)
           /\ \A j \in 1..Len(Batch(S, ids, given)) : Batch(S, ids, given)[j] \in RunsOf(S, ids, given)
           /\ \A j \in 1..Len(PaddedBatch(S, ids, given, alias, tail)) :
                 \/ PaddedBatch(S, ids, given, alias, tail)[j].padding
                 \/ PaddedBatch(S, ids, given, alias, tail)[j] \in RunsOf(S, ids, given)
           /\ RunsOf(S, ids, given) \subseteq Range(PaddedBatch(S, ids, given, alias, tail))
<1> DEFINE n == Cardinality(S)
           real(s) == Real(s, ids[s], given[s])
           batch_ == Batch(S, ids, given)
           pad == Padding(alias, tail)
           run == Append(batch_, pad)
<1>1. /\ n \in Nat /\ \A j \in 1..n : Order(S)[j] \in S
      /\ \A s \in S : \E j \in 1..n : Order(S)[j] = s
  BY OrderIs
<1>2. \A s \in S : real(s) \in Runs
  BY DEF Real, Runs, HistoryTypeOK
<1>3. pad \in Runs /\ pad.padding
  <2>1. history[alias] \in HistoryRow
    BY Sizes DEF HistoryTypeOK
  <2> QED BY <2>1 DEF Padding, Runs
<1>4. batch_ = [j \in 1..n |-> real(Order(S)[j])]
  BY DEF Batch
<1> HIDE DEF n, pad, real
<1>5. batch_ \in Seq(Runs) /\ Len(batch_) = n /\ \A j \in 1..n : batch_[j] = real(Order(S)[j])
  BY <1>1, <1>2, <1>4
<1> HIDE DEF batch_
<1>6. /\ run \in Seq(Runs) /\ Len(run) = n + 1 /\ run[n + 1] = pad
      /\ \A j \in 1..n : run[j] = batch_[j]
  BY <1>1, <1>3, <1>5
<1> HIDE DEF run
<1>7. \A j \in 1..Len(batch_) : \E s \in S : batch_[j] = real(s)
  BY <1>1, <1>5
<1>8. ASSUME NEW j \in 1..Len(run) PROVE run[j].padding \/ \E s \in S : run[j] = real(s)
  <2>1. CASE j = n + 1
    BY <1>3, <1>6, <2>1
  <2>2. CASE j # n + 1
    <3>1. j \in 1..n
      BY <1>1, <1>6, <2>2
    <3>2. run[j] = real(Order(S)[j]) /\ Order(S)[j] \in S
      BY <1>1, <1>5, <1>6, <3>1
    <3> QED BY <3>2
  <2> QED BY <2>1, <2>2
<1>9. ASSUME NEW s \in S PROVE \E j \in 1..Len(run) : run[j] = real(s)
  <2>1. PICK j \in 1..n : Order(S)[j] = s
    BY <1>1
  <2>2. j \in 1..Len(run) /\ run[j] = real(s)
    BY <1>1, <1>5, <1>6, <2>1
  <2> QED BY <2>2
<1>10. RunsOf(S, ids, given) = {real(s) : s \in S}
  BY DEF RunsOf, real
<1>11. Batch(S, ids, given) = batch_ /\ PaddedBatch(S, ids, given, alias, tail) = run
  BY DEF batch_, run, pad, PaddedBatch
<1>12. \A r \in RunsOf(S, ids, given) : \E s \in S : r = real(s)
  BY <1>10
<1>13. \A s \in S : real(s) \in RunsOf(S, ids, given)
  BY <1>10
<1>14. \A r \in RunsOf(S, ids, given) : \E j \in 1..Len(run) : run[j] = r
  BY <1>9, <1>12
<1>15. \A j \in 1..Len(run) : run[j].padding \/ run[j] \in RunsOf(S, ids, given)
  BY <1>8, <1>13
<1>16. \A j \in 1..Len(batch_) : batch_[j] \in RunsOf(S, ids, given)
  BY <1>7, <1>13
<1>17. RunsOf(S, ids, given) \subseteq Range(run)
  BY <1>6, <1>14 DEF Range
<1> QED BY <1>5, <1>6, <1>11, <1>15, <1>16, <1>17

\* A batch is a sequence of the runs of its slots.
LEMMA RunsAre ==
    ASSUME NEW S \in SUBSET Slots, NEW ids, NEW given, HistoryTypeOK,
           \A s \in S : ids[s] \in Seq(Id) /\ given[s] \in HistoryRow
    PROVE  /\ Batch(S, ids, given) \in Seq(Runs)
           /\ \A j \in 1..Len(Batch(S, ids, given)) : Batch(S, ids, given)[j] \in RunsOf(S, ids, given)
<1>1. CASE S = {}
  <2>1. Cardinality(S) = 0
    BY <1>1, FS_EmptySet
  <2>2. Batch(S, ids, given) = <<>>
    BY <2>1 DEF Batch
  <2> QED BY <2>2
<1>2. CASE S # {}
  <2>1. PICK alias \in Slots : TRUE
    BY <1>2
  <2>2. <<>> \in Seq(Id)
    OBVIOUS
  <2> QED BY <2>1, <2>2, PaddedIs
<1> QED BY <1>1, <1>2

(* A forward commits to the rows of its requests, and to the row of padding.*)
LEMMA CommitIs ==
    ASSUME HistoryTypeOK, NEW run \in Seq(Runs)
    PROVE  /\ Commit(run) \in [0..NumSlots -> HistoryRow]
           /\ \A s \in Slots :
                 \/ /\ Commit(run)[s] = history[s]
                    /\ \A j \in 1..Len(run) :
                          ~run[j].padding /\ run[j].slot = s => run[j].ids = <<>>
                 \/ \E j \in 1..Len(run) :
                       /\ ~run[j].padding /\ run[j].slot = s /\ run[j].ids # <<>>
                       /\ Commit(run)[s] = LastTokens(run, j)
<1> DEFINE Meant(j, row) == CommitRow(run[j]) = row /\ run[j].ids # <<>>
           To(row) == CHOOSE j \in DOMAIN run : Meant(j, row)
<1>1. DOMAIN run = 1..Len(run)
  OBVIOUS
<1>2. \A row \in 0..NumSlots : Commit(run)[row] =
         IF \E j \in DOMAIN run : Meant(j, row) THEN LastTokens(run, To(row)) ELSE history[row]
  BY DEF Commit
<1>3. \A row : (\E j \in DOMAIN run : Meant(j, row)) => To(row) \in DOMAIN run /\ Meant(To(row), row)
  BY Zenon
<1> HIDE DEF To
<1>4. ASSUME NEW row \in 0..NumSlots PROVE Commit(run)[row] \in HistoryRow
  <2>1. CASE \E j \in DOMAIN run : Meant(j, row)
    <3>1. To(row) \in 1..Len(run) /\ run[To(row)].ids # <<>>
      BY <1>1, <1>3, <2>1
    <3>2. LastTokens(run, To(row)) \in HistoryRow
      BY <3>1, LastTokensAre
    <3> QED BY <1>2, <2>1, <3>2
  <2>2. CASE ~\E j \in DOMAIN run : Meant(j, row)
    BY <1>2, <2>2 DEF HistoryTypeOK
  <2> QED BY <2>1, <2>2
<1>5. Commit(run) = [row \in 0..NumSlots |-> Commit(run)[row]]
  BY DEF Commit
<1>6. Commit(run) \in [0..NumSlots -> HistoryRow]
  BY <1>4, <1>5
<1>7. ASSUME NEW s \in Slots
      PROVE  \/ /\ Commit(run)[s] = history[s]
                /\ \A j \in 1..Len(run) :
                      ~run[j].padding /\ run[j].slot = s => run[j].ids = <<>>
             \/ \E j \in 1..Len(run) :
                   /\ ~run[j].padding /\ run[j].slot = s /\ run[j].ids # <<>>
                   /\ Commit(run)[s] = LastTokens(run, j)
  <2>1. s \in 0..NumSlots /\ s # PadRow
    BY Sizes
  <2>2. \A j \in DOMAIN run : Meant(j, s) <=> ~run[j].padding /\ run[j].slot = s /\ run[j].ids # <<>>
    BY <2>1 DEF CommitRow
  <2>3. CASE \E j \in DOMAIN run : Meant(j, s)
    <3>1. To(s) \in 1..Len(run) /\ Meant(To(s), s) /\ Commit(run)[s] = LastTokens(run, To(s))
      BY <1>1, <1>2, <1>3, <2>1, <2>3
    <3> QED BY <1>1, <2>2, <3>1
  <2>4. CASE ~\E j \in DOMAIN run : Meant(j, s)
    BY <1>1, <1>2, <2>1, <2>2, <2>4
  <2> QED BY <2>3, <2>4
<1> QED BY <1>6, <1>7

\* A history row precedes any text that agrees on what is done.
LEMMA PrecedesSame ==
    ASSUME NEW row, NEW text, NEW next, NEW done \in Nat, Precedes(row, text, done),
           \A i \in 1..done : next[i] = text[i]
    PROVE  Precedes(row, next, done)
<1>1. ASSUME NEW c \in 1..N - 1, done - (N - 1 - c) >= 1
      PROVE  Canonical(row[c]) = Canonical(next[done - (N - 1 - c)])
  <2>1. done - (N - 1 - c) \in 1..done
    BY <1>1, Sizes
  <2>2. next[done - (N - 1 - c)] = text[done - (N - 1 - c)]
    BY <2>1
  <2> QED BY <1>1, <2>2 DEF Precedes
<1> QED BY <1>1 DEF Precedes

\* A text, a position and a flag make a request.
LEMMA RequestIs ==
    \A text \in Seq(Id), done \in Nat, warm \in BOOLEAN :
       [text |-> text, done |-> done, warm |-> warm] \in [text : Seq(Id), done : Nat, warm : BOOLEAN]
<1> QED OBVIOUS

\* Advancing moves the slots of the batch by their lengths and leaves the others alone.
LEMMA AdvanceIs ==
    ASSUME HistoryTypeOK, NEW S \in SUBSET Slots, NEW lens \in [S -> Nat], Advance(S, lens),
           \A s \in S : request[s].done + lens[s] <= Len(request[s].text)
    PROVE  /\ request' \in [Slots -> [text : Seq(Id), done : Nat, warm : BOOLEAN]]
           /\ \A s \in Slots \ S : request'[s] = request[s]
           /\ \A s \in S :
                 /\ request'[s].warm /\ request'[s].done = request[s].done + lens[s]
                 /\ request'[s].done < Len(request'[s].text)
                 /\ \A i \in 1..Len(request[s].text) : request'[s].text[i] = request[s].text[i]
<1> DEFINE finishing == {s \in S : request[s].done + lens[s] = Len(request[s].text)}
           next(s, sampled) ==
              [text |-> IF s \in finishing THEN Append(request[s].text, sampled[s])
                        ELSE request[s].text,
               done |-> request[s].done + lens[s], warm |-> TRUE]
<1>1. PICK sampled \in [finishing -> Words] :
         request' = [s \in Slots |-> IF s \notin S THEN request[s] ELSE next(s, sampled)]
  BY Zenon DEF Advance
<1>2. request \in [Slots -> [text : Seq(Id), done : Nat, warm : BOOLEAN]]
  BY DEF HistoryTypeOK
<1>3. ASSUME NEW s \in S
      PROVE  /\ next(s, sampled) \in [text : Seq(Id), done : Nat, warm : BOOLEAN]
             /\ next(s, sampled).warm /\ next(s, sampled).done = request[s].done + lens[s]
             /\ next(s, sampled).done < Len(next(s, sampled).text)
             /\ \A i \in 1..Len(request[s].text) :
                   next(s, sampled).text[i] = request[s].text[i]
  <2> DEFINE text == request[s].text
             new == next(s, sampled)
  <2>1. /\ text \in Seq(Id) /\ Len(text) \in Nat /\ request[s].done \in Nat /\ lens[s] \in Nat
        /\ request[s].done + lens[s] <= Len(text)
    BY <1>2
  <2>2. new.warm /\ new.done = request[s].done + lens[s]
    OBVIOUS
  <2>3. CASE s \in finishing
    <3>1. sampled[s] \in Id
      BY <2>3 DEF Id
    <3>2. new.text = Append(text, sampled[s]) /\ request[s].done + lens[s] = Len(text)
      BY <2>3
    <3> HIDE DEF new, text
    <3>3. /\ new.text \in Seq(Id) /\ Len(new.text) = Len(text) + 1
          /\ \A i \in 1..Len(text) : new.text[i] = text[i]
      BY <2>1, <3>1, <3>2
    <3>4. new.done < Len(new.text) /\ new.done \in Nat
      BY <2>1, <2>2, <3>2, <3>3
    <3>5. new = [text |-> new.text, done |-> new.done, warm |-> TRUE]
      BY DEF new
    <3>6. new \in [text : Seq(Id), done : Nat, warm : BOOLEAN]
      <4>1. [text |-> new.text, done |-> new.done, warm |-> TRUE]
               \in [text : Seq(Id), done : Nat, warm : BOOLEAN]
        BY <3>3, <3>4, RequestIs, Zenon
      <4> QED BY <3>5, <4>1, Zenon
    <3> QED BY <2>2, <3>3, <3>4, <3>6 DEF new, text
  <2>4. CASE s \notin finishing
    <3>1. new.text = text /\ request[s].done + lens[s] # Len(text)
      BY <2>4
    <3>2. new = [text |-> new.text, done |-> new.done, warm |-> TRUE]
      OBVIOUS
    <3> HIDE DEF new, text
    <3>3. new.done < Len(new.text) /\ new.done \in Nat
      BY <2>1, <2>2, <3>1
    <3>4. new \in [text : Seq(Id), done : Nat, warm : BOOLEAN]
      <4>1. [text |-> new.text, done |-> new.done, warm |-> TRUE]
               \in [text : Seq(Id), done : Nat, warm : BOOLEAN]
        BY <2>1, <3>1, <3>3, RequestIs, Zenon
      <4> QED BY <3>2, <4>1, Zenon
    <3> QED BY <2>2, <3>1, <3>3, <3>4 DEF new, text
  <2> QED BY <2>3, <2>4
<1> HIDE DEF next
<1>4. \A s \in Slots : request'[s] = IF s \notin S THEN request[s] ELSE next(s, sampled)
  BY <1>1
<1>5. request' \in [Slots -> [text : Seq(Id), done : Nat, warm : BOOLEAN]]
  BY <1>1, <1>2, <1>3
<1>6. \A s \in S : request'[s] = next(s, sampled)
  BY <1>4
<1> QED BY <1>3, <1>4, <1>5, <1>6

(* What extend and decode have in common: a batch of the requests' next     *)
(* tokens, each run behind what precedes it, and the padding.               *)
ForwardOf(S, lens, ids, given, alias, tail) ==
    /\ lens \in [S -> Nat \ {0}]
    /\ \A s \in S : /\ ids[s] \in Seq(Id) /\ given[s] \in HistoryRow
                    /\ Len(ids[s]) = lens[s]
                    /\ OfText(Real(s, ids[s], given[s]), request[s].text)
    /\ history' = Commit(PaddedBatch(S, ids, given, alias, tail))
    /\ hashed' = Judge(PaddedBatch(S, ids, given, alias, tail), Texts)
    /\ Advance(S, lens)
    /\ verifying = [s \in {} |-> <<>>] /\ UNCHANGED verifying

(* It hashes every run with its own text and leaves in each request's row   *)
(* what precedes the tokens that come next.                                 *)
LEMMA ForwardKeeps ==
    ASSUME HistoryInv, NEW S \in SUBSET Slots, NEW lens, NEW ids, NEW given,
           NEW alias \in Slots, NEW tail \in Seq(Id), ForwardOf(S, lens, ids, given, alias, tail)
    PROVE  HistoryInv'
<1> DEFINE run == PaddedBatch(S, ids, given, alias, tail)
<1>1. HistoryTypeOK /\ OwnRows
  BY DEF HistoryInv
<1>2. \A s \in S : ids[s] \in Seq(Id) /\ given[s] \in HistoryRow
  BY DEF ForwardOf
<1>3. /\ run \in Seq(Runs)
      /\ \A j \in 1..Len(run) : run[j].padding \/ run[j] \in RunsOf(S, ids, given)
      /\ \A r \in RunsOf(S, ids, given) : \E j \in 1..Len(run) : run[j] = r
  <2>1. run \in Seq(Runs)
    BY <1>1, <1>2, PaddedIs
  <2>2. \A j \in 1..Len(run) : run[j].padding \/ run[j] \in RunsOf(S, ids, given)
    BY <1>1, <1>2, PaddedIs
  <2>3. RunsOf(S, ids, given) \subseteq Range(run)
    BY <1>1, <1>2, PaddedIs
  <2> HIDE DEF run
  <2> QED BY <2>1, <2>2, <2>3 DEF Range
<1>4. history' = Commit(run) /\ hashed' = Judge(run, Texts)
  BY DEF ForwardOf
<1> HIDE DEF run
<1>5. \A s \in S : /\ Real(s, ids[s], given[s]).slot = s /\ Real(s, ids[s], given[s]).ids = ids[s]
                   /\ Real(s, ids[s], given[s]).position = request[s].done
                   /\ ~Real(s, ids[s], given[s]).padding
  BY DEF Real
<1>6. ASSUME NEW j \in 1..Len(run), ~run[j].padding
      PROVE  /\ run[j].slot \in S /\ run[j].position = request[run[j].slot].done
             /\ run[j].ids = ids[run[j].slot] /\ OfText(run[j], request[run[j].slot].text)
  <2>1. PICK s \in S : run[j] = Real(s, ids[s], given[s])
    BY <1>3, <1>6 DEF RunsOf
  <2>2. run[j].slot = s /\ run[j].position = request[s].done /\ run[j].ids = ids[s]
    BY <1>5, <2>1
  <2>3. OfText(run[j], request[s].text)
    BY <2>1 DEF ForwardOf
  <2> QED BY <2>2, <2>3
<1>7. HashedWithOwnText'
  <2>1. \A j \in 1..Len(run) : ~run[j].padding => OfText(run[j], Texts[run[j].slot])
    BY <1>6 DEF Texts
  <2>2. \A pair \in Judge(run, Texts) : pair[1] = pair[2]
    BY <1>3, <2>1, JudgeIs
  <2> QED BY <1>4, <2>2 DEF HashedWithOwnText
<1>8. /\ Commit(run) \in [0..NumSlots -> HistoryRow]
      /\ \A s \in Slots :
            \/ /\ Commit(run)[s] = history[s]
               /\ \A j \in 1..Len(run) : ~run[j].padding /\ run[j].slot = s => run[j].ids = <<>>
            \/ \E j \in 1..Len(run) : /\ ~run[j].padding /\ run[j].slot = s /\ run[j].ids # <<>>
                                      /\ Commit(run)[s] = LastTokens(run, j)
  BY <1>1, <1>3, CommitIs
<1>9. \A s \in S : lens[s] \in Nat /\ lens[s] # 0 /\ ids[s] # <<>> /\ Len(ids[s]) = lens[s]
                   /\ request[s].done + lens[s] <= Len(request[s].text)
  <2> TAKE s \in S
  <2>1. lens[s] \in Nat /\ lens[s] # 0 /\ Len(ids[s]) = lens[s] /\ ids[s] \in Seq(Id)
    BY DEF ForwardOf
  <2>2. OfText(Real(s, ids[s], given[s]), request[s].text)
    BY DEF ForwardOf
  <2>3. request[s].done + Len(ids[s]) <= Len(request[s].text)
    BY <1>5, <2>2 DEF OfText
  <2> QED BY <2>1, <2>3
<1>10. /\ request' \in [Slots -> [text : Seq(Id), done : Nat, warm : BOOLEAN]]
       /\ \A s \in Slots \ S : request'[s] = request[s]
       /\ \A s \in S :
             /\ request'[s].warm /\ request'[s].done = request[s].done + lens[s]
             /\ request'[s].done < Len(request'[s].text)
             /\ \A i \in 1..Len(request[s].text) : request'[s].text[i] = request[s].text[i]
  <2>1. lens \in [S -> Nat] /\ HistoryTypeOK /\ Advance(S, lens)
    BY <1>1 DEF ForwardOf
  <2>2. \A s \in S : request[s].done + lens[s] <= Len(request[s].text)
    BY <1>9
  <2> QED BY <2>1, <2>2, AdvanceIs
<1>11. HistoryTypeOK'
  <2>1. \A s \in Slots : request'[s] # Free => request'[s].done < Len(request'[s].text)
    BY <1>1, <1>10 DEF HistoryTypeOK
  <2>2. DOMAIN verifying' = {}
    BY DEF ForwardOf
  <2> QED BY <1>4, <1>8, <1>10, <2>1, <2>2 DEF HistoryTypeOK
<1>12. ASSUME NEW s \in Slots, request'[s].warm
       PROVE  Precedes(history'[s], request'[s].text, request'[s].done)
  <2>1. CASE s \in S
    <3>1. PICK j \in 1..Len(run) : ~run[j].padding /\ run[j].slot = s /\ run[j].ids # <<>>
                                   /\ Commit(run)[s] = LastTokens(run, j)
      <4>1. PICK k \in 1..Len(run) : run[k] = Real(s, ids[s], given[s])
        BY <1>3, <2>1 DEF RunsOf
      <4>2. ~run[k].padding /\ run[k].slot = s /\ run[k].ids # <<>>
        BY <1>5, <1>9, <2>1, <4>1
      <4> QED BY <1>8, <4>2
    <3>2. /\ run[j].position = request[s].done /\ run[j].ids = ids[s]
          /\ OfText(run[j], request[s].text)
      BY <1>6, <3>1
    <3>3. Precedes(LastTokens(run, j), request[s].text, run[j].position + Len(run[j].ids))
      BY <1>3, <3>1, <3>2, LastTokensAre
    <3>4. run[j].position + Len(run[j].ids) = request'[s].done
      BY <1>9, <1>10, <2>1, <3>2
    <3>5. Precedes(history'[s], request[s].text, request'[s].done)
      BY <1>4, <3>1, <3>3, <3>4
    <3>6. request'[s].done \in Nat /\ request'[s].done <= Len(request[s].text)
          /\ Len(request[s].text) \in Nat
      BY <1>1, <1>9, <1>10, <2>1 DEF HistoryTypeOK
    <3>7. \A i \in 1..request'[s].done : request'[s].text[i] = request[s].text[i]
      BY <1>10, <2>1, <3>6
    <3> QED BY <3>5, <3>6, <3>7, PrecedesSame
  <2>2. CASE s \notin S
    <3>1. request'[s] = request[s]
      BY <1>10, <2>2
    <3>2. history'[s] = history[s]
      BY <1>4, <1>6, <1>8, <2>2
    <3> QED BY <1>1, <1>12, <3>1, <3>2 DEF OwnRows
  <2> QED BY <2>1, <2>2
<1>13. OwnRows'
  BY <1>12 DEF OwnRows, ForwardOf
<1> QED BY <1>7, <1>11, <1>13 DEF HistoryInv

\* The cut of a text at a position is the ids at that place.
LEMMA CutIs ==
    ASSUME NEW text \in Seq(Id), NEW m \in Nat, NEW n \in Nat, m + n <= Len(text)
    PROVE  /\ SubSeq(text, m + 1, m + n) \in Seq(Id) /\ Len(SubSeq(text, m + 1, m + n)) = n
           /\ \A k \in 1..n : SubSeq(text, m + 1, m + n)[k] = text[m + k]
<1>1. Len(text) \in Nat /\ \A i \in 1..Len(text) : text[i] \in Id
  OBVIOUS
<1>2. m + 1 \in Int /\ m + n \in Int /\ \A i \in m + 1..m + n : text[i] \in Id
  BY <1>1
<1>3. /\ SubSeq(text, m + 1, m + n) \in Seq(Id)
      /\ Len(SubSeq(text, m + 1, m + n)) = IF m + 1 <= m + n THEN m + n - (m + 1) + 1 ELSE 0
      /\ \A k \in 1..m + n - (m + 1) + 1 : SubSeq(text, m + 1, m + n)[k] = text[m + 1 + k - 1]
  BY <1>2, SubSeqProperties
<1>4. m + n - (m + 1) + 1 = n /\ \A k \in 1..n : m + 1 + k - 1 = m + k
  OBVIOUS
<1>5. m + 1 <= m + n <=> n # 0
  OBVIOUS
<1> QED BY <1>3, <1>4, <1>5

\* The text with more appended keeps its beginning and ends with what was appended.
LEMMA JoinIs ==
    ASSUME NEW text \in Seq(Id), NEW more \in Seq(Id)
    PROVE  /\ text \o more \in Seq(Id) /\ Len(text \o more) = Len(text) + Len(more)
           /\ \A i \in 1..Len(text) : (text \o more)[i] = text[i]
           /\ \A k \in 1..Len(more) : (text \o more)[Len(text) + k] = more[k]
<1> QED OBVIOUS

\* A history row is a sequence of N - 1 ids.
LEMMA RowIsSequence ==
    ASSUME NEW row \in HistoryRow
    PROVE  row \in Seq(Id) /\ Len(row) = N - 1
<1>1. N - 1 \in Nat /\ row \in [1..N - 1 -> Id]
  BY Sizes DEF HistoryRow
<1> QED BY <1>1

\* A run made of the next ids of a text, on its history, is a run of that text.
LEMMA RunIsOfText ==
    ASSUME NEW s, NEW ids, NEW given, NEW text \in Seq(Id),
           request[s].done + Len(ids) <= Len(text),
           \A k \in 1..Len(ids) : ids[k] = text[request[s].done + k],
           Precedes(given, text, request[s].done)
    PROVE  OfText(Real(s, ids, given), text)
<1>1. /\ Real(s, ids, given).ids = ids /\ Real(s, ids, given).given = given
      /\ Real(s, ids, given).position = request[s].done
  BY DEF Real
<1> QED BY <1>1 DEF OfText

\* The initial states satisfy the history invariant.
LEMMA InitHistory == HistoryInit => HistoryInv
<1> SUFFICES ASSUME HistoryInit PROVE HistoryInv
  OBVIOUS
<1>1. history \in [0..NumSlots -> HistoryRow]
  BY DEF HistoryInit, HistoryRow, Id
<1>2. Free \in [text : Seq(Id), done : Nat, warm : BOOLEAN] /\ ~Free.warm
  BY DEF Free
<1>3. request \in [Slots -> [text : Seq(Id), done : Nat, warm : BOOLEAN]]
      /\ \A s \in Slots : request[s] = Free
  BY <1>2 DEF HistoryInit
<1>4. DOMAIN verifying = {} /\ hashed = {}
  BY DEF HistoryInit
<1> QED BY <1>1, <1>2, <1>3, <1>4 DEF HistoryInv, HistoryTypeOK, OwnRows, HashedWithOwnText

(* Nothing is hashed and no row is written: only one slot's request changes.*)
LEMMA SlotKeeps ==
    ASSUME HistoryInv, NEW s \in Slots, NEW new, s \notin DOMAIN verifying,
           request' = [request EXCEPT ![s] = new],
           new \in [text : Seq(Id), done : Nat, warm : BOOLEAN], ~new.warm,
           new # Free => new.done < Len(new.text),
           hashed' = {}, UNCHANGED <<history, verifying>>
    PROVE  HistoryInv'
<1>1. HistoryTypeOK /\ OwnRows
  BY DEF HistoryInv
<1>2. /\ request' \in [Slots -> [text : Seq(Id), done : Nat, warm : BOOLEAN]]
      /\ request'[s] = new /\ \A u \in Slots \ {s} : request'[u] = request[u]
  BY <1>1 DEF HistoryTypeOK
<1>3. HistoryTypeOK'
  BY <1>1, <1>2 DEF HistoryTypeOK
<1>4. \A u \in Slots : request'[u].warm =>
         request[u].warm /\ request'[u] = request[u] /\ history'[u] = history[u]
  BY <1>2
<1>5. \A u \in Slots : request'[u].warm =>
         Precedes(history'[u], request'[u].text, request'[u].done)
  BY <1>1, <1>4 DEF OwnRows
<1>6. \A u \in DOMAIN verifying' : request'[u] # Free /\ request'[u].warm
  <2>1. \A u \in DOMAIN verifying : u \in Slots \ {s} /\ request[u] # Free /\ request[u].warm
    BY <1>1 DEF HistoryTypeOK, OwnRows
  <2> QED BY <1>2, <2>1
<1>7. OwnRows'
  BY <1>5, <1>6 DEF OwnRows
<1> QED BY <1>3, <1>7 DEF HistoryInv, HashedWithOwnText

\* Admitting a request to a slot keeps the invariant.
LEMMA AdmitKeeps ==
    ASSUME HistoryInv, NEW s \in Slots, Admit(s)
    PROVE  HistoryInv'
<1>1. PICK text \in Prompts : \E hit \in 0..Len(text) - 1 :
         request' = [request EXCEPT ![s] = [text |-> text, done |-> hit, warm |-> FALSE]]
  BY DEF Admit
<1>2. PICK hit \in 0..Len(text) - 1 :
         request' = [request EXCEPT ![s] = [text |-> text, done |-> hit, warm |-> FALSE]]
  BY <1>1
<1> DEFINE new == [text |-> text, done |-> hit, warm |-> FALSE]
<1>3. text \in Seq(Id)
  <2>1. text \in Seq(Words \cup {ImagePad})
    BY HistoryAssumption
  <2>2. \A w \in Words \cup {ImagePad} : w \in Id
    BY DEF Id
  <2> QED BY <2>1, <2>2
<1>4. hit \in Nat /\ hit < Len(text)
  BY <1>3
<1>5. new \in [text : Seq(Id), done : Nat, warm : BOOLEAN]
  BY <1>3, <1>4, RequestIs, Zenon
<1>6. ~new.warm /\ (new # Free => new.done < Len(new.text))
  BY <1>4
<1>7. s \notin DOMAIN verifying
  BY DEF Admit, HistoryInv, OwnRows
<1>8. request' = [request EXCEPT ![s] = new] /\ hashed' = {} /\ UNCHANGED <<history, verifying>>
  BY <1>2 DEF Admit
<1> HIDE DEF new
<1> QED BY <1>5, <1>6, <1>7, <1>8, SlotKeeps

\* Retiring a request keeps the invariant.
LEMMA RetireKeeps ==
    ASSUME HistoryInv, NEW s \in Slots, Retire(s)
    PROVE  HistoryInv'
<1>1. Free \in [text : Seq(Id), done : Nat, warm : BOOLEAN] /\ ~Free.warm
  BY DEF Free
<1>2. /\ request' = [request EXCEPT ![s] = Free] /\ s \notin DOMAIN verifying
      /\ hashed' = {} /\ UNCHANGED <<history, verifying>>
  BY DEF Retire
<1> QED BY <1>1, <1>2, SlotKeeps

\* What is known of a slot with an active request.
LEMMA ActiveIs ==
    ASSUME HistoryTypeOK, NEW s \in Active
    PROVE  /\ s \in Slots /\ request[s].text \in Seq(Id) /\ request[s].done \in Nat
           /\ request[s].done < Len(request[s].text) /\ Len(request[s].text) \in Nat
           /\ request[s].warm \in BOOLEAN /\ history[s] \in HistoryRow
<1>1. s \in Slots /\ s \in 0..NumSlots /\ request[s] # Free
  BY Sizes DEF Active
<1> QED BY <1>1 DEF HistoryTypeOK

\* The history a caller supplies for a slot precedes its text.
LEMMA SuppliedIs ==
    ASSUME HistoryTypeOK, NEW s \in Active
    PROVE  Supplied(s) \in HistoryRow /\ Precedes(Supplied(s), request[s].text, request[s].done)
<1> DEFINE i(c) == request[s].done - (N - 1 - c)
<1>1. Supplied(s) = [c \in 1..N - 1 |-> IF i(c) >= 1 THEN request[s].text[i(c)] ELSE 0]
  BY Zenon DEF Supplied
<1>2. \A c \in 1..N - 1 : i(c) \in Int /\ i(c) <= request[s].done
  BY ActiveIs, Sizes
<1>3. ASSUME NEW c \in 1..N - 1, i(c) >= 1 PROVE request[s].text[i(c)] \in Id
  <2>1. i(c) \in 1..Len(request[s].text)
    BY <1>2, <1>3, ActiveIs
  <2>2. request[s].text \in Seq(Id)
    BY ActiveIs
  <2> HIDE DEF i
  <2> QED BY <2>1, <2>2
<1> HIDE DEF i
<1>4. Supplied(s) \in HistoryRow
  BY <1>1, <1>3 DEF HistoryRow, Id
<1>5. \A c \in 1..N - 1 : i(c) >= 1 => Supplied(s)[c] = request[s].text[i(c)]
  BY <1>1
<1>6. Precedes(Supplied(s), request[s].text, request[s].done)
  BY <1>5 DEF i, Precedes
<1> QED BY <1>4, <1>6

(* A row is the request's own where it was written for it; at the start of  *)
(* a text nothing precedes.                                                 *)
LEMMA RowIs ==
    ASSUME HistoryTypeOK, OwnRows, NEW s \in Active, request[s].warm \/ request[s].done = 0
    PROVE  SlotRows[s] \in HistoryRow /\ Precedes(SlotRows[s], request[s].text, request[s].done)
<1>1. SlotRows[s] = history[s] /\ s \in Slots
  BY ActiveIs DEF SlotRows
<1>2. CASE request[s].warm
  BY <1>1, <1>2, ActiveIs DEF OwnRows
<1>3. CASE request[s].done = 0
  <2>1. \A c \in 1..N - 1 : ~(0 - (N - 1 - c) >= 1)
    BY Sizes
  <2> QED BY <1>1, <1>3, <2>1, ActiveIs DEF Precedes
<1> QED BY <1>2, <1>3

\* An extend batch is hashed with the own text of each request.
LEMMA ExtendKeeps ==
    ASSUME HistoryInv, NEW S \in SUBSET Active, NEW lens \in [S -> 1..MaxLen],
           NEW supplied \in BOOLEAN,
           \A s \in S : request[s].done + lens[s] <= Len(request[s].text),
           Extend(S, lens, supplied)
    PROVE  HistoryInv'
<1> DEFINE ids == [s \in S |-> SubSeq(request[s].text, request[s].done + 1,
                                      request[s].done + lens[s])]
           given == IF supplied THEN [s \in S |-> Supplied(s)] ELSE SlotRows
<1>1. HistoryTypeOK /\ OwnRows
  BY DEF HistoryInv
<1>2. PICK alias \in Slots :
         /\ history' = Commit(PaddedBatch(S, ids, given, alias, <<>>))
         /\ hashed' = Judge(PaddedBatch(S, ids, given, alias, <<>>), Texts)
  BY Zenon DEF Extend, PaddedBatch
<1>3. ASSUME NEW s \in S
      PROVE  /\ ids[s] \in Seq(Id) /\ Len(ids[s]) = lens[s]
             /\ \A k \in 1..lens[s] : ids[s][k] = request[s].text[request[s].done + k]
  <2>1. ids[s] = SubSeq(request[s].text, request[s].done + 1, request[s].done + lens[s])
    OBVIOUS
  <2>2. request[s].text \in Seq(Id) /\ request[s].done \in Nat /\ lens[s] \in Nat
        /\ request[s].done + lens[s] <= Len(request[s].text)
    BY <1>1, ActiveIs, Sizes
  <2> HIDE DEF ids
  <2>3. /\ SubSeq(request[s].text, request[s].done + 1, request[s].done + lens[s]) \in Seq(Id)
        /\ Len(SubSeq(request[s].text, request[s].done + 1, request[s].done + lens[s])) = lens[s]
        /\ \A k \in 1..lens[s] :
              SubSeq(request[s].text, request[s].done + 1, request[s].done + lens[s])[k] =
                 request[s].text[request[s].done + k]
    BY <2>2, CutIs
  <2> QED BY <2>1, <2>3
<1>4. ASSUME NEW s \in S
      PROVE  given[s] \in HistoryRow /\ Precedes(given[s], request[s].text, request[s].done)
  <2>1. CASE supplied
    <3>1. given[s] = Supplied(s)
      BY <2>1
    <3> QED BY <1>1, <3>1, SuppliedIs
  <2>2. CASE ~supplied
    <3>1. given[s] = SlotRows[s] /\ (request[s].warm \/ request[s].done = 0)
      BY <2>2 DEF Extend
    <3> HIDE DEF given
    <3> QED BY <1>1, <3>1, RowIs
  <2> QED BY <2>1, <2>2
<1>5. Advance(S, lens) /\ verifying = [s \in {} |-> <<>>] /\ UNCHANGED verifying
  BY DEF Extend
<1> HIDE DEF ids, given
<1>6. ASSUME NEW s \in S PROVE OfText(Real(s, ids[s], given[s]), request[s].text)
  <2>1. request[s].text \in Seq(Id) /\ request[s].done + Len(ids[s]) <= Len(request[s].text)
    BY <1>1, <1>3, ActiveIs
  <2>2. \A k \in 1..Len(ids[s]) : ids[s][k] = request[s].text[request[s].done + k]
    BY <1>3
  <2> QED BY <1>4, <2>1, <2>2, RunIsOfText
<1>7. lens \in [S -> Nat \ {0}]
  BY Sizes
<1>8. \A s \in S : /\ ids[s] \in Seq(Id) /\ given[s] \in HistoryRow /\ Len(ids[s]) = lens[s]
                   /\ OfText(Real(s, ids[s], given[s]), request[s].text)
  BY <1>3, <1>4, <1>6
<1>9. ForwardOf(S, lens, ids, given, alias, <<>>)
  BY <1>2, <1>5, <1>7, <1>8 DEF ForwardOf
<1>10. S \in SUBSET Slots /\ <<>> \in Seq(Id)
  BY DEF Active
<1> QED BY <1>9, <1>10, ForwardKeeps

\* A decode batch is hashed with the own text of each request.
LEMMA DecodeKeeps ==
    ASSUME HistoryInv, NEW S \in SUBSET Decoding, Decode(S)
    PROVE  HistoryInv'
<1> DEFINE ids == [s \in S |-> <<request[s].text[request[s].done + 1]>>]
           lens == [s \in S |-> 1]
<1>1. HistoryTypeOK /\ OwnRows
  BY DEF HistoryInv
<1>2. PICK alias \in Slots :
         /\ history' = Commit(PaddedBatch(S, ids, SlotRows, alias, <<0>>))
         /\ hashed' = Judge(PaddedBatch(S, ids, SlotRows, alias, <<0>>), Texts)
  BY Zenon DEF Decode, PaddedBatch
<1>3. \A s \in S : s \in Active /\ request[s].warm /\ request[s].done = Len(request[s].text) - 1
  BY DEF Decoding
<1>4. ASSUME NEW s \in S
      PROVE  /\ ids[s] \in Seq(Id) /\ Len(ids[s]) = 1 /\ request[s].text \in Seq(Id)
             /\ request[s].done + Len(ids[s]) <= Len(request[s].text)
             /\ \A k \in 1..Len(ids[s]) : ids[s][k] = request[s].text[request[s].done + k]
  <2> DEFINE id == request[s].text[request[s].done + 1]
  <2>1. request[s].text \in Seq(Id) /\ request[s].done \in Nat /\ Len(request[s].text) \in Nat
        /\ request[s].done + 1 = Len(request[s].text)
    BY <1>1, <1>3, ActiveIs
  <2>2. id \in Id
    BY <2>1
  <2>3. ids[s] = <<id>>
    OBVIOUS
  <2> HIDE DEF ids, id
  <2>4. ids[s] \in Seq(Id) /\ Len(ids[s]) = 1 /\ ids[s][1] = id
    BY <2>2, <2>3
  <2>5. \A k \in 1..Len(ids[s]) : ids[s][k] = request[s].text[request[s].done + k]
    <3>1. \A k \in 1..Len(ids[s]) : k = 1
      BY <2>4
    <3> QED BY <2>4, <3>1 DEF id
  <2> QED BY <2>1, <2>4, <2>5
<1>5. \A s \in S : SlotRows[s] \in HistoryRow
                   /\ Precedes(SlotRows[s], request[s].text, request[s].done)
  BY <1>1, <1>3, RowIs
<1>6. Advance(S, lens) /\ verifying = [s \in {} |-> <<>>] /\ UNCHANGED verifying
  BY DEF Decode
<1> HIDE DEF ids
<1>7. ASSUME NEW s \in S PROVE OfText(Real(s, ids[s], SlotRows[s]), request[s].text)
  BY <1>4, <1>5, RunIsOfText
<1>8. lens \in [S -> Nat \ {0}] /\ \A s \in S : lens[s] = 1
  OBVIOUS
<1> HIDE DEF lens
<1>9. \A s \in S : /\ ids[s] \in Seq(Id) /\ SlotRows[s] \in HistoryRow /\ Len(ids[s]) = lens[s]
                   /\ OfText(Real(s, ids[s], SlotRows[s]), request[s].text)
  BY <1>4, <1>5, <1>7, <1>8
<1>10. ForwardOf(S, lens, ids, SlotRows, alias, <<0>>)
  BY <1>2, <1>6, <1>8, <1>9 DEF ForwardOf
<1>11. S \in SUBSET Slots /\ <<0>> \in Seq(Id)
  BY DEF Active, Decoding, Id
<1> QED BY <1>10, <1>11, ForwardKeeps

(* A block is hashed as the text would be if the drafts were right.         *)
LEMMA VerifyKeeps ==
    ASSUME HistoryInv, NEW S \in SUBSET Decoding, Verify(S)
    PROVE  HistoryInv'
<1>1. HistoryTypeOK /\ OwnRows
  BY DEF HistoryInv
<1>2. \A s \in S : s \in Active /\ request[s].warm /\ request[s].done = Len(request[s].text) - 1
  BY DEF Decoding
<1> DEFINE ids(guesses) == [s \in S |-> <<request[s].text[request[s].done + 1]>> \o guesses]
           texts(guesses) == [s \in Slots |->
              IF s \in S THEN SubSeq(request[s].text, 1, request[s].done) \o ids(guesses)[s]
              ELSE <<>>]
<1>3. PICK guesses \in [1..Block - 1 -> Words] :
         /\ verifying' = ids(guesses)
         /\ hashed' = Judge(Batch(S, ids(guesses), SlotRows), texts(guesses))
  BY Zenon DEF Verify
<1> DEFINE block == ids(guesses)
           text == texts(guesses)
<1>4. guesses \in Seq(Id) /\ Len(guesses) = Block - 1
  <2>1. Block - 1 \in Nat /\ \A w \in Words : w \in Id
    BY Sizes DEF Id
  <2> QED BY <2>1
<1>5. ASSUME NEW s \in S
      PROVE  block[s] \in Seq(Id) /\ Len(block[s]) = Block
  <2> DEFINE id == request[s].text[request[s].done + 1]
  <2>1. request[s].text \in Seq(Id) /\ request[s].done \in Nat /\ Len(request[s].text) \in Nat
        /\ request[s].done + 1 = Len(request[s].text)
    BY <1>1, <1>2, ActiveIs
  <2>2. id \in Id
    BY <2>1
  <2>3. block[s] = <<id>> \o guesses
    OBVIOUS
  <2> HIDE DEF block, id
  <2>4. <<id>> \in Seq(Id) /\ Len(<<id>>) = 1
    BY <2>2
  <2>5. <<id>> \o guesses \in Seq(Id) /\ Len(<<id>> \o guesses) = Len(<<id>>) + Len(guesses)
    BY <1>4, <2>4, JoinIs
  <2> QED BY <1>4, <2>3, <2>4, <2>5, Sizes
<1>6. \A s \in S : text[s] = SubSeq(request[s].text, 1, request[s].done) \o block[s]
  BY DEF Active, Decoding
<1>7. verifying' = block /\ hashed' = Judge(Batch(S, block, SlotRows), text)
  BY <1>3
<1>8. DOMAIN block = S
  OBVIOUS
<1> HIDE DEF block, text, ids, texts
<1>9. \A s \in S : SlotRows[s] \in HistoryRow
                   /\ Precedes(SlotRows[s], request[s].text, request[s].done)
  BY <1>1, <1>2, RowIs
<1>10. ASSUME NEW s \in S PROVE OfText(Real(s, block[s], SlotRows[s]), text[s])
  <2> DEFINE done == request[s].done
             cut == SubSeq(request[s].text, 1, done)
  <2>1. request[s].text \in Seq(Id) /\ done \in Nat /\ Len(request[s].text) \in Nat
        /\ done + 1 = Len(request[s].text)
    BY <1>1, <1>2, ActiveIs
  <2> HIDE DEF done
  <2>2. /\ cut \in Seq(Id) /\ Len(cut) = done
        /\ \A k \in 1..done : cut[k] = request[s].text[k]
    <3>1. 0 \in Nat /\ 0 + done <= Len(request[s].text) /\ 0 + 1 = 1 /\ 0 + done = done
          /\ \A k \in 1..done : 0 + k = k
      BY <2>1
    <3>2. /\ SubSeq(request[s].text, 0 + 1, 0 + done) \in Seq(Id)
          /\ Len(SubSeq(request[s].text, 0 + 1, 0 + done)) = done
          /\ \A k \in 1..done : SubSeq(request[s].text, 0 + 1, 0 + done)[k]
                                   = request[s].text[0 + k]
      BY <2>1, <3>1, CutIs
    <3> QED BY <3>1, <3>2
  <2> HIDE DEF cut
  <2>3. /\ cut \o block[s] \in Seq(Id) /\ Len(cut \o block[s]) = Len(cut) + Len(block[s])
        /\ \A i \in 1..Len(cut) : (cut \o block[s])[i] = cut[i]
        /\ \A k \in 1..Len(block[s]) : (cut \o block[s])[Len(cut) + k] = block[s][k]
    BY <1>5, <2>2, JoinIs
  <2>4. text[s] = cut \o block[s]
    BY <1>6 DEF cut, done
  <2>5. \A i \in 1..done : text[s][i] = request[s].text[i]
    BY <2>2, <2>3, <2>4
  <2>6. Precedes(SlotRows[s], request[s].text, done)
    BY <1>9 DEF done
  <2>7. Precedes(SlotRows[s], text[s], done)
    BY <2>1, <2>5, <2>6, PrecedesSame
  <2>8. text[s] \in Seq(Id) /\ done + Len(block[s]) <= Len(text[s])
        /\ \A k \in 1..Len(block[s]) : block[s][k] = text[s][done + k]
    BY <1>5, <2>1, <2>2, <2>3, <2>4, Sizes, SMTT(30)
  <2> QED BY <2>7, <2>8, RunIsOfText DEF done
<1>11. S \in SUBSET Slots
  BY DEF Active, Decoding
<1>12. /\ Batch(S, block, SlotRows) \in Seq(Runs)
       /\ \A j \in 1..Len(Batch(S, block, SlotRows)) :
             Batch(S, block, SlotRows)[j] \in RunsOf(S, block, SlotRows)
  BY <1>1, <1>5, <1>9, <1>11, RunsAre
<1> DEFINE run == Batch(S, block, SlotRows)
<1>13. \A j \in 1..Len(run) : OfText(run[j], text[run[j].slot])
  <2> TAKE j \in 1..Len(run)
  <2>1. PICK s \in S : run[j] = Real(s, block[s], SlotRows[s])
    BY <1>12 DEF RunsOf
  <2> HIDE DEF run
  <2>2. run[j].slot = s
    BY <2>1 DEF Real
  <2> QED BY <1>10, <2>1, <2>2
<1>14. HashedWithOwnText'
  <2>1. \A pair \in Judge(run, text) : pair[1] = pair[2]
    BY <1>12, <1>13, JudgeIs
  <2> QED BY <1>7, <2>1 DEF HashedWithOwnText
<1>15. UNCHANGED <<history, request>>
  BY DEF Verify
<1>16. HistoryTypeOK'
  BY <1>1, <1>5, <1>7, <1>8, <1>11, <1>15 DEF HistoryTypeOK
<1>17. OwnRows'
  <2>1. \A s \in S : request[s] # Free
    BY <1>2 DEF Active
  <2> QED BY <1>1, <1>2, <1>7, <1>8, <1>15, <2>1 DEF OwnRows
<1> QED BY <1>14, <1>16, <1>17 DEF HistoryInv

(* The window over a row and a block's accepted part precedes what comes    *)
(* next: the row where the part is shorter, the part where it is not.       *)
LEMMA WindowIs ==
    ASSUME NEW row \in HistoryRow, NEW ids \in Seq(Id), Len(ids) = Block, NEW part \in 1..Block
    PROVE  /\ Window(row, ids, part) \in HistoryRow
           /\ \A c \in 1..N - 1 :
                 /\ part + c <= N - 1 => Window(row, ids, part)[c] = row[part + c]
                 /\ part + c > N - 1 => Window(row, ids, part)[c] = ids[part + c - (N - 1)]
<1>1. row \in Seq(Id) /\ Len(row) = N - 1
  BY RowIsSequence
<1>2. /\ row \o ids \in Seq(Id) /\ Len(row \o ids) = Len(row) + Len(ids)
      /\ \A i \in 1..Len(row) : (row \o ids)[i] = row[i]
      /\ \A k \in 1..Len(ids) : (row \o ids)[Len(row) + k] = ids[k]
  BY <1>1, JoinIs
<1> DEFINE both == row \o ids
<1>3. /\ both \in Seq(Id) /\ Len(both) = N - 1 + Block
      /\ \A i \in 1..N - 1 : both[i] = row[i]
      /\ \A k \in 1..Block : both[N - 1 + k] = ids[k]
  BY <1>1, <1>2
<1>4. Window(row, ids, part) = [c \in 1..N - 1 |-> both[part + c]]
  BY DEF Window
<1> HIDE DEF both
<1>5. \A c \in 1..N - 1 : part + c \in 1..N - 1 + Block
  BY Sizes
<1>6. \A c \in 1..N - 1 : both[part + c] \in Id
  BY <1>3, <1>5
<1>7. Window(row, ids, part) \in HistoryRow
  BY <1>4, <1>6 DEF HistoryRow
<1>8. ASSUME NEW c \in 1..N - 1
      PROVE  /\ part + c <= N - 1 => Window(row, ids, part)[c] = row[part + c]
             /\ part + c > N - 1 => Window(row, ids, part)[c] = ids[part + c - (N - 1)]
  <2>1. Window(row, ids, part)[c] = both[part + c]
    BY <1>4
  <2>2. part + c <= N - 1 => part + c \in 1..N - 1
    BY Sizes
  <2>3. part + c > N - 1 => /\ part + c - (N - 1) \in 1..Block
                            /\ N - 1 + (part + c - (N - 1)) = part + c
    BY Sizes
  <2> QED BY <1>3, <2>1, <2>2, <2>3
<1> QED BY <1>7, <1>8

(* The text after a block: what was there, the accepted part, the bonus.    *)
LEMMA AcceptedIs ==
    ASSUME NEW row \in HistoryRow, NEW text \in Seq(Id), NEW done \in Nat, done <= Len(text),
           Precedes(row, text, done), NEW ids \in Seq(Id), Len(ids) = Block,
           NEW part \in 1..Block, NEW bonus \in Words
    PROVE  LET next == SubSeq(text, 1, done) \o SubSeq(ids, 1, part) \o <<bonus>>
           IN  /\ next \in Seq(Id) /\ Len(next) = done + part + 1
               /\ Precedes(Window(row, ids, part), next, done + part)
<1> DEFINE cut == SubSeq(text, 1, done)
           accepted == SubSeq(ids, 1, part)
           mine == cut \o accepted
           next == mine \o <<bonus>>
<1>1. Len(text) \in Nat /\ part \in Nat /\ part <= Len(ids)
  BY Sizes
<1>2. cut \in Seq(Id) /\ Len(cut) = done /\ \A k \in 1..done : cut[k] = text[k]
  <2>1. 0 \in Nat /\ 0 + done <= Len(text) /\ 0 + 1 = 1 /\ 0 + done = done
        /\ \A k \in 1..done : 0 + k = k
    BY <1>1
  <2>2. /\ SubSeq(text, 0 + 1, 0 + done) \in Seq(Id) /\ Len(SubSeq(text, 0 + 1, 0 + done)) = done
        /\ \A k \in 1..done : SubSeq(text, 0 + 1, 0 + done)[k] = text[0 + k]
    BY <2>1, CutIs
  <2> QED BY <2>1, <2>2
<1>3. accepted \in Seq(Id) /\ Len(accepted) = part /\ \A k \in 1..part : accepted[k] = ids[k]
  <2>1. 0 \in Nat /\ 0 + part <= Len(ids) /\ 0 + 1 = 1 /\ 0 + part = part
        /\ \A k \in 1..part : 0 + k = k
    BY <1>1
  <2>2. /\ SubSeq(ids, 0 + 1, 0 + part) \in Seq(Id) /\ Len(SubSeq(ids, 0 + 1, 0 + part)) = part
        /\ \A k \in 1..part : SubSeq(ids, 0 + 1, 0 + part)[k] = ids[0 + k]
    BY <1>1, <2>1, CutIs
  <2> QED BY <2>1, <2>2
<1>4. <<bonus>> \in Seq(Id) /\ Len(<<bonus>>) = 1
  BY DEF Id
<1> HIDE DEF cut, accepted
<1>5. /\ mine \in Seq(Id) /\ Len(mine) = done + part
      /\ \A i \in 1..done : mine[i] = text[i]
      /\ \A k \in 1..part : mine[done + k] = ids[k]
  <2>1. /\ cut \o accepted \in Seq(Id) /\ Len(cut \o accepted) = Len(cut) + Len(accepted)
        /\ \A i \in 1..Len(cut) : (cut \o accepted)[i] = cut[i]
        /\ \A k \in 1..Len(accepted) : (cut \o accepted)[Len(cut) + k] = accepted[k]
    BY <1>2, <1>3, JoinIs
  <2> QED BY <1>2, <1>3, <2>1
<1> HIDE DEF mine
<1>6. /\ next \in Seq(Id) /\ Len(next) = done + part + 1
      /\ \A i \in 1..done + part : next[i] = mine[i]
  <2>1. /\ mine \o <<bonus>> \in Seq(Id) /\ Len(mine \o <<bonus>>) = Len(mine) + Len(<<bonus>>)
        /\ \A i \in 1..Len(mine) : (mine \o <<bonus>>)[i] = mine[i]
    BY <1>4, <1>5, JoinIs
  <2> QED BY <1>4, <1>5, <2>1
<1> HIDE DEF next
<1>7. \A i \in 1..done : i \in 1..done + part
  BY <1>1
<1>8. \A k \in 1..part : done + k \in 1..done + part
  BY <1>1
<1> DEFINE w == Window(row, ids, part)
           d == done + part
<1>0. d = done + part /\ w = Window(row, ids, part)
  OBVIOUS
<1> HIDE DEF w, d
<1>9. ASSUME NEW c \in 1..N - 1, d - (N - 1 - c) >= 1
      PROVE  Canonical(w[c]) = Canonical(next[d - (N - 1 - c)])
  <2> DEFINE i == d - (N - 1 - c)
  <2>1. CASE part + c <= N - 1
    <3>1. part + c \in 1..N - 1 /\ done - (N - 1 - (part + c)) = i /\ i >= 1 /\ i \in 1..done
      BY <1>1, <1>9, <1>0, <2>1, Sizes
    <3> HIDE DEF i
    <3>2. Canonical(row[part + c]) = Canonical(text[i])
      BY <3>1 DEF Precedes
    <3>3. next[i] = text[i]
      BY <1>5, <1>6, <1>7, <3>1
    <3>4. w[c] = row[part + c]
      BY <1>0, <2>1, WindowIs
    <3> QED BY <3>2, <3>3, <3>4 DEF i
  <2>2. CASE part + c > N - 1
    <3> DEFINE k == part + c - (N - 1)
    <3>1. k \in 1..part /\ i = done + k
      BY <1>1, <1>0, <2>2, Sizes
    <3>2. w[c] = ids[k]
      BY <1>0, <2>2, WindowIs
    <3> HIDE DEF i, k
    <3>3. next[i] = ids[k]
      BY <1>5, <1>6, <1>8, <3>1
    <3> QED BY <3>2, <3>3 DEF i
  <2> QED BY <1>1, <2>1, <2>2, Sizes
<1>10. Precedes(w, next, d)
  BY <1>9 DEF Precedes
<1> QED BY <1>6, <1>10, <1>0 DEF next, mine, cut, accepted

\* Committing the accepted part of a verified draft keeps the invariant.
LEMMA CommitAfterVerifyKeeps ==
    ASSUME HistoryInv, CommitAfterVerify
    PROVE  HistoryInv'
<1> DEFINE S == DOMAIN verifying
           NextText(s, n, b) == SubSeq(request[s].text, 1, request[s].done)
                            \o SubSeq(verifying[s], 1, n) \o <<b>>
<1>1. HistoryTypeOK /\ OwnRows
  BY DEF HistoryInv
<1>2. PICK accepted \in [S -> 1..Block], bonus \in [S -> Words] :
         /\ history' = [row \in 0..NumSlots |->
                           IF row \in S THEN Window(history[row], verifying[row], accepted[row])
                           ELSE history[row]]
         /\ request' = [s \in Slots |->
               IF s \notin S THEN request[s]
               ELSE [text |-> NextText(s, accepted[s], bonus[s]),
                     done |-> request[s].done + accepted[s], warm |-> TRUE]]
  BY Zenon DEF CommitAfterVerify
<1> DEFINE text(s) == NextText(s, accepted[s], bonus[s])
           done(s) == request[s].done + accepted[s]
           row_(s) == Window(history[s], verifying[s], accepted[s])
<1>3. S \subseteq Slots /\ \A s \in S : s \in Active /\ request[s].warm /\ s \in 0..NumSlots
  BY <1>1, Sizes DEF HistoryTypeOK, OwnRows, Active
<1>4. ASSUME NEW s \in S
      PROVE  /\ text(s) \in Seq(Id) /\ Len(text(s)) = done(s) + 1 /\ done(s) \in Nat
             /\ row_(s) \in HistoryRow /\ Precedes(row_(s), text(s), done(s))
  <2>1. /\ history[s] \in HistoryRow /\ request[s].text \in Seq(Id) /\ request[s].done \in Nat
        /\ Len(request[s].text) \in Nat /\ request[s].done < Len(request[s].text)
    BY <1>1, <1>3, ActiveIs
  <2>2. request[s].done <= Len(request[s].text)
    BY <2>1
  <2>3. Precedes(history[s], request[s].text, request[s].done)
    BY <1>1, <1>3 DEF OwnRows
  <2>4. verifying[s] \in Seq(Id) /\ Len(verifying[s]) = Block
    BY <1>1 DEF HistoryTypeOK
  <2>5. accepted[s] \in 1..Block /\ bonus[s] \in Words
    OBVIOUS
  <2> HIDE DEF S, NextText
  <2>6. /\ NextText(s, accepted[s], bonus[s]) \in Seq(Id)
        /\ Len(NextText(s, accepted[s], bonus[s])) = request[s].done + accepted[s] + 1
        /\ Precedes(Window(history[s], verifying[s], accepted[s]),
                    NextText(s, accepted[s], bonus[s]), request[s].done + accepted[s])
    BY <2>1, <2>2, <2>3, <2>4, <2>5, AcceptedIs DEF NextText
  <2>7. Window(history[s], verifying[s], accepted[s]) \in HistoryRow
    BY <2>1, <2>4, <2>5, WindowIs
  <2>8. request[s].done + accepted[s] \in Nat
    BY <2>1, <2>5, Sizes
  <2> QED BY <2>6, <2>7, <2>8
<1>5. /\ \A row \in 0..NumSlots : history'[row] = IF row \in S THEN row_(row) ELSE history[row]
      /\ \A s \in Slots : request'[s] =
            IF s \notin S THEN request[s]
            ELSE [text |-> text(s), done |-> done(s), warm |-> TRUE]
      /\ history' = [row \in 0..NumSlots |-> history'[row]]
      /\ request' = [s \in Slots |-> request'[s]]
  BY <1>2
<1>6. DOMAIN verifying' = {} /\ hashed' = {}
  BY DEF CommitAfterVerify
<1> HIDE DEF text, done, row_, S
<1>7. \A row \in 0..NumSlots : history'[row] \in HistoryRow
  BY <1>1, <1>4, <1>5 DEF HistoryTypeOK
<1>8. ASSUME NEW s \in S
      PROVE  [text |-> text(s), done |-> done(s), warm |-> TRUE]
                \in [text : Seq(Id), done : Nat, warm : BOOLEAN]
  BY <1>4, RequestIs, Zenon
<1>9. \A s \in Slots : request'[s] \in [text : Seq(Id), done : Nat, warm : BOOLEAN]
  <2>1. \A s \in Slots : request[s] \in [text : Seq(Id), done : Nat, warm : BOOLEAN]
    BY <1>1 DEF HistoryTypeOK
  <2>2. \A s \in Slots : s \notin S => request'[s] = request[s]
    BY <1>5
  <2>3. \A s \in Slots :
           s \in S => request'[s] = [text |-> text(s), done |-> done(s), warm |-> TRUE]
    BY <1>5
  <2> QED BY <1>8, <2>1, <2>2, <2>3, Zenon
<1>10. \A s \in S : request'[s].text = text(s) /\ request'[s].done = done(s)
                    /\ history'[s] = row_(s)
  BY <1>3, <1>5
<1>11. \A s \in Slots \ S : request'[s] = request[s] /\ history'[s] = history[s]
  BY <1>5, Sizes
<1>12. ASSUME NEW s \in Slots, request'[s] # Free
       PROVE  request'[s].done < Len(request'[s].text)
  <2>1. CASE s \in S
    BY <1>4, <1>10, <2>1
  <2>2. CASE s \notin S
    BY <1>1, <1>11, <1>12, <2>2 DEF HistoryTypeOK
  <2> QED BY <2>1, <2>2
<1>13. HistoryTypeOK'
  <2>1. history' \in [0..NumSlots -> HistoryRow]
    BY <1>5, <1>7
  <2>2. request' \in [Slots -> [text : Seq(Id), done : Nat, warm : BOOLEAN]]
    BY <1>5, <1>9
  <2> QED BY <1>6, <1>12, <2>1, <2>2 DEF HistoryTypeOK
<1>14. ASSUME NEW s \in Slots, request'[s].warm
       PROVE  Precedes(history'[s], request'[s].text, request'[s].done)
  <2>1. CASE s \in S
    BY <1>4, <1>10, <2>1
  <2>2. CASE s \notin S
    BY <1>1, <1>11, <1>14, <2>2 DEF OwnRows
  <2> QED BY <2>1, <2>2
<1>15. OwnRows'
  BY <1>6, <1>14 DEF OwnRows
<1> QED BY <1>6, <1>13, <1>15 DEF HistoryInv, HashedWithOwnText

\* Every step, and every stutter, keeps the history invariant.
LEMMA NextHistory == HistoryInv /\ [HistoryNext]_historyVars => HistoryInv'
<1> SUFFICES ASSUME HistoryInv, [HistoryNext]_historyVars PROVE HistoryInv'
  OBVIOUS
<1>1. ASSUME NEW s \in Slots, Admit(s) PROVE HistoryInv'
  BY <1>1, AdmitKeeps
<1>2. ASSUME NEW s \in Slots, Retire(s) PROVE HistoryInv'
  BY <1>2, RetireKeeps
<1>3. ASSUME NEW S \in (SUBSET Active) \ {{}}, NEW lens \in [S -> 1..MaxLen],
             NEW supplied \in BOOLEAN,
             \A s \in S : request[s].done + lens[s] <= Len(request[s].text),
             Extend(S, lens, supplied)
      PROVE  HistoryInv'
  BY <1>3, ExtendKeeps
<1>4. ASSUME NEW S \in (SUBSET Decoding) \ {{}}, Decode(S) PROVE HistoryInv'
  BY <1>4, DecodeKeeps
<1>5. ASSUME NEW S \in (SUBSET Decoding) \ {{}}, Verify(S) PROVE HistoryInv'
  BY <1>5, VerifyKeeps
<1>6. CASE CommitAfterVerify
  BY <1>6, CommitAfterVerifyKeeps
<1>7. CASE UNCHANGED historyVars
  <2>1. HistoryTypeOK' /\ OwnRows' /\ HashedWithOwnText'
    BY <1>7 DEF historyVars, HistoryInv, HistoryTypeOK, OwnRows, HashedWithOwnText
  <2> QED BY <2>1 DEF HistoryInv
<1>8. CASE \E s \in Slots : Admit(s) \/ Retire(s)
  BY <1>1, <1>2, <1>8
<1>9. CASE \E S \in (SUBSET Active) \ {{}} : \E lens \in [S -> 1..MaxLen], supplied \in BOOLEAN :
         /\ \A s \in S : request[s].done + lens[s] <= Len(request[s].text) /\ Fits(s, lens[s])
         /\ Extend(S, lens, supplied)
  <2>1. PICK S \in (SUBSET Active) \ {{}} : \E lens \in [S -> 1..MaxLen], supplied \in BOOLEAN :
           /\ \A s \in S : request[s].done + lens[s] <= Len(request[s].text) /\ Fits(s, lens[s])
           /\ Extend(S, lens, supplied)
    BY <1>9, Zenon
  <2>2. PICK lens \in [S -> 1..MaxLen], supplied \in BOOLEAN :
           /\ \A s \in S : request[s].done + lens[s] <= Len(request[s].text) /\ Fits(s, lens[s])
           /\ Extend(S, lens, supplied)
    BY <2>1, Zenon
  <2>3. \A s \in S : request[s].done + lens[s] <= Len(request[s].text)
    BY <2>2
  <2>4. Extend(S, lens, supplied)
    BY <2>2
  <2> QED BY <1>3, <2>3, <2>4
<1>10. CASE \E S \in (SUBSET Decoding) \ {{}} : (\A s \in S : Fits(s, 1)) /\ Decode(S)
  BY <1>4, <1>10
<1>11. CASE \E S \in (SUBSET Decoding) \ {{}} : (\A s \in S : Fits(s, Block)) /\ Verify(S)
  BY <1>5, <1>11
<1> QED BY <1>6, <1>7, <1>8, <1>9, <1>10, <1>11, Zenon DEF HistoryNext

(* Every slot row written for a request holds the request's own last        *)
(* tokens, and every verify block has such a row: whatever was admitted,    *)
(* extended, decoded, verified, accepted and retired before.                *)
THEOREM HistoryInvHolds == HistorySpec => []HistoryInv
  BY InitHistory, NextHistory, PTL DEF HistorySpec

(* So no token is hashed with another request's, a rejected draft's or a    *)
(* padding row's predecessors: for every number of slots, n-gram size,      *)
(* block and text.                                                          *)
THEOREM HashedWithOwnTextHolds == HistorySpec => []HashedWithOwnText
<1>1. HistoryInv => HashedWithOwnText
  BY DEF HistoryInv
<1> QED BY <1>1, HistoryInvHolds, PTL
-----------------------------------------------------------------------------
(* The compression of pairs.                                               *)
(***************************************************************************)
(* The invariant of the compression of pairs.                              *)
(***************************************************************************)
Half == PageSize \div 2

\* Where a request with these pages has its pair j.
Slot(pages, j) == pages[j \div Half + 1] * Half + (j % Half)

Token == Lanes \X Nat \X Nat \X Nat

CompressTypeOK ==
    /\ lane \in [Lanes -> [tokens : Seq(Token), pages : Seq(Pages), life : Nat, block : Nat]]
    /\ drafts \in [Lanes -> Seq(Token)]
    /\ DOMAIN latent = 0..(NumPages + 1) * Half - 1

(* Who has tokens, drafts included, has the pages for them and no more.     *)
Paged == \A l \in Lanes : Len(lane[l].pages) = PageCount(Len(Known(l)))

(* A page lies at one place, and two requests have it only when the tokens  *)
(* of both that stand fill it.                                              *)
ApartFor(pages) ==
    \A l, m \in Lanes : \A i \in DOMAIN pages[l], k \in DOMAIN pages[m] :
        pages[l][i] = pages[m][k] =>
            i = k /\ (l # m => /\ i * PageSize <= Len(lane[l].tokens)
                               /\ i * PageSize <= Len(lane[m].tokens))
Apart == ApartFor([l \in Lanes |-> lane[l].pages])

(* Every pair that is complete has been written.                            *)
Written ==
    \A l \in Lanes : \A j \in 0..Visible(l) - 1 :
        latent[Slot(lane[l].pages, j)] = <<Known(l)[2 * j + 1], Known(l)[2 * j + 2]>>

(* The ring holds the first token of a pair that is cut, and every draft,   *)
(* for any of them may be the last that stands.                             *)
Remembered ==
    \A l \in Lanes :
        LET n == Len(lane[l].tokens)
        IN  /\ drafts[l] = <<>> /\ n % 2 = 1 => ring[l][(n - 1) % RingSize] = lane[l].tokens[n]
            /\ \A a \in 1..Len(drafts[l]) : ring[l][(n + a - 1) % RingSize] = drafts[l][a]
            /\ Len(drafts[l]) <= DraftLen

CompressInv == CompressTypeOK /\ Paged /\ Apart /\ Written /\ Remembered

\* A number is its quotient and its remainder.
LEMMA ModIs ==
    ASSUME NEW a \in Nat, NEW b \in Nat \ {0}
    PROVE  a % b \in 0..b - 1 /\ a % b \in Nat /\ a = (a \div b) * b + (a % b) /\ a \div b \in Nat
<1> QED BY Z3

\* Quotient and remainder are the only ones.
LEMMA DivUnique ==
    ASSUME NEW b \in Nat \ {0}, NEW q \in Nat, NEW r \in 0..b - 1
    PROVE  (q * b + r) \div b = q /\ (q * b + r) % b = r
<1> DEFINE a == q * b + r  p == a \div b
<1>1. q * b \in Nat /\ (q + 1) * b = q * b + b
  BY MulNext
<1>2. a \in Nat /\ q * b <= a /\ a < (q + 1) * b
  BY <1>1
<1>3. p \in Nat /\ a % b \in Nat /\ a = p * b + (a % b)
  BY <1>2, ModIs
<1> HIDE DEF a
<1>4. p < q + 1 /\ ~(p < q)
  BY <1>2, DivLess
<1>5. p \in Nat
  BY <1>3
<1> HIDE DEF p
<1>6. p = q
  BY <1>4, <1>5
<1> QED BY <1>1, <1>3, <1>6 DEF a, p

\* Numbers less than a ring apart that share a place are the same.
LEMMA SamePlace ==
    ASSUME NEW b \in Nat \ {0}, NEW x \in Nat, NEW y \in Nat, x < y + b, y < x + b, x % b = y % b
    PROVE  x = y
<1> DEFINE p == x \div b  q == y \div b
<1>1. p \in Nat /\ q \in Nat /\ x = p * b + (x % b) /\ y = q * b + (y % b) /\ x % b \in Nat /\ y % b \in Nat
  BY ModIs
<1> HIDE DEF p, q
<1>2. p * b \in Nat /\ q * b \in Nat
  BY <1>1
<1>3. p * b < q * b + b /\ q * b < p * b + b
  BY <1>1, <1>2
<1>4. (p + 1) * b = p * b + b /\ (q + 1) * b = q * b + b
  BY <1>1, MulNext
<1>5. ~(p < q)
  <2> SUFFICES ASSUME p < q PROVE FALSE OBVIOUS
  <2>1. (p + 1) * b <= q * b
    BY <1>1, MulMono
  <2> QED BY <1>2, <1>3, <1>4, <2>1
<1>6. ~(q < p)
  <2> SUFFICES ASSUME q < p PROVE FALSE OBVIOUS
  <2>1. (q + 1) * b <= p * b
    BY <1>1, MulMono
  <2> QED BY <1>2, <1>3, <1>4, <2>1
<1>7. p = q
  BY <1>1, <1>5, <1>6
<1> QED BY <1>1, <1>7

\* Multiplication is associative.
LEMMA MulAssoc == ASSUME NEW x \in Nat, NEW y \in Nat,
  NEW z \in Nat PROVE (x * y) * z = x * (y * z) /\ x * y \in Nat
<1> QED BY Z3

\* Multiplication distributes.
LEMMA MulAdd ==
    ASSUME NEW x \in Nat, NEW y \in Nat, NEW z \in Nat
    PROVE  (x + y) * z = x * z + y * z /\ x * z \in Nat /\ y * z \in Nat
<1> QED BY Z3

\* Pages hold whole pairs and whole index pages, rings a whole block of drafts.
LEMMA CompressSizes ==
    /\ Half \in Nat \ {0} /\ PageSize = 2 * Half /\ PageSize \in Nat \ {0} /\ PageSize \div 2 = Half
    /\ IndexPage \in Nat \ {0} /\ NumLanes \in Nat \ {0}
    /\ Half \div IndexPage \in Nat \ {0} /\ Half = (Half \div IndexPage) * IndexPage
    /\ RingSize \in Nat \ {0} /\ DraftLen \in Nat \ {0} /\ DraftLen <= RingSize
    /\ NumPages \in Nat /\ MaxTokens \in Nat /\ MaxChunk \in Nat
<1>1. /\ PageSize \in Nat \ {0} /\ IndexPage \in Nat \ {0} /\ NumLanes \in Nat \ {0}
      /\ RingSize \in Nat /\ DraftLen \in Nat /\ NumPages \in Nat /\ MaxTokens \in Nat /\ MaxChunk \in Nat
      /\ RingSize >= DraftLen /\ DraftLen > 1 /\ PageSize % 2 = 0 /\ (PageSize \div 2) % IndexPage = 0
  BY CompressAssumption
<1>2. Half \in Nat \ {0} /\ PageSize = 2 * Half
  BY <1>1 DEF Half
<1>3. PageSize \div 2 = Half /\ Half % IndexPage = 0
  BY <1>1 DEF Half
<1>4. Half \div IndexPage \in Nat /\ Half = (Half \div IndexPage) * IndexPage + (Half % IndexPage)
  BY <1>1, <1>2, ModIs
<1>5. Half = (Half \div IndexPage) * IndexPage
  <2> DEFINE x == (Half \div IndexPage) * IndexPage
  <2>1. Half = x + (Half % IndexPage)
    BY <1>4
  <2>2. x \in Nat
    BY <1>1, <1>4
  <2> HIDE DEF x
  <2>3. Half = x
    BY <1>3, <2>1, <2>2
  <2> QED BY <2>3 DEF x
<1>6. Half \div IndexPage # 0
  <2> SUFFICES ASSUME Half \div IndexPage = 0 PROVE FALSE OBVIOUS
  <2>1. 0 * IndexPage = 0
    BY <1>1
  <2> QED BY <1>2, <1>5, <2>1
<1> QED BY <1>1, <1>2, <1>3, <1>4, <1>5, <1>6

\* A pair lies in one page, its two tokens at the two locations of its slot.
LEMMA PairAt ==
    ASSUME NEW pages, NEW j \in Nat, pages[j \div Half + 1] \in Nat
    PROVE  Loc(pages, 2 * j) \div 2 = Slot(pages, j) /\ Loc(pages, 2 * j + 1) \div 2 = Slot(pages, j)
<1> DEFINE q == j \div Half  r == j % Half  p == pages[q + 1]
<1>1. Half \in Nat \ {0} /\ PageSize = 2 * Half /\ PageSize \in Nat \ {0}
  BY CompressSizes
<1>2. q \in Nat /\ r \in 0..Half - 1 /\ j = q * Half + r /\ q * Half \in Nat
  <2>1. q \in Nat /\ r \in 0..Half - 1 /\ j = q * Half + r
    BY <1>1, ModIs
  <2> HIDE DEF q, r
  <2> QED BY <1>1, <2>1
<1> HIDE DEF q, r
<1>3. q * PageSize = 2 * (q * Half) /\ p * PageSize = 2 * (p * Half) /\ p * Half \in Nat
  <2>1. \A x \in Nat : x * PageSize = 2 * (x * Half) /\ x * Half \in Nat
    BY <1>1, Z3
  <2> QED BY <1>2, <2>1 DEF q
<1>4. 2 * j = q * PageSize + 2 * r /\ 2 * j + 1 = q * PageSize + (2 * r + 1)
  BY <1>1, <1>2, <1>3
<1>5. 2 * r \in 0..PageSize - 1 /\ 2 * r + 1 \in 0..PageSize - 1
  BY <1>1, <1>2
<1>6. (2 * j) \div PageSize = q /\ (2 * j) % PageSize = 2 * r
  <2>1. (q * PageSize + 2 * r) \div PageSize = q /\ (q * PageSize + 2 * r) % PageSize = 2 * r
    BY <1>1, <1>2, <1>5, DivUnique
  <2> QED BY <1>4, <2>1
<1>7. (2 * j + 1) \div PageSize = q /\ (2 * j + 1) % PageSize = 2 * r + 1
  <2>1. (q * PageSize + (2 * r + 1)) \div PageSize = q /\ (q * PageSize + (2 * r + 1)) % PageSize = 2 * r + 1
    BY <1>1, <1>2, <1>5, DivUnique
  <2> QED BY <1>4, <2>1
<1>8. Loc(pages, 2 * j) = p * PageSize + 2 * r /\ Loc(pages, 2 * j + 1) = p * PageSize + (2 * r + 1)
  BY <1>6, <1>7 DEF Loc
<1>9. Slot(pages, j) = p * Half + r
  BY DEF Slot, q, r
<1> DEFINE ph == p * Half
<1>10. Loc(pages, 2 * j) = 2 * (ph + r) /\ Loc(pages, 2 * j + 1) = 2 * (ph + r) + 1 /\ ph + r \in Nat
  BY <1>2, <1>3, <1>8
<1> HIDE DEF ph
<1>11. Loc(pages, 2 * j) \div 2 = ph + r /\ Loc(pages, 2 * j + 1) \div 2 = ph + r
  BY <1>10
<1> QED BY <1>9, <1>11 DEF ph

\* An entry of a page table is a page.
LEMMA PageAt ==
    ASSUME NEW pages \in Seq(Pages), NEW i \in Nat, i < Len(pages)
    PROVE  pages[i + 1] \in Pages /\ pages[i + 1] \in Nat \ {0} /\ i + 1 \in 1..Len(pages)
<1>1. i + 1 \in 1..Len(pages)
  OBVIOUS
<1>2. pages[i + 1] \in Pages
  BY <1>1
<1>3. Pages \subseteq Nat \ {0}
  BY CompressSizes DEF Pages
<1> QED BY <1>1, <1>2, <1>3

\* The page table of the index pool leads to the same slots.
LEMMA ExpandedAt ==
    ASSUME NEW pages \in Seq(Pages), NEW j \in Nat, j \div Half < Len(pages)
    PROVE  Expanded(pages)[j \div IndexPage + 1] * IndexPage + (j % IndexPage) = Slot(pages, j)
<1> DEFINE blocks == Half \div IndexPage  x == j \div IndexPage  s == j % IndexPage
           y == x \div blocks  t == x % blocks  p == pages[y + 1]
<1>1. Half \in Nat \ {0} /\ IndexPage \in Nat \ {0} /\ blocks \in Nat \ {0}
      /\ Half = blocks * IndexPage /\ PageSize \div 2 = Half
  BY CompressSizes
<1> HIDE DEF blocks
<1>2. x \in Nat /\ s \in 0..IndexPage - 1 /\ j = x * IndexPage + s
  BY <1>1, ModIs
<1> HIDE DEF x, s
<1>3. y \in Nat /\ t \in 0..blocks - 1 /\ x = y * blocks + t
  BY <1>1, <1>2, ModIs
<1> HIDE DEF y, t
<1>4. x * IndexPage = y * Half + t * IndexPage /\ t * IndexPage \in Nat /\ y * Half \in Nat
  <2>1. y * blocks \in Nat /\ t \in Nat /\ (y * blocks) * IndexPage = y * (blocks * IndexPage)
    BY <1>1, <1>3, MulAssoc
  <2>2. (y * blocks + t) * IndexPage = (y * blocks) * IndexPage + t * IndexPage /\ t * IndexPage \in Nat
    BY <1>1, <2>1, MulAdd
  <2>3. y * Half \in Nat
    BY <1>1, <1>3
  <2> QED BY <1>1, <1>3, <2>1, <2>2, <2>3
<1> DEFINE r == t * IndexPage + s
<1>5. r \in 0..Half - 1
  <2>1. t + 1 \in Nat /\ t \in Nat /\ t + 1 <= blocks
    BY <1>1, <1>3
  <2>2. (t + 1) * IndexPage <= blocks * IndexPage /\ (t + 1) * IndexPage = t * IndexPage + IndexPage
    BY <1>1, <2>1, MulMono, MulNext
  <2> QED BY <1>1, <1>2, <1>4, <2>2
<1>6. j = y * Half + r
  BY <1>2, <1>4
<1> HIDE DEF r
<1>7. j \div Half = y /\ j % Half = r
  BY <1>1, <1>3, <1>5, <1>6, DivUnique
<1>8. p \in Pages /\ p \in Nat /\ y + 1 \in 1..Len(pages)
  <2>1. y < Len(pages)
    BY <1>7
  <2> QED BY <1>3, <2>1, PageAt
<1>9. x + 1 \in 1..Len(pages) * blocks
  <2>1. y + 1 \in Nat /\ (y + 1) * blocks <= Len(pages) * blocks /\ (y + 1) * blocks = y * blocks + blocks
    BY <1>1, <1>3, <1>8, MulMono, MulNext
  <2>2. y * blocks \in Nat /\ Len(pages) * blocks \in Nat
    BY <1>1, <1>3
  <2> QED BY <1>1, <1>2, <1>3, <2>1, <2>2
<1>10. Expanded(pages)[x + 1] = pages[((x + 1) - 1) \div blocks + 1] * blocks + (((x + 1) - 1) % blocks)
  BY <1>1, <1>9, Zenon DEF Expanded, blocks
<1>11. Expanded(pages)[x + 1] = p * blocks + t
  <2>1. (x + 1) - 1 = x
    BY <1>2
  <2> QED BY <1>10, <2>1 DEF y, t
<1> HIDE DEF p
<1>12. (p * blocks + t) * IndexPage + s = p * Half + r
  <2>1. p * blocks \in Nat /\ t \in Nat /\ (p * blocks) * IndexPage = p * (blocks * IndexPage)
    BY <1>1, <1>3, <1>8, MulAssoc
  <2>2. (p * blocks + t) * IndexPage = (p * blocks) * IndexPage + t * IndexPage
    BY <1>1, <2>1, MulAdd
  <2>3. p * Half \in Nat
    BY <1>1, <1>8
  <2> QED BY <1>1, <1>2, <1>4, <2>1, <2>2, <2>3 DEF r
<1>13. Slot(pages, j) = p * Half + r
  BY <1>7 DEF Slot, p
<1> QED BY <1>11, <1>12, <1>13 DEF x, s

\* A slot belongs to one page and one place in it.
LEMMA SlotUnique ==
    ASSUME NEW p \in Seq(Pages), NEW o \in Seq(Pages), NEW i \in Nat, NEW j \in Nat,
           i \div Half < Len(p), j \div Half < Len(o), Slot(p, i) = Slot(o, j)
    PROVE  p[i \div Half + 1] = o[j \div Half + 1] /\ i % Half = j % Half
<1> DEFINE x == p[i \div Half + 1]  y == o[j \div Half + 1]
<1>1. Half \in Nat \ {0}
  BY CompressSizes
<1>2. i \div Half \in Nat /\ j \div Half \in Nat /\ i % Half \in 0..Half - 1 /\ j % Half \in 0..Half - 1
  BY <1>1, ModIs
<1>3. x \in Nat /\ y \in Nat
  BY <1>2, PageAt
<1>4. x * Half + (i % Half) = y * Half + (j % Half)
  BY DEF Slot
<1> HIDE DEF x, y
<1>5. x = (x * Half + (i % Half)) \div Half /\ i % Half = (x * Half + (i % Half)) % Half
  BY <1>1, <1>2, <1>3, DivUnique
<1>6. y = (y * Half + (j % Half)) \div Half /\ j % Half = (y * Half + (j % Half)) % Half
  BY <1>1, <1>2, <1>3, DivUnique
<1>7. x = y /\ i % Half = j % Half
  BY <1>4, <1>5, <1>6
<1> QED BY <1>7 DEF x, y

\* Every slot lies in the cache, and not in page 0.
LEMMA SlotInside ==
    ASSUME NEW p \in Seq(Pages), NEW j \in Nat, j \div Half < Len(p)
    PROVE  Slot(p, j) \in 1..(NumPages + 1) * Half - 1
<1> DEFINE x == p[j \div Half + 1]
<1>1. Half \in Nat \ {0} /\ NumPages \in Nat
  BY CompressSizes
<1>2. j \div Half \in Nat /\ j % Half \in 0..Half - 1
  BY <1>1, ModIs
<1>3. x \in Nat /\ 1 <= x /\ x <= NumPages
  BY <1>1, <1>2 DEF Pages
<1>4. Slot(p, j) = x * Half + (j % Half)
  BY DEF Slot
<1> HIDE DEF x
<1>5. 1 * Half <= x * Half /\ 1 * Half = Half /\ x * Half <= NumPages * Half
      /\ (NumPages + 1) * Half = NumPages * Half + Half
  BY <1>1, <1>3, MulMono, MulNext
<1>6. x * Half \in Nat /\ NumPages * Half \in Nat
  BY <1>1, <1>3
<1> QED BY <1>1, <1>2, <1>4, <1>5, <1>6

\* The pages of n tokens hold every pair that is complete among them.
LEMMA PairHasPage ==
    ASSUME NEW n \in Nat, NEW j \in Nat, 2 * j + 2 <= n
    PROVE  j \div Half < PageCount(n) /\ j \div Half \in Nat
<1> DEFINE q == j \div Half
<1>1. Half \in Nat \ {0} /\ PageSize = 2 * Half /\ PageSize \in Nat \ {0}
  BY CompressSizes
<1>2. q \in Nat /\ q * Half <= j /\ q * Half \in Nat
  BY <1>1, DivIs
<1> HIDE DEF q
<1>3. (q + 1) * PageSize = 2 * (q * Half) + PageSize
  <2>1. q * PageSize = 2 * (q * Half)
    BY <1>1, <1>2, Z3
  <2> QED BY <1>1, <1>2, <2>1, MulNext
<1>4. ~((n + PageSize - 1) < (q + 1) * PageSize)
  BY <1>1, <1>2, <1>3
<1>5. n + PageSize - 1 \in Nat /\ q + 1 \in Nat
  BY <1>1, <1>2
<1>6. ~((n + PageSize - 1) \div PageSize < q + 1)
  BY <1>1, <1>4, <1>5, DivLess
<1>7. (n + PageSize - 1) \div PageSize \in Nat
  BY <1>1, <1>5, DivIs
<1> QED BY <1>2, <1>6, <1>7 DEF PageCount, q

\* The page of a position that n tokens reach.
LEMMA PosHasPage ==
    ASSUME NEW n \in Nat, NEW pos \in Nat, pos < n
    PROVE  pos \div PageSize < PageCount(n) /\ pos \div PageSize \in Nat
<1> DEFINE q == pos \div PageSize
<1>1. PageSize \in Nat \ {0}
  BY CompressSizes
<1>2. q \in Nat /\ q * PageSize <= pos /\ q * PageSize \in Nat
  BY <1>1, DivIs
<1> HIDE DEF q
<1>3. (q + 1) * PageSize = q * PageSize + PageSize
  BY <1>1, <1>2, MulNext
<1>4. ~((n + PageSize - 1) < (q + 1) * PageSize)
  BY <1>1, <1>2, <1>3
<1>5. n + PageSize - 1 \in Nat /\ q + 1 \in Nat
  BY <1>1, <1>2
<1>6. ~((n + PageSize - 1) \div PageSize < q + 1)
  BY <1>1, <1>4, <1>5, DivLess
<1>7. (n + PageSize - 1) \div PageSize \in Nat
  BY <1>1, <1>5, DivIs
<1> QED BY <1>2, <1>6, <1>7 DEF PageCount, q

\* No tokens have no pages, whole pages have as many, and more tokens have no fewer.
LEMMA PageCounts ==
    /\ \A n \in Nat : PageCount(n) \in Nat
    /\ PageCount(0) = 0
    /\ \A n \in Nat : PageCount(n * PageSize) = n
    /\ \A m, n \in Nat : m <= n => PageCount(m) <= PageCount(n)
<1>1. PageSize \in Nat \ {0} /\ PageSize - 1 \in 0..PageSize - 1
  BY CompressSizes
<1>2. \A n \in Nat : PageCount(n) \in Nat
  BY <1>1, DivIs DEF PageCount
<1>3. ASSUME NEW n \in Nat PROVE PageCount(n * PageSize) = n
  <2>1. (n * PageSize + (PageSize - 1)) \div PageSize = n
    BY <1>1, DivUnique
  <2>2. n * PageSize + PageSize - 1 = n * PageSize + (PageSize - 1)
    <3> DEFINE x == n * PageSize
    <3>1. x \in Nat
      BY <1>1
    <3> HIDE DEF x
    <3>2. x + PageSize - 1 = x + (PageSize - 1)
      BY <1>1, <3>1
    <3> QED BY <3>2 DEF x
  <2> QED BY <2>1, <2>2 DEF PageCount
<1>4. PageCount(0) = 0
  <2>1. 0 * PageSize = 0
    BY <1>1
  <2> QED BY <1>3, <2>1
<1>5. ASSUME NEW m \in Nat, NEW n \in Nat, m <= n PROVE PageCount(m) <= PageCount(n)
  <2> DEFINE q == PageCount(n)
  <2>1. q \in Nat /\ q + 1 \in Nat /\ m + PageSize - 1 \in Nat /\ n + PageSize - 1 \in Nat
    BY <1>1, <1>2
  <2>2. q = (n + PageSize - 1) \div PageSize
    BY DEF PageCount
  <2> HIDE DEF q
  <2>3. (n + PageSize - 1) \div PageSize < q + 1
    BY <2>1, <2>2
  <2> DEFINE end == (q + 1) * PageSize
  <2>4. n + PageSize - 1 < end
    BY <1>1, <2>1, <2>3, DivLess
  <2>5. m + PageSize - 1 < end
    <3>1. end \in Nat
      BY <1>1, <2>1
    <3> HIDE DEF end
    <3> QED BY <1>1, <1>5, <2>4, <3>1
  <2>6. (m + PageSize - 1) \div PageSize < q + 1
    BY <1>1, <2>1, <2>5, DivLess
  <2>7. (m + PageSize - 1) \div PageSize \in Nat
    BY <1>1, <2>1, DivIs
  <2> QED BY <2>1, <2>6, <2>7 DEF PageCount, q
<1> QED BY <1>2, <1>3, <1>4, <1>5

\* Every element of the flattening is of one of the sequences.
LEMMA FlattenSeqFrom ==
    ASSUME NEW S, NEW seqs \in Seq(Seq(S)), NEW i \in 1..Len(FlattenSeq(seqs))
    PROVE  \E g \in 1..Len(seqs) : \E k \in 1..Len(seqs[g]) :
              i = Len(FlattenSeq(SubSeq(seqs, 1, g - 1))) + k
<1> DEFINE F(m) == FlattenSeq(SubSeq(seqs, 1, m))
           From(n, x) == \E g \in 1..n : \E k \in 1..Len(seqs[g]) : x = Len(F(g - 1)) + k
           T == {n \in Nat : n <= Len(seqs) => \A x \in 1..Len(F(n)) : From(n, x)}
<1>1. /\ \A m \in 1..Len(seqs) : F(m) = F(m - 1) \o seqs[m]
      /\ \A m \in 0..Len(seqs) : F(m) \in Seq(S)
      /\ FlattenSeq(seqs) = F(Len(seqs))
      /\ FlattenSeq(<<>>) = <<>>
  BY FlattenSeqSteps
<1>2. F(0) = <<>>
  <2>1. SubSeq(seqs, 1, 0) = <<>>
    BY SubSeqProperties
  <2> QED BY <1>1, <2>1
<1>3. \A m \in 1..Len(seqs) : seqs[m] \in Seq(S)
  OBVIOUS
<1> HIDE DEF F
<1>4. 0 \in T
  BY <1>2
<1>5. ASSUME NEW n \in Nat, n \in T PROVE n + 1 \in T
  <2> SUFFICES ASSUME n + 1 <= Len(seqs), NEW x \in 1..Len(F(n + 1)) PROVE From(n + 1, x)
    OBVIOUS
  <2> DEFINE a == F(n)  b == seqs[n + 1]
  <2>1. n + 1 \in 1..Len(seqs) /\ n \in 0..Len(seqs) /\ (n + 1) - 1 = n
    OBVIOUS
  <2>2. F(n + 1) = a \o b /\ a \in Seq(S) /\ b \in Seq(S)
    BY <1>1, <1>3, <2>1
  <2>3. Len(F(n + 1)) = Len(a) + Len(b) /\ Len(a) \in Nat /\ Len(b) \in Nat
    <3> HIDE DEF a, b
    <3> QED BY <2>2, ConcatProperties
  <2>4. CASE x <= Len(a)
    <3>1. x \in 1..Len(F(n)) /\ n <= Len(seqs)
      BY <2>1, <2>3, <2>4
    <3>2. From(n, x)
      BY <1>5, <3>1
    <3> QED BY <3>2
  <2>5. CASE x > Len(a)
    <3> DEFINE k == x - Len(a)
    <3>1. k \in 1..Len(b) /\ x = Len(F((n + 1) - 1)) + k
      <4>1. x \in Nat /\ x <= Len(a) + Len(b)
        BY <2>3
      <4>2. F((n + 1) - 1) = a
        BY <2>1
      <4> HIDE DEF a, b
      <4> QED BY <2>3, <2>5, <4>1, <4>2
    <3> HIDE DEF k
    <3>2. n + 1 \in 1..n + 1
      OBVIOUS
    <3> QED BY <3>1, <3>2
  <2>6. x \in Nat /\ Len(a) \in Nat
    BY <2>3
  <2> HIDE DEF From, a
  <2> QED BY <2>4, <2>5, <2>6
<1> HIDE DEF T
<1>6. Nat \subseteq T
  BY <1>4, <1>5, SetInduction
<1>7. Len(seqs) \in T
  BY <1>6
<1>8. i \in 1..Len(F(Len(seqs)))
  BY <1>1
<1>9. Len(seqs) \in Nat /\ Len(seqs) <= Len(seqs)
  OBVIOUS
<1> HIDE DEF From
<1>10. From(Len(seqs), i)
  BY <1>7, <1>8, <1>9 DEF T
<1> QED BY <1>10 DEF F, From

BatchRow == [lane : Lanes, pos : Nat, token : Token \cup {NoToken}, loc : Nat]

(* What a batch is made of: the rows of these lanes, each behind its        *)
(* lane's start, and padding.                                               *)
RowOf(l, pages, new, k) ==
    [lane |-> l, pos |-> Len(lane[l].tokens) + k - 1, token |-> new[l][k],
     loc |-> Loc(pages[l], Len(lane[l].tokens) + k - 1)]
Batched(S, pages, new, rows, start) ==
    /\ rows \in Seq(BatchRow)
    /\ \A l \in S : start[l] \in Nat
    /\ \A l \in S : \A k \in 1..Len(new[l]) :
          start[l] + k \in DOMAIN rows /\ rows[start[l] + k] = RowOf(l, pages, new, k)
    /\ \A i \in DOMAIN rows :
          rows[i] = Padded \/ \E l \in S : \E k \in 1..Len(new[l]) : i = start[l] + k

\* Lanes with new tokens and pages for them.
Joining(S, pages, new) ==
    /\ CompressTypeOK
    /\ S \subseteq Lanes
    /\ \A l \in S : new[l] \in Seq(Token) /\ pages[l] \in Seq(Pages)
    /\ \A l \in S : Len(pages[l]) = PageCount(Len(lane[l].tokens) + Len(new[l]))

\* A lane and its tokens have their types.
LEMMA LaneOK ==
    ASSUME CompressTypeOK, NEW l \in Lanes
    PROVE  /\ lane[l].tokens \in Seq(Token) /\ lane[l].pages \in Seq(Pages)
           /\ lane[l].life \in Nat /\ lane[l].block \in Nat
           /\ drafts[l] \in Seq(Token)
           /\ Len(lane[l].tokens) \in Nat /\ Len(lane[l].pages) \in Nat /\ Len(drafts[l]) \in Nat
<1> QED BY DEF CompressTypeOK

\* A token's location: behind page 0.
LEMMA LocIs ==
    ASSUME NEW p \in Seq(Pages), NEW pos \in Nat, pos \div PageSize < Len(p)
    PROVE  Loc(p, pos) \in Nat \ {0}
<1> DEFINE x == p[pos \div PageSize + 1]
<1>1. PageSize \in Nat \ {0}
  BY CompressSizes
<1>2. pos \div PageSize \in Nat /\ pos % PageSize \in Nat
  BY <1>1, ModIs
<1>3. x \in Nat \ {0}
  BY <1>2, PageAt
<1>4. Loc(p, pos) = x * PageSize + (pos % PageSize)
  BY DEF Loc
<1> HIDE DEF x
<1>5. 1 * PageSize <= x * PageSize /\ x * PageSize \in Nat /\ 1 * PageSize = PageSize
  BY <1>1, <1>3, MulMono
<1> QED BY <1>1, <1>2, <1>4, <1>5

\* The rows of a lane are rows, at their positions.
LEMMA RowsOfIs ==
    ASSUME NEW S, NEW pages, NEW new, Joining(S, pages, new), NEW l \in S
    PROVE  /\ RowsOf(l, pages[l], new[l]) \in Seq(BatchRow)
           /\ Len(RowsOf(l, pages[l], new[l])) = Len(new[l])
           /\ \A k \in 1..Len(new[l]) : RowsOf(l, pages[l], new[l])[k] = RowOf(l, pages, new, k)
           /\ \A k \in 1..Len(new[l]) : RowOf(l, pages, new, k) \in BatchRow
              /\ RowOf(l, pages, new, k).loc # 0
<1> DEFINE n == Len(lane[l].tokens)  m == Len(new[l])
<1>1. l \in Lanes /\ new[l] \in Seq(Token) /\ pages[l] \in Seq(Pages) /\ Len(pages[l]) = PageCount(n + m)
  BY DEF Joining
<1>2. n \in Nat /\ m \in Nat /\ DOMAIN new[l] = 1..m
  BY <1>1, LaneOK DEF Joining
<1>3. ASSUME NEW k \in 1..m PROVE RowOf(l, pages, new, k) \in BatchRow /\ RowOf(l, pages, new, k).loc # 0
  <2> DEFINE pos == n + k - 1
  <2>1. pos \in Nat /\ pos < n + m /\ n + m \in Nat
    <3>1. n \in Nat /\ m \in Nat /\ k \in 1..m
      BY <1>2, <1>3
    <3> HIDE DEF n, m
    <3> QED BY <3>1
  <2> HIDE DEF pos
  <2>2. Loc(pages[l], pos) \in Nat \ {0}
    BY <1>1, <2>1, PosHasPage, LocIs
  <2>3. new[l][k] \in Token
    BY <1>1, <1>2
  <2>4. RowOf(l, pages, new, k) = [lane |-> l, pos |-> pos, token |-> new[l][k], loc |-> Loc(pages[l], pos)]
    BY DEF RowOf, pos
  <2> QED BY <1>1, <2>1, <2>2, <2>3, <2>4 DEF BatchRow
<1>4. RowsOf(l, pages[l], new[l]) = [k \in 1..m |-> RowOf(l, pages, new, k)]
  BY <1>2, Zenon DEF RowsOf, RowOf
<1> DEFINE rows == RowsOf(l, pages[l], new[l])
<1>5. DOMAIN rows = 1..m /\ \A k \in 1..m : rows[k] = RowOf(l, pages, new, k)
  BY <1>4, Zenon
<1>6. rows \in [1..m -> BatchRow]
  BY <1>3, <1>4, Zenon
<1> HIDE DEF rows
<1>7. rows \in Seq(BatchRow) /\ Len(rows) = m
  BY <1>2, <1>6
<1> QED BY <1>3, <1>5, <1>7 DEF rows

\* A padding row is a row.
LEMMA PadIs == Padded \in BatchRow /\ Padded.loc = 0 /\ Padded.lane = 0 /\ Padded.pos = 0
<1>1. 0 \in Lanes
  BY CompressSizes DEF Lanes
<1> QED BY <1>1 DEF Padded, BatchRow

\* A batch holds the rows of its lanes and padding.
LEMMA BatchRowsAre ==
    ASSUME NEW S, NEW pages, NEW new, NEW pads \in Nat, Joining(S, pages, new)
    PROVE  \E start : Batched(S, pages, new, BatchRows(S, pages, new, pads), start)
<1> DEFINE parts == [n \in 1..NumLanes |->
                        IF n - 1 \in S THEN RowsOf(n - 1, pages[n - 1], new[n - 1]) ELSE <<>>]
           flat == FlattenSeq(parts)
           pad == [n \in 1..pads |-> Padded]
           rows == flat \o pad
           start == [l \in Lanes |-> Len(FlattenSeq(SubSeq(parts, 1, l)))]
<1>1. NumLanes \in Nat \ {0} /\ S \subseteq Lanes
  BY CompressSizes DEF Joining
<1>2. \A n \in 1..NumLanes : parts[n] \in Seq(BatchRow)
  <2> TAKE n \in 1..NumLanes
  <2>1. CASE n - 1 \in S
    <3>1. parts[n] = RowsOf(n - 1, pages[n - 1], new[n - 1])
      BY <2>1
    <3> QED BY <2>1, <3>1, RowsOfIs
  <2>2. CASE n - 1 \notin S
    <3>1. parts[n] = <<>> /\ <<>> \in Seq(BatchRow)
      BY <2>2
    <3> QED BY <3>1
  <2> QED BY <2>1, <2>2
<1>3. DOMAIN parts = 1..NumLanes /\ parts \in Seq(Seq(BatchRow)) /\ Len(parts) = NumLanes
  <2>1. parts \in [1..NumLanes -> Seq(BatchRow)]
    BY <1>2, Zenon
  <2> HIDE DEF parts
  <2> QED BY <1>1, <2>1
<1>4. \A l \in S : l + 1 \in 1..Len(parts) /\ parts[l + 1] = RowsOf(l, pages[l], new[l])
  <2> TAKE l \in S
  <2>1. l + 1 \in 1..NumLanes /\ (l + 1) - 1 = l /\ l \in S
    BY <1>1 DEF Lanes
  <2>2. parts[l + 1] = IF (l + 1) - 1 \in S
        THEN RowsOf((l + 1) - 1, pages[(l + 1) - 1], new[(l + 1) - 1]) ELSE <<>>
    BY <2>1, Zenon
  <2> QED BY <1>3, <2>1, <2>2
<1>5. \A g \in 1..Len(parts) : g - 1 \in S \/ parts[g] = <<>>
  BY <1>3
<1> HIDE DEF parts
<1>6. flat \in Seq(BatchRow)
  <2>1. FlattenSeq(SubSeq(parts, 1, Len(parts))) \in Seq(BatchRow)
    <3>1. Len(parts) \in 0..Len(parts)
      BY <1>1, <1>3
    <3> QED BY <1>3, <3>1, FlattenSeqSteps
  <2>2. FlattenSeq(parts) = FlattenSeq(SubSeq(parts, 1, Len(parts)))
    BY <1>3, FlattenSeqSteps
  <2> QED BY <2>1, <2>2
<1>7. pad \in Seq(BatchRow) /\ Len(pad) = pads /\ \A n \in 1..pads : pad[n] = Padded
  <2>1. pad \in [1..pads -> BatchRow] /\ \A n \in 1..pads : pad[n] = Padded
    BY PadIs
  <2> HIDE DEF pad
  <2> QED BY <2>1
<1>8. \A l \in S : start[l] = Len(FlattenSeq(SubSeq(parts, 1, l))) /\ start[l] \in Nat
  <2> TAKE l \in S
  <2>1. start[l] = Len(FlattenSeq(SubSeq(parts, 1, l)))
    BY <1>1
  <2>2. l \in 0..Len(parts)
    BY <1>1, <1>3 DEF Lanes
  <2>3. FlattenSeq(SubSeq(parts, 1, l)) \in Seq(BatchRow)
    BY <1>3, <2>2, FlattenSeqSteps
  <2> QED BY <2>1, <2>3
<1> HIDE DEF start
<1>9. ASSUME NEW l \in S, NEW k \in 1..Len(new[l])
      PROVE  start[l] + k \in 1..Len(flat) /\ flat[start[l] + k] = RowOf(l, pages, new, k)
  <2>1. /\ l + 1 \in 1..Len(parts) /\ k \in 1..Len(parts[l + 1]) /\ parts[l + 1][k] = RowOf(l, pages, new, k)
    BY <1>4, <1>9, RowsOfIs
  <2>2. (l + 1) - 1 = l
    BY <1>1 DEF Lanes
  <2>3. /\ Len(FlattenSeq(SubSeq(parts, 1, (l + 1) - 1))) + k \in 1..Len(FlattenSeq(parts))
        /\ FlattenSeq(parts)[Len(FlattenSeq(SubSeq(parts, 1, (l + 1) - 1))) + k] = parts[l + 1][k]
    BY <1>3, <2>1, FlattenSeqAt
  <2> QED BY <1>8, <2>1, <2>2, <2>3
<1>10. ASSUME NEW i \in 1..Len(flat)
       PROVE  \E l \in S : \E k \in 1..Len(new[l]) : i = start[l] + k
  <2>1. PICK g \in 1..Len(parts) : \E k \in 1..Len(parts[g]) :
        i = Len(FlattenSeq(SubSeq(parts, 1, g - 1))) + k
    BY <1>3, FlattenSeqFrom
  <2>2. PICK k \in 1..Len(parts[g]) : i = Len(FlattenSeq(SubSeq(parts, 1, g - 1))) + k
    BY <2>1
  <2>3. g - 1 \in S
    <3> SUFFICES ASSUME parts[g] = <<>> PROVE FALSE BY <1>5
    <3> QED BY <2>2
  <2>4. (g - 1) + 1 = g
    OBVIOUS
  <2>5. parts[g] = RowsOf(g - 1, pages[g - 1], new[g - 1])
    BY <1>4, <2>3, <2>4
  <2>6. k \in 1..Len(new[g - 1]) /\ i = start[g - 1] + k
    <3>1. Len(parts[g]) = Len(new[g - 1])
      BY <2>3, <2>5, RowsOfIs
    <3>2. start[g - 1] = Len(FlattenSeq(SubSeq(parts, 1, g - 1)))
      BY <1>8, <2>3
    <3> QED BY <2>2, <3>1, <3>2
  <2> QED BY <2>3, <2>6
<1> HIDE DEF flat, pad
<1>11. rows \in Seq(BatchRow) /\ Len(rows) = Len(flat) + pads /\ DOMAIN rows = 1..Len(rows)
       /\ Len(flat) \in Nat
  <2>1. flat \o pad \in Seq(BatchRow) /\ Len(flat \o pad) = Len(flat) + Len(pad)
    BY <1>6, <1>7, ConcatProperties
  <2>2. Len(flat) \in Nat
    BY <1>6
  <2>3. rows = flat \o pad
    OBVIOUS
  <2> HIDE DEF rows
  <2>4. DOMAIN rows = 1..Len(rows)
    BY <2>1, <2>3
  <2> QED BY <1>7, <2>1, <2>2, <2>3, <2>4
<1>12. \A i \in 1..Len(flat) : i \in DOMAIN rows /\ rows[i] = flat[i]
  BY <1>6, <1>7, <1>11, ConcatProperties
<1>13. \A i \in DOMAIN rows : i \notin 1..Len(flat) => rows[i] = Padded
  <2> TAKE i \in DOMAIN rows
  <2> SUFFICES ASSUME i \notin 1..Len(flat) PROVE rows[i] = Padded OBVIOUS
  <2>1. i - Len(flat) \in 1..pads /\ i \in 1..Len(flat) + Len(pad) /\ i > Len(flat)
    BY <1>7, <1>11
  <2>2. rows[i] = pad[i - Len(flat)]
    BY <1>6, <1>7, <2>1, ConcatProperties
  <2> QED BY <1>7, <2>1, <2>2
<1> HIDE DEF rows
<1>14. Batched(S, pages, new, rows, start)
  BY <1>8, <1>9, <1>10, <1>11, <1>12, <1>13 DEF Batched
<1>15. rows = BatchRows(S, pages, new, pads)
  BY DEF rows, flat, pad, parts, BatchRows
<1> QED BY <1>14, <1>15

\* A batch of lanes with their new tokens and pages.
BatchOf(S, pages, new, rows, start) ==
    Joining(S, pages, new) /\ Batched(S, pages, new, rows, start)

\* The row of a lane's k-th new token.
LEMMA RowAt ==
    ASSUME NEW S, NEW pages, NEW new, NEW rows, NEW start, BatchOf(S, pages, new, rows, start),
           NEW l \in S, NEW k \in 1..Len(new[l])
    PROVE  /\ start[l] + k \in DOMAIN rows /\ start[l] + k \in Nat /\ start[l] \in Nat
           /\ rows[start[l] + k].lane = l
           /\ rows[start[l] + k].pos = Len(lane[l].tokens) + k - 1
           /\ rows[start[l] + k].token = new[l][k]
           /\ rows[start[l] + k].loc = Loc(pages[l], Len(lane[l].tokens) + k - 1)
           /\ ~IsPad(rows[start[l] + k])
<1>1. Joining(S, pages, new) /\ Batched(S, pages, new, rows, start)
  BY DEF BatchOf
<1>2. /\ start[l] \in Nat
      /\ start[l] + k \in DOMAIN rows /\ rows[start[l] + k] = RowOf(l, pages, new, k)
  BY <1>1 DEF Batched
<1>3. RowOf(l, pages, new, k).loc # 0
  BY <1>1, RowsOfIs
<1>4. k \in Nat
  OBVIOUS
<1> QED BY <1>2, <1>3, <1>4 DEF RowOf, IsPad

\* Every other row is padding.
LEMMA RowFrom ==
    ASSUME NEW S, NEW pages, NEW new, NEW rows, NEW start, BatchOf(S, pages, new, rows, start),
           NEW i \in DOMAIN rows, ~IsPad(rows[i])
    PROVE  \E l \in S : \E k \in 1..Len(new[l]) : i = start[l] + k
<1>1. rows[i] # Padded
  BY PadIs DEF IsPad
<1> QED BY <1>1 DEF BatchOf, Batched

\* No two new tokens share a row.
LEMMA RowUnique ==
    ASSUME NEW S, NEW pages, NEW new, NEW rows, NEW start, BatchOf(S, pages, new, rows, start),
           NEW l \in S, NEW k \in 1..Len(new[l]), NEW m \in S, NEW h \in 1..Len(new[m]),
           start[l] + k = start[m] + h
    PROVE  l = m /\ k = h
<1>1. rows[start[l] + k].lane = l /\ rows[start[m] + h].lane = m /\ start[l] \in Nat /\ start[m] \in Nat
  BY RowAt
<1>2. l = m
  BY <1>1
<1> QED BY <1>1, <1>2

\* A row is kept exactly when its lane has no row a ring further on.
LEMMA KeptRow ==
    ASSUME NEW S, NEW pages, NEW new, NEW rows, NEW start, BatchOf(S, pages, new, rows, start),
           NEW l \in S, NEW k \in 1..Len(new[l])
    PROVE  Kept(rows, start[l] + k) <=> k + RingSize > Len(new[l])
<1> DEFINE i == start[l] + k
<1>1. RingSize \in Nat \ {0} /\ k \in Nat
  BY CompressSizes
<1>2. rows \in Seq(BatchRow) /\ new[l] \in Seq(Token)
  BY DEF BatchOf, Batched, Joining
<1>3. i \in 1..Len(rows) /\ rows[i].lane = l /\ ~IsPad(rows[i]) /\ start[l] \in Nat /\ i \in Nat
  BY <1>2, RowAt
<1>4. Len(rows) \in Nat /\ Len(new[l]) \in Nat /\ DOMAIN rows = 1..Len(rows)
  BY <1>2
<1>5. CASE k + RingSize > Len(new[l])
  <2>1. ASSUME i + RingSize <= Len(rows), rows[i + RingSize].lane = l, ~IsPad(rows[i + RingSize]) PROVE FALSE
    <3>1. i + RingSize \in DOMAIN rows
      BY <1>1, <1>3, <1>4, <2>1
    <3>2. PICK m \in S : \E h \in 1..Len(new[m]) : i + RingSize = start[m] + h
      BY <2>1, <3>1, RowFrom
    <3>3. PICK h \in 1..Len(new[m]) : i + RingSize = start[m] + h
      BY <3>2
    <3>4. m = l
      BY <2>1, <3>3, RowAt
    <3>5. h = k + RingSize /\ h <= Len(new[l])
      BY <1>1, <1>3, <3>3, <3>4
    <3> QED BY <1>5, <3>5
  <2> HIDE DEF i
  <2> QED BY <1>3, <1>5, <2>1 DEF Kept, i
<1>6. CASE k + RingSize <= Len(new[l])
  <2>1. k + RingSize \in 1..Len(new[l])
    BY <1>1, <1>4, <1>6
  <2>2. start[l] + (k + RingSize) = i + RingSize
    BY <1>1, <1>3
  <2>3. /\ i + RingSize \in DOMAIN rows
        /\ rows[i + RingSize].lane = l /\ ~IsPad(rows[i + RingSize])
    BY <2>1, <2>2, RowAt
  <2>4. i + RingSize <= Len(rows)
    BY <1>4, <2>3
  <2> HIDE DEF i
  <2>5. ~Kept(rows, i)
    BY <1>3, <2>3, <2>4 DEF Kept
  <2> QED BY <1>1, <1>4, <1>6, <2>5 DEF i
<1> QED BY <1>1, <1>4, <1>5, <1>6

\* Who writes a place of a lane's ring.
Writers(rows, l, spot) ==
    {i \in DOMAIN rows : Kept(rows, i) /\ rows[i].lane = l /\ rows[i].pos % RingSize = spot}

\* What a place of a ring holds after a batch.
LEMMA RingIs ==
    ASSUME NEW rows, NEW l \in Lanes, NEW spot \in 0..RingSize - 1
    PROVE  /\ Writers(rows, l, spot) = {} => RingAfter(rows)[l][spot] = ring[l][spot]
           /\ \A i : Writers(rows, l, spot) = {i} => RingAfter(rows)[l][spot] = rows[i].token
<1> DEFINE w == Writers(rows, l, spot)
<1>1. RingAfter(rows)[l][spot] =
         IF w = {} THEN ring[l][spot]
         ELSE IF Cardinality(w) > 1 THEN Unordered
         ELSE rows[CHOOSE i \in w : TRUE].token
  BY Zenon DEF RingAfter, Writers
<1> HIDE DEF w
<1>2. ASSUME NEW i, w = {i} PROVE RingAfter(rows)[l][spot] = rows[i].token
  <2>1. Cardinality(w) = 1 /\ w # {}
    BY <1>2, FS_Singleton
  <2>2. ~(Cardinality(w) > 1)
    BY <2>1
  <2>3. (CHOOSE x \in w : TRUE) = i
    BY <1>2
  <2> QED BY <1>1, <2>1, <2>2, <2>3
<1> QED BY <1>1, <1>2 DEF w

\* The last new tokens of a lane are in its ring.
LEMMA RingWrites ==
    ASSUME NEW S, NEW pages, NEW new, NEW rows, NEW start, BatchOf(S, pages, new, rows, start),
           NEW l \in S, NEW a \in 1..Len(new[l]), a + RingSize > Len(new[l])
    PROVE  RingAfter(rows)[l][(Len(lane[l].tokens) + a - 1) % RingSize] = new[l][a]
<1> DEFINE n == Len(lane[l].tokens)  spot == (n + a - 1) % RingSize
<1>1. RingSize \in Nat \ {0} /\ a \in Nat
  BY CompressSizes
<1>2. l \in Lanes /\ new[l] \in Seq(Token) /\ CompressTypeOK
  BY DEF BatchOf, Joining
<1>3. n \in Nat /\ Len(new[l]) \in Nat
  BY <1>2, LaneOK
<1> HIDE DEF n
<1>4. n + a - 1 \in Nat
  BY <1>1, <1>3
<1>5. spot \in 0..RingSize - 1
  BY <1>1, <1>4, ModIs
<1>6. start[l] + a \in Writers(rows, l, spot)
  <2>1. Kept(rows, start[l] + a)
    BY KeptRow
  <2> QED BY <2>1, RowAt DEF Writers, n
<1>7. ASSUME NEW i \in Writers(rows, l, spot) PROVE i = start[l] + a
  <2>1. i \in DOMAIN rows /\ Kept(rows, i) /\ ~IsPad(rows[i]) /\ rows[i].lane = l
        /\ rows[i].pos % RingSize = spot
    BY DEF Writers, Kept
  <2>2. PICK m \in S : \E k \in 1..Len(new[m]) : i = start[m] + k
    BY <2>1, RowFrom
  <2>3. PICK k \in 1..Len(new[m]) : i = start[m] + k
    BY <2>2
  <2>4. m = l /\ rows[i].pos = Len(lane[m].tokens) + k - 1
    BY <2>1, <2>3, RowAt
  <2>5. k \in 1..Len(new[l]) /\ k + RingSize > Len(new[l]) /\ rows[i].pos = n + k - 1
    BY <2>1, <2>3, <2>4, KeptRow DEF n
  <2>6. n + k - 1 \in Nat /\ n + k - 1 < (n + a - 1) + RingSize /\ n + a - 1 < (n + k - 1) + RingSize
    BY <1>1, <1>3, <2>5
  <2>7. n + k - 1 = n + a - 1
    BY <1>1, <1>4, <2>1, <2>5, <2>6, SamePlace
  <2>8. k = a
    BY <1>1, <1>3, <2>5, <2>7
  <2> QED BY <2>3, <2>4, <2>8
<1>8. Writers(rows, l, spot) = {start[l] + a}
  BY <1>6, <1>7
<1>9. RingAfter(rows)[l][spot] = rows[start[l] + a].token
  BY <1>2, <1>5, <1>8, RingIs
<1> QED BY <1>9, RowAt DEF n

\* The ring of a lane without new tokens stays.
LEMMA RingRest ==
    ASSUME NEW S, NEW pages, NEW new, NEW rows, NEW start, BatchOf(S, pages, new, rows, start),
           NEW l \in Lanes \ S, NEW spot \in 0..RingSize - 1
    PROVE  RingAfter(rows)[l][spot] = ring[l][spot]
<1>1. ASSUME NEW i \in Writers(rows, l, spot) PROVE FALSE
  <2>1. i \in DOMAIN rows /\ ~IsPad(rows[i]) /\ rows[i].lane = l
    BY DEF Writers, Kept
  <2>2. PICK m \in S : \E k \in 1..Len(new[m]) : i = start[m] + k
    BY <2>1, RowFrom
  <2>3. PICK k \in 1..Len(new[m]) : i = start[m] + k
    BY <2>2
  <2>4. m = l
    BY <2>1, <2>3, RowAt
  <2> QED BY <2>4
<1>2. Writers(rows, l, spot) = {}
  BY <1>1
<1> QED BY <1>2, RingIs

\* The partner of a lane's first new token is in the ring, that of another its neighbour.
LEMMA PartnerIs ==
    ASSUME NEW S, NEW pages, NEW new, NEW rows, NEW start, BatchOf(S, pages, new, rows, start),
           NEW l \in S, NEW k \in 1..Len(new[l])
    PROVE  /\ k = 1 => Partner(rows, start[l] + k) = ring[l][(Len(lane[l].tokens) - 1) % RingSize]
           /\ k # 1 => Partner(rows, start[l] + k) = new[l][k - 1]
<1> DEFINE i == start[l] + k  n == Len(lane[l].tokens)
<1>1. /\ i \in DOMAIN rows /\ i \in Nat /\ start[l] \in Nat /\ k \in Nat
      /\ rows[i].lane = l /\ rows[i].pos = n + k - 1 /\ ~IsPad(rows[i])
  BY RowAt
<1>2. rows \in Seq(BatchRow) /\ new[l] \in Seq(Token) /\ CompressTypeOK /\ l \in Lanes
  BY DEF BatchOf, Batched, Joining
<1>3. n \in Nat
  BY <1>2, LaneOK
<1>4. CASE k = 1
  <2>1. ASSUME InBatch(rows, i) PROVE FALSE
    <3>1. i > 1 /\ rows[i - 1].lane = l /\ ~IsPad(rows[i - 1])
      BY <1>1, <2>1 DEF InBatch
    <3>2. i - 1 \in DOMAIN rows
      <4> HIDE DEF i
      <4> QED BY <1>1, <1>2, <3>1
    <3>3. PICK m \in S : \E h \in 1..Len(new[m]) : i - 1 = start[m] + h
      BY <3>1, <3>2, RowFrom
    <3>4. PICK h \in 1..Len(new[m]) : i - 1 = start[m] + h
      BY <3>3
    <3>5. m = l
      BY <3>1, <3>4, RowAt
    <3> QED BY <1>1, <1>4, <3>4, <3>5
  <2>2. Partner(rows, i) = ring[l][(rows[i].pos - 1) % RingSize]
    BY <1>1, <2>1 DEF Partner
  <2>3. rows[i].pos - 1 = n - 1
    <3> HIDE DEF i, n
    <3> QED BY <1>1, <1>3, <1>4
  <2> QED BY <1>4, <2>2, <2>3
<1>5. CASE k # 1
  <2>1. k - 1 \in 1..Len(new[l]) /\ start[l] + (k - 1) = i - 1
    <3>1. Len(new[l]) \in Nat /\ k \in 1..Len(new[l]) /\ k \in Nat
      BY <1>1, <1>2
    <3>2. k - 1 \in 1..Len(new[l])
      BY <1>5, <3>1
    <3>3. start[l] + (k - 1) = i - 1
      BY <1>1, <3>1
    <3> QED BY <3>2, <3>3
  <2>2. /\ rows[i - 1].lane = l /\ rows[i - 1].pos = n + (k - 1) - 1 /\ ~IsPad(rows[i - 1])
        /\ rows[i - 1].token = new[l][k - 1] /\ i - 1 \in Nat
    BY <2>1, RowAt
  <2>3. i > 1 /\ rows[i].pos = rows[i - 1].pos + 1
    <3>1. start[l] + k > 1
      BY <1>1, <1>5
    <3> HIDE DEF n
    <3>2. rows[i].pos = n + k - 1 /\ rows[i - 1].pos = n + (k - 1) - 1
      BY <1>1, <2>2
    <3> QED BY <1>1, <1>3, <3>1, <3>2
  <2>4. InBatch(rows, i)
    BY <1>1, <2>2, <2>3 DEF InBatch
  <2> QED BY <1>5, <2>2, <2>4 DEF Partner
<1> QED BY <1>4, <1>5

\* The pages of every lane when these have joined.
PagesAfter(S, pages) == [l \in Lanes |-> IF l \in S THEN pages[l] ELSE lane[l].pages]

\* The tokens of a lane when the new ones have joined.
TokensAfter(S, new, l) == lane[l].tokens \o (IF l \in S THEN new[l] ELSE <<>>)

\* The rows that complete the pair of a slot.
Completers(rows, slot) == {i \in DOMAIN rows : OutLoc(rows[i]) = slot}

\* What a slot holds after a batch.
LEMMA LatentIs ==
    ASSUME NEW rows, NEW slot \in DOMAIN latent, slot # 0
    PROVE  /\ Completers(rows, slot) = {} => LatentAfter(rows)[slot] = latent[slot]
           /\ \A i : Completers(rows, slot) = {i} =>
                LatentAfter(rows)[slot] = <<Partner(rows, i), rows[i].token>>
<1> DEFINE w == Completers(rows, slot)
<1>1. LatentAfter(rows)[slot] =
         IF slot = 0 \/ w = {} THEN latent[slot]
         ELSE <<Partner(rows, CHOOSE i \in w : TRUE), rows[CHOOSE i \in w : TRUE].token>>
  BY Zenon DEF LatentAfter, Completers
<1> HIDE DEF w
<1>2. ASSUME NEW i, w = {i} PROVE LatentAfter(rows)[slot] = <<Partner(rows, i), rows[i].token>>
  <2>1. w # {}
    BY <1>2
  <2>2. (CHOOSE x \in w : TRUE) = i
    BY <1>2
  <2> QED BY <1>1, <2>1, <2>2
<1> QED BY <1>1, <1>2 DEF w

\* A row that completes a pair completes its own.
LEMMA Completes ==
    ASSUME NEW S, NEW pages, NEW new, NEW rows, NEW start, BatchOf(S, pages, new, rows, start),
           NEW slot \in Nat, NEW i \in Completers(rows, slot)
    PROVE  \E m \in S : \E h \in 1..Len(new[m]), c \in Nat :
              /\ i = start[m] + h /\ Len(lane[m].tokens) + h - 1 = 2 * c + 1
              /\ slot = Slot(pages[m], c) /\ c \div Half < Len(pages[m])
<1>1. i \in DOMAIN rows /\ OutLoc(rows[i]) = slot
  BY DEF Completers
<1>2. (rows[i].pos + 1) % 2 = 0 /\ rows[i].loc \div 2 = slot
  <2>1. slot # -1
    OBVIOUS
  <2> QED BY <1>1, <2>1 DEF OutLoc
<1>3. ~IsPad(rows[i])
  <2> SUFFICES ASSUME IsPad(rows[i]) PROVE FALSE OBVIOUS
  <2>1. rows[i] = Padded
    <3> SUFFICES ASSUME NEW l \in S, NEW k \in 1..Len(new[l]), i = start[l] + k PROVE FALSE
      BY <1>1 DEF BatchOf, Batched
    <3> QED BY RowAt
  <2> QED BY <1>2, <2>1, PadIs
<1>4. PICK m \in S : \E h \in 1..Len(new[m]) : i = start[m] + h
  BY <1>1, <1>3, RowFrom
<1>5. PICK h \in 1..Len(new[m]) : i = start[m] + h
  BY <1>4
<1> DEFINE n == Len(lane[m].tokens)  pos == n + h - 1  c == pos \div 2
<1>6. rows[i].pos = pos /\ rows[i].loc = Loc(pages[m], pos)
  BY <1>5, RowAt
<1>7. m \in Lanes /\ new[m] \in Seq(Token) /\ pages[m] \in Seq(Pages)
      /\ Len(pages[m]) = PageCount(n + Len(new[m]))
  BY DEF BatchOf, Joining
<1>8. n \in Nat /\ Len(new[m]) \in Nat /\ h \in Nat
  BY <1>7, LaneOK DEF BatchOf, Joining
<1> HIDE DEF n
<1>9. pos \in Nat /\ pos + 1 <= n + Len(new[m]) /\ n + Len(new[m]) \in Nat
  BY <1>8
<1>10. c \in Nat /\ pos = 2 * c + 1
  <2>1. (pos + 1) % 2 = 0
    BY <1>2, <1>6
  <2> HIDE DEF pos
  <2> QED BY <1>9, <2>1
<1>11. 2 * c + 2 <= n + Len(new[m])
  <2> HIDE DEF pos, c
  <2> QED BY <1>9, <1>10, <1>8
<1> HIDE DEF c, pos
<1>12. c \div Half < Len(pages[m]) /\ c \div Half \in Nat
  BY <1>7, <1>9, <1>10, <1>11, PairHasPage
<1>13. pages[m][c \div Half + 1] \in Nat
  BY <1>7, <1>12, PageAt
<1>14. slot = Slot(pages[m], c)
  BY <1>2, <1>6, <1>10, <1>13, PairAt
<1> QED BY <1>5, <1>10, <1>12, <1>14 DEF pos, n

\* A pair whose page these are among.
HasPair(p, j) == p \in Seq(Pages) /\ j \div Half < Len(p)

\* The row of the second token of a lane's pair.
SecondRow(S, start, l, j, i) ==
    l \in S /\ Len(lane[l].tokens) <= 2 * j + 1 /\ i = start[l] + (2 * j + 2 - Len(lane[l].tokens))

\* The only row that completes a pair of a lane is the lane's row of its second token.
LEMMA CompleterIs ==
    ASSUME NEW S, NEW pages, NEW new, NEW rows, NEW start, BatchOf(S, pages, new, rows, start),
           ApartFor(PagesAfter(S, pages)),
           NEW l \in Lanes, NEW j \in Nat, HasPair(PagesAfter(S, pages)[l], j),
           NEW i \in Completers(rows, Slot(PagesAfter(S, pages)[l], j))
    PROVE  SecondRow(S, start, l, j, i)
<1> DEFINE P == PagesAfter(S, pages)
<1>1. Half \in Nat \ {0} /\ PageSize = 2 * Half /\ NumPages \in Nat
  BY CompressSizes
<1>2. P[l] \in Seq(Pages) /\ j \div Half < Len(P[l]) /\ i \in Completers(rows, Slot(P[l], j)) /\ ApartFor(P)
  BY DEF HasPair
<1>3. Slot(P[l], j) \in Nat
  <2>1. (NumPages + 1) * Half \in Nat
    BY <1>1
  <2>2. Slot(P[l], j) \in 1..(NumPages + 1) * Half - 1
    BY <1>2, SlotInside
  <2> QED BY <2>1, <2>2
<1>4. S \subseteq Lanes /\ \A m \in S : P[m] = pages[m] /\ P[m] \in Seq(Pages)
  BY DEF BatchOf, Joining, PagesAfter
<1> HIDE DEF P
<1>5. PICK m \in S : \E h \in 1..Len(new[m]), c \in Nat :
              /\ i = start[m] + h /\ Len(lane[m].tokens) + h - 1 = 2 * c + 1
              /\ Slot(P[l], j) = Slot(pages[m], c) /\ c \div Half < Len(pages[m])
  BY <1>2, <1>3, Completes
<1>6. PICK h \in 1..Len(new[m]), c \in Nat :
              /\ i = start[m] + h /\ Len(lane[m].tokens) + h - 1 = 2 * c + 1
              /\ Slot(P[l], j) = Slot(pages[m], c) /\ c \div Half < Len(pages[m])
  BY <1>5
<1>7. P[l][j \div Half + 1] = P[m][c \div Half + 1] /\ j % Half = c % Half
  BY <1>2, <1>4, <1>6, SlotUnique
<1> DEFINE x == j \div Half  y == c \div Half
<1>8. /\ x \in Nat /\ y \in Nat /\ j = x * Half + (j % Half) /\ c = y * Half + (c % Half)
      /\ j % Half \in 0..Half - 1 /\ c % Half \in 0..Half - 1
  <2>1. x \in Nat /\ j = x * Half + (j % Half) /\ j % Half \in 0..Half - 1
    BY <1>1, ModIs
  <2>2. y \in Nat /\ c = y * Half + (c % Half) /\ c % Half \in 0..Half - 1
    BY <1>1, ModIs
  <2> HIDE DEF x, y
  <2> QED BY <2>1, <2>2
<1>9. x + 1 \in DOMAIN P[l] /\ y + 1 \in DOMAIN P[m]
  <2>1. x < Len(P[l]) /\ P[l] \in Seq(Pages) /\ y < Len(P[m]) /\ P[m] \in Seq(Pages)
    BY <1>2, <1>4, <1>6
  <2>2. x \in Nat /\ y \in Nat
    BY <1>8
  <2> HIDE DEF x, y
  <2>3. x + 1 \in DOMAIN P[l]
    BY <2>1, <2>2
  <2>4. y + 1 \in DOMAIN P[m]
    BY <2>1, <2>2
  <2> QED BY <2>3, <2>4
<1>10. m \in Lanes /\ Len(lane[m].tokens) \in Nat /\ h \in Nat
  BY <1>4, LaneOK DEF BatchOf, Joining
<1>11. x + 1 = y + 1 /\ (l # m => (y + 1) * PageSize <= Len(lane[m].tokens))
  BY <1>2, <1>7, <1>9, <1>10 DEF ApartFor
<1> HIDE DEF x, y
<1>12. x = y /\ j = c
  BY <1>7, <1>8, <1>11
<1>13. l = m
  <2> SUFFICES ASSUME l # m PROVE FALSE OBVIOUS
  <2>1. (y + 1) * PageSize <= Len(lane[m].tokens)
    BY <1>11
  <2>2. (y + 1) * PageSize = 2 * (y * Half) + 2 * Half /\ y * Half \in Nat
    <3>1. (y + 1) * PageSize = y * PageSize + PageSize
      BY <1>1, <1>8, MulNext
    <3>2. y * PageSize = 2 * (y * Half) /\ y * Half \in Nat
      BY <1>1, <1>8, Z3
    <3> QED BY <1>1, <3>1, <3>2
  <2>3. 2 * c + 1 < (y + 1) * PageSize
    BY <1>1, <1>8, <2>2
  <2> QED BY <1>6, <1>10, <2>1, <2>2, <2>3, <1>1
<1>14. h = 2 * j + 2 - Len(lane[l].tokens) /\ Len(lane[l].tokens) <= 2 * j + 1
  <2> DEFINE n == Len(lane[l].tokens)
  <2>1. n + h - 1 = 2 * j + 1
    BY <1>6, <1>12, <1>13
  <2>2. n \in Nat /\ h \in Nat /\ h >= 1
    BY <1>10, <1>13
  <2> HIDE DEF n
  <2>3. h = 2 * j + 2 - n /\ n <= 2 * j + 1
    BY <2>1, <2>2
  <2> QED BY <2>3 DEF n
<1> QED BY <1>6, <1>13, <1>14 DEF SecondRow

\* The pages of a lane hold its tokens when the new ones have joined.
LEMMA AfterOK ==
    ASSUME NEW S, NEW pages, NEW new, Joining(S, pages, new), Paged, Judged, NEW l \in Lanes
    PROVE  /\ PagesAfter(S, pages)[l] \in Seq(Pages)
           /\ TokensAfter(S, new, l) \in Seq(Token)
           /\ Len(PagesAfter(S, pages)[l]) = PageCount(Len(TokensAfter(S, new, l)))
           /\ l \in S => TokensAfter(S, new, l) = lane[l].tokens \o new[l]
           /\ l \notin S => TokensAfter(S, new, l) = lane[l].tokens
           /\ Known(l) = lane[l].tokens
<1>1. /\ lane[l].tokens \in Seq(Token) /\ lane[l].pages \in Seq(Pages) /\ drafts[l] = <<>>
  BY LaneOK DEF Joining, Judged
<1>2. lane[l].tokens \o <<>> = lane[l].tokens
  BY <1>1, ConcatEmptySeq
<1>3. Known(l) = lane[l].tokens
  BY <1>1, <1>2 DEF Known
<1>4. CASE l \in S
  <2>1. new[l] \in Seq(Token) /\ pages[l] \in Seq(Pages)
        /\ Len(pages[l]) = PageCount(Len(lane[l].tokens) + Len(new[l]))
    BY <1>4 DEF Joining
  <2>2. PagesAfter(S, pages)[l] = pages[l] /\ TokensAfter(S, new, l) = lane[l].tokens \o new[l]
    BY <1>4 DEF PagesAfter, TokensAfter
  <2> HIDE DEF Token
  <2>3. lane[l].tokens \o new[l] \in Seq(Token)
        /\ Len(lane[l].tokens \o new[l]) = Len(lane[l].tokens) + Len(new[l])
    BY <1>1, <2>1, ConcatProperties
  <2> QED BY <1>3, <1>4, <2>1, <2>2, <2>3
<1>5. CASE l \notin S
  <2>1. PagesAfter(S, pages)[l] = lane[l].pages /\ TokensAfter(S, new, l) = lane[l].tokens
    BY <1>2, <1>5 DEF PagesAfter, TokensAfter
  <2>2. Len(lane[l].pages) = PageCount(Len(Known(l)))
    BY DEF Paged
  <2> QED BY <1>1, <1>3, <1>5, <2>1, <2>2
<1> QED BY <1>4, <1>5

\* Who begins with a sequence has its elements.
LEMMA PrefixAt ==
    ASSUME NEW T, NEW p \in Seq(T), NEW old \in Seq(T), Len(old) <= Len(p),
           SubSeq(p, 1, Len(old)) = old, NEW i \in 1..Len(old)
    PROVE  i \in 1..Len(p) /\ p[i] = old[i]
<1>1. Len(old) \in Nat /\ Len(p) \in Nat /\ 1 <= Len(old)
  OBVIOUS
<1>2. SubSeq(p, 1, Len(old))[i] = p[i]
  BY <1>1
<1> QED BY <1>1, <1>2

(* Lanes that join keep their pages and get free ones, each for one lane.   *)
Allotted(S, new, pages) ==
    /\ \A l \in S : /\ Len(pages[l]) = PageCount(Len(lane[l].tokens) + Len(new[l]))
                    /\ pages[l] \in Seq(Pages)
    /\ \A l \in S : \A i \in 1..Len(lane[l].pages) : i \in 1..Len(pages[l]) /\ pages[l][i] = lane[l].pages[i]
    /\ \A l \in S : \A i \in Len(lane[l].pages) + 1..Len(pages[l]) : pages[l][i] \in FreePages
    /\ \A l, m \in S : \A i \in Len(lane[l].pages) + 1..Len(pages[l]) :
          \A k \in Len(lane[m].pages) + 1..Len(pages[m]) :
             pages[l][i] = pages[m][k] => l = m /\ i = k

\* What the allocator gives.
LEMMA PagesForIs ==
    ASSUME NEW S \in SUBSET Lanes, NEW new, NEW pages \in PagesFor(S, new), CompressTypeOK,
           Paged, Judged, \A l \in S : new[l] \in Seq(Token)
    PROVE  Allotted(S, new, pages)
<1>1. ASSUME NEW l \in S PROVE pages[l] \in Seq(Pages)
  <2> DEFINE all(m) == PageCount(Len(lane[m].tokens) + Len(new[m]))
  <2>1. pages[l] \in UNION {[1..all(m) -> Pages] : m \in S}
    BY Zenon DEF PagesFor
  <2>2. PICK m \in S : pages[l] \in [1..all(m) -> Pages]
    BY <2>1, Zenon
  <2>3. all(m) \in Nat
    <3> DEFINE x == Len(lane[m].tokens)  y == Len(new[m])
    <3>1. x \in Nat /\ y \in Nat
      BY <2>2, LaneOK
    <3> HIDE DEF x, y
    <3>2. x + y \in Nat
      BY <3>1
    <3> QED BY <3>2, PageCounts DEF x, y
  <2> HIDE DEF all
  <2> QED BY <2>2, <2>3
<1>2. \A l \in S : /\ Len(pages[l]) = PageCount(Len(lane[l].tokens) + Len(new[l]))
                   /\ SubSeq(pages[l], 1, Len(lane[l].pages)) = lane[l].pages
  BY Zenon DEF PagesFor
<1>3. \A l, m \in S : \A i \in Len(lane[l].pages) + 1..Len(pages[l]) :
         /\ pages[l][i] \in FreePages
         /\ \A k \in Len(lane[m].pages) + 1..Len(pages[m]) :
               pages[l][i] = pages[m][k] => l = m /\ i = k
  BY Zenon DEF PagesFor
<1>4. ASSUME NEW l \in S, NEW i \in 1..Len(lane[l].pages)
      PROVE  i \in 1..Len(pages[l]) /\ pages[l][i] = lane[l].pages[i]
  <2>1. lane[l].pages \in Seq(Pages) /\ pages[l] \in Seq(Pages)
    BY <1>1, LaneOK
  <2>2. l \in Lanes /\ Len(lane[l].pages) = PageCount(Len(lane[l].tokens))
    <3>1. drafts[l] = <<>> /\ lane[l].tokens \in Seq(Token)
      BY LaneOK DEF Judged
    <3>2. Known(l) = lane[l].tokens
      BY <3>1, ConcatEmptySeq DEF Known
    <3> QED BY <3>2 DEF Paged
  <2>3. Len(lane[l].pages) <= Len(pages[l])
    <3> DEFINE n == Len(lane[l].tokens)  k == Len(new[l])
    <3>1. n \in Nat /\ k \in Nat
      BY LaneOK
    <3> HIDE DEF n, k
    <3>2. n + k \in Nat /\ n <= n + k
      BY <3>1
    <3>3. PageCount(n) <= PageCount(n + k)
      BY <3>1, <3>2, PageCounts
    <3> QED BY <1>2, <2>2, <3>3 DEF n, k
  <2> QED BY <1>2, <2>1, <2>3, PrefixAt
<1>5. \A l \in S : /\ Len(pages[l]) = PageCount(Len(lane[l].tokens) + Len(new[l]))
                   /\ pages[l] \in Seq(Pages)
  BY <1>1, <1>2
<1>6. \A l \in S : \A i \in 1..Len(lane[l].pages) : i \in 1..Len(pages[l]) /\ pages[l][i] = lane[l].pages[i]
  BY <1>4
<1>7. \A l \in S : \A i \in Len(lane[l].pages) + 1..Len(pages[l]) : pages[l][i] \in FreePages
  BY <1>3, Zenon
<1>8. \A l, m \in S : \A i \in Len(lane[l].pages) + 1..Len(pages[l]) :
         \A k \in Len(lane[m].pages) + 1..Len(pages[m]) :
            pages[l][i] = pages[m][k] => l = m /\ i = k
  <2> TAKE l, m \in S
  <2> TAKE i \in Len(lane[l].pages) + 1..Len(pages[l])
  <2> TAKE k \in Len(lane[m].pages) + 1..Len(pages[m])
  <2> QED BY <1>3, Zenon
<1> QED BY <1>5, <1>6, <1>7, <1>8, Zenon DEF Allotted

\* A page of a lane after the allocation is the one it had, or was free.
LEMMA PageFrom ==
    ASSUME NEW S, NEW new, NEW pages, Allotted(S, new, pages), CompressTypeOK, NEW l \in Lanes,
           NEW i \in DOMAIN PagesAfter(S, pages)[l]
    PROVE  /\ i \in Nat
           /\ \/ i \in DOMAIN lane[l].pages /\ PagesAfter(S, pages)[l][i] = lane[l].pages[i]
              \/ /\ l \in S /\ i \in Len(lane[l].pages) + 1..Len(pages[l]) /\ pages[l][i] \in FreePages
                 /\ PagesAfter(S, pages)[l][i] = pages[l][i]
<1> DEFINE old == lane[l].pages
<1>1. old \in Seq(Pages) /\ DOMAIN old = 1..Len(old) /\ Len(old) \in Nat
  BY LaneOK
<1>2. CASE l \notin S
  <2>1. PagesAfter(S, pages)[l] = old
    BY <1>2 DEF PagesAfter
  <2> QED BY <1>1, <2>1
<1>3. CASE l \in S
  <2> DEFINE p == pages[l]
  <2>1. PagesAfter(S, pages)[l] = p
    BY <1>3 DEF PagesAfter
  <2>2. p \in Seq(Pages) /\ \A x \in 1..Len(old) : x \in 1..Len(p) /\ p[x] = old[x]
    BY <1>3 DEF Allotted
  <2>3. \A x \in Len(old) + 1..Len(p) : p[x] \in FreePages
    BY <1>3 DEF Allotted
  <2>4. i \in 1..Len(p) /\ i \in Nat /\ Len(p) \in Nat
    BY <2>1, <2>2
  <2> HIDE DEF p, old
  <2>5. i \in 1..Len(old) \/ i \in Len(old) + 1..Len(p)
    BY <1>1, <2>4
  <2> QED BY <1>1, <1>3, <2>1, <2>2, <2>3, <2>4, <2>5 DEF p, old
<1> QED BY <1>2, <1>3

\* No two lanes get the same page.
LEMMA ApartAfter ==
    ASSUME NEW S, NEW new, NEW pages, Allotted(S, new, pages), CompressTypeOK, Apart
    PROVE  ApartFor(PagesAfter(S, pages))
<1> DEFINE P == PagesAfter(S, pages)
<1> SUFFICES ASSUME NEW l \in Lanes, NEW m \in Lanes, NEW i \in DOMAIN P[l], NEW k \in DOMAIN P[m],
                    P[l][i] = P[m][k]
             PROVE  i = k /\ (l # m => /\ i * PageSize <= Len(lane[l].tokens)
                                       /\ i * PageSize <= Len(lane[m].tokens))
  BY DEF ApartFor
<1>1. \/ i \in DOMAIN lane[l].pages /\ P[l][i] = lane[l].pages[i]
      \/ l \in S /\ i \in Len(lane[l].pages) + 1..Len(pages[l]) /\ pages[l][i] \in FreePages
         /\ P[l][i] = pages[l][i]
  BY PageFrom
<1>2. \/ k \in DOMAIN lane[m].pages /\ P[m][k] = lane[m].pages[k]
      \/ m \in S /\ k \in Len(lane[m].pages) + 1..Len(pages[m]) /\ pages[m][k] \in FreePages
         /\ P[m][k] = pages[m][k]
  BY PageFrom
<1>3. ASSUME NEW q \in Lanes, NEW x \in DOMAIN lane[q].pages PROVE lane[q].pages[x] \notin FreePages
  <2>1. lane[q].pages[x] \in Range(lane[q].pages)
    BY DEF Range
  <2> QED BY <2>1 DEF FreePages
<1> HIDE DEF P
<1>4. CASE i \in DOMAIN lane[l].pages /\ P[l][i] = lane[l].pages[i]
  <2>1. P[l][i] \notin FreePages
    BY <1>3, <1>4
  <2>2. k \in DOMAIN lane[m].pages /\ P[m][k] = lane[m].pages[k]
    BY <1>2, <2>1
  <2> DEFINE Q == [q \in Lanes |-> lane[q].pages]
  <2>3. ApartFor(Q) /\ Q[l] = lane[l].pages /\ Q[m] = lane[m].pages
    BY DEF Apart
  <2> HIDE DEF Q
  <2>4. i \in DOMAIN Q[l] /\ k \in DOMAIN Q[m] /\ Q[l][i] = Q[m][k]
    BY <1>4, <2>2, <2>3
  <2> QED BY <2>3, <2>4 DEF ApartFor
<1>5. CASE l \in S /\ i \in Len(lane[l].pages) + 1..Len(pages[l]) /\ pages[l][i] \in FreePages
      /\ P[l][i] = pages[l][i]
  <2>1. m \in S /\ k \in Len(lane[m].pages) + 1..Len(pages[m]) /\ P[m][k] = pages[m][k]
    BY <1>2, <1>3, <1>5
  <2>2. pages[l][i] = pages[m][k]
    BY <1>5, <2>1
  <2>3. l = m /\ i = k
    BY <1>5, <2>1, <2>2 DEF Allotted
  <2> QED BY <2>3
<1> QED BY <1>1, <1>4, <1>5

\* Lanes join with the pages that the allocator gave.
LEMMA JoiningIs ==
    ASSUME NEW S \in SUBSET Lanes, NEW new, NEW pages, Allotted(S, new, pages), CompressTypeOK,
           \A l \in S : new[l] \in Seq(Token)
    PROVE  Joining(S, pages, new)
<1> QED BY DEF Joining, Allotted

\* A pair's old page is still its lane's.
LEMMA OldSlot ==
    ASSUME NEW S, NEW new, NEW pages, Allotted(S, new, pages), CompressTypeOK, Paged, Judged,
           Joining(S, pages, new),
           NEW l \in Lanes, NEW j \in Nat, 2 * j + 2 <= Len(lane[l].tokens)
    PROVE  Slot(PagesAfter(S, pages)[l], j) = Slot(lane[l].pages, j)
<1> DEFINE P == PagesAfter(S, pages)  x == j \div Half
<1>1. Len(lane[l].tokens) \in Nat /\ lane[l].pages \in Seq(Pages)
      /\ Len(lane[l].pages) = PageCount(Len(lane[l].tokens))
  BY LaneOK, AfterOK DEF Paged
<1>2. x < Len(lane[l].pages) /\ x \in Nat
  BY <1>1, PairHasPage
<1> HIDE DEF x
<1>3. x + 1 \in 1..Len(lane[l].pages)
  BY <1>1, <1>2
<1>4. P[l][x + 1] = lane[l].pages[x + 1]
  <2>1. CASE l \notin S
    BY <2>1 DEF PagesAfter
  <2>2. CASE l \in S
    BY <1>3, <2>2 DEF PagesAfter, Allotted
  <2> QED BY <2>1, <2>2
<1> QED BY <1>4 DEF Slot, x

\* Where the two tokens of a pair are when the new tokens have joined.
LEMMA ConcatAt ==
    ASSUME NEW T, NEW a \in Seq(T), NEW b \in Seq(T)
    PROVE  /\ \A i \in 1..Len(a) : (a \o b)[i] = a[i]
           /\ \A k \in 1..Len(b) : (a \o b)[Len(a) + k] = b[k]
           /\ Len(a \o b) = Len(a) + Len(b) /\ Len(a) \in Nat /\ Len(b) \in Nat
<1> QED BY ConcatProperties

(* Every pair that is complete when the new tokens have joined is then in   *)
(* its slot.                                                                *)
PairWritten(S, pages, new, cache, l, j) ==
    2 * j + 2 <= Len(TokensAfter(S, new, l)) =>
       cache[Slot(PagesAfter(S, pages)[l], j)] =
          <<TokensAfter(S, new, l)[2 * j + 1], TokensAfter(S, new, l)[2 * j + 2]>>

\* So it is for every lane and pair.
LEMMA WrittenAfter ==
    ASSUME NEW S, NEW new, NEW pages, NEW rows, NEW start, CompressInv, Judged,
           Allotted(S, new, pages), BatchOf(S, pages, new, rows, start),
           NEW l \in Lanes, NEW j \in Nat
    PROVE  PairWritten(S, pages, new, LatentAfter(rows), l, j)
<1> SUFFICES ASSUME 2 * j + 2 <= Len(TokensAfter(S, new, l))
             PROVE  LatentAfter(rows)[Slot(PagesAfter(S, pages)[l], j)] =
                       <<TokensAfter(S, new, l)[2 * j + 1], TokensAfter(S, new, l)[2 * j + 2]>>
  BY DEF PairWritten
<1> DEFINE p == PagesAfter(S, pages)[l]  whole == TokensAfter(S, new, l)  n == Len(lane[l].tokens)
           slot == Slot(p, j)
<1>1. CompressTypeOK /\ Paged /\ Apart /\ Written /\ Remembered /\ Joining(S, pages, new)
  BY DEF CompressInv, BatchOf
<1>2. p \in Seq(Pages) /\ Len(p) = PageCount(Len(whole)) /\ whole \in Seq(Token) /\ Known(l) = lane[l].tokens
  BY <1>1, AfterOK
<1>3. lane[l].tokens \in Seq(Token) /\ n \in Nat /\ drafts[l] = <<>>
  BY <1>1, LaneOK DEF Judged
<1>4. Len(whole) \in Nat
  BY <1>2
<1>5. j \div Half < Len(p) /\ j \div Half \in Nat
  BY <1>2, <1>4, PairHasPage
<1>6. ApartFor(PagesAfter(S, pages))
  BY <1>1, ApartAfter
<1>7. slot \in DOMAIN latent /\ slot # 0
  <2>1. slot \in 1..(NumPages + 1) * Half - 1
    BY <1>2, <1>5, SlotInside
  <2>2. (NumPages + 1) * Half \in Nat
    BY CompressSizes
  <2>3. DOMAIN latent = 0..(NumPages + 1) * Half - 1
    BY <1>1 DEF CompressTypeOK
  <2> HIDE DEF slot
  <2> QED BY <2>1, <2>2, <2>3
<1>8. ASSUME NEW i \in Completers(rows, slot)
      PROVE  l \in S /\ n <= 2 * j + 1 /\ i = start[l] + (2 * j + 2 - n)
  <2>1. HasPair(PagesAfter(S, pages)[l], j)
    BY <1>2, <1>5 DEF HasPair
  <2>2. i \in Completers(rows, Slot(PagesAfter(S, pages)[l], j))
    BY <1>8
  <2> HIDE DEF slot, n
  <2>3. SecondRow(S, start, l, j, i)
    BY <1>6, <2>1, <2>2, CompleterIs
  <2> QED BY <2>3, Zenon DEF SecondRow, n
<1>9. CASE 2 * j + 2 <= n
  <2>1. Completers(rows, slot) = {}
    <3> SUFFICES ASSUME NEW i \in Completers(rows, slot) PROVE FALSE OBVIOUS
    <3>1. n <= 2 * j + 1
      BY <1>8
    <3> HIDE DEF n, slot
    <3> QED BY <1>3, <1>9, <3>1
  <2>2. LatentAfter(rows)[slot] = latent[slot]
    BY <1>7, <2>1, LatentIs
  <2>3. slot = Slot(lane[l].pages, j)
    BY <1>1, <1>9, OldSlot
  <2>4. j \in 0..Visible(l) - 1
    <3>1. Visible(l) = n \div 2
      BY <1>2 DEF Visible
    <3> HIDE DEF n
    <3> QED BY <1>3, <1>9, <3>1
  <2>5. latent[slot] = <<lane[l].tokens[2 * j + 1], lane[l].tokens[2 * j + 2]>>
    BY <1>1, <1>2, <2>3, <2>4 DEF Written
  <2>6. whole[2 * j + 1] = lane[l].tokens[2 * j + 1] /\ whole[2 * j + 2] = lane[l].tokens[2 * j + 2]
    <3>1. 2 * j + 1 \in 1..n /\ 2 * j + 2 \in 1..n
      <4> HIDE DEF n
      <4> QED BY <1>3, <1>9
    <3>2. CASE l \in S
      <4>1. new[l] \in Seq(Token) /\ whole = lane[l].tokens \o new[l]
        <5>1. whole = lane[l].tokens \o new[l]
          BY <1>1, <3>2, AfterOK, Zenon
        <5>2. new[l] \in Seq(Token)
          BY <1>1, <3>2, Zenon DEF Joining
        <5> QED BY <5>1, <5>2, Zenon
      <4> QED BY <1>3, <3>1, <4>1, ConcatAt
    <3>3. CASE l \notin S
      BY <1>1, <3>3, AfterOK
    <3> QED BY <3>2, <3>3
  <2> QED BY <2>2, <2>5, <2>6
<1>10. CASE ~(2 * j + 2 <= n)
  <2>1. l \in S
    <3> SUFFICES ASSUME l \notin S PROVE FALSE OBVIOUS
    <3>1. whole = lane[l].tokens
      BY <1>1, AfterOK
    <3> QED BY <1>10, <3>1
  <2>2. new[l] \in Seq(Token) /\ pages[l] = p /\ whole = lane[l].tokens \o new[l]
    <3>1. whole = lane[l].tokens \o new[l]
      BY <1>1, <2>1, AfterOK, Zenon
    <3>2. pages[l] = p
      BY <2>1 DEF PagesAfter
    <3>3. new[l] \in Seq(Token)
      BY <1>1, <2>1, Zenon DEF Joining
    <3> QED BY <3>1, <3>2, <3>3, Zenon
  <2>3. /\ \A i \in 1..n : whole[i] = lane[l].tokens[i]
        /\ \A h \in 1..Len(new[l]) : whole[n + h] = new[l][h]
        /\ Len(whole) = n + Len(new[l]) /\ Len(new[l]) \in Nat
    <3> DEFINE a == lane[l].tokens  b == new[l]
    <3>1. a \in Seq(Token) /\ b \in Seq(Token) /\ whole = a \o b /\ n = Len(a)
      BY <1>3, <2>2
    <3> HIDE DEF a, b, whole, n
    <3>2. /\ \A i \in 1..Len(a) : (a \o b)[i] = a[i]
          /\ \A h \in 1..Len(b) : (a \o b)[Len(a) + h] = b[h]
          /\ Len(a \o b) = Len(a) + Len(b) /\ Len(a) \in Nat /\ Len(b) \in Nat
      BY <3>1, ConcatAt
    <3>3. /\ \A i \in 1..n : whole[i] = a[i]
          /\ \A h \in 1..Len(b) : whole[n + h] = b[h]
          /\ Len(whole) = n + Len(b) /\ Len(b) \in Nat
      BY <3>1, <3>2
    <3> QED BY <3>3 DEF a, b
  <2> DEFINE k == 2 * j + 2 - n
  <2>4. k \in 1..Len(new[l]) /\ n + k = 2 * j + 2 /\ k \in Nat
    <3> HIDE DEF n
    <3> QED BY <1>3, <1>4, <1>10, <2>3
  <2> HIDE DEF k
  <2>5. /\ start[l] + k \in DOMAIN rows /\ rows[start[l] + k].pos = n + k - 1
        /\ rows[start[l] + k].token = new[l][k] /\ rows[start[l] + k].loc = Loc(pages[l], n + k - 1)
    BY <2>1, <2>4, RowAt
  <2>6. n + k - 1 = 2 * j + 1 /\ (n + k - 1 + 1) % 2 = 0
    <3> HIDE DEF n
    <3>1. n + k - 1 = 2 * j + 1
      BY <1>3, <2>4
    <3>2. (2 * j + 1 + 1) % 2 = 0
      OBVIOUS
    <3> QED BY <3>1, <3>2
  <2>7. p[j \div Half + 1] \in Nat
    BY <1>2, <1>5, PageAt
  <2>8. OutLoc(rows[start[l] + k]) = slot
    <3>1. Loc(p, 2 * j + 1) \div 2 = slot
      BY <2>7, PairAt
    <3> HIDE DEF n, slot, p
    <3> QED BY <2>2, <2>5, <2>6, <3>1 DEF OutLoc
  <2>9. Completers(rows, slot) = {start[l] + k}
    <3>1. start[l] + k \in Completers(rows, slot)
      BY <2>5, <2>8 DEF Completers
    <3>2. \A i \in Completers(rows, slot) : i = start[l] + k
      BY <1>8 DEF k
    <3> HIDE DEF slot
    <3> QED BY <3>1, <3>2
  <2>10. LatentAfter(rows)[slot] = <<Partner(rows, start[l] + k), new[l][k]>>
    BY <1>7, <2>5, <2>9, LatentIs
  <2>11. new[l][k] = whole[2 * j + 2]
    BY <2>3, <2>4
  <2>12. Partner(rows, start[l] + k) = whole[2 * j + 1]
    <3>1. CASE k = 1
      <4>1. n = 2 * j + 1 /\ n \in 1..n /\ n % 2 = 1
        <5> HIDE DEF n
        <5> QED BY <1>3, <2>4, <3>1
      <4>2. Partner(rows, start[l] + k) = ring[l][(n - 1) % RingSize]
        BY <2>1, <2>4, <3>1, PartnerIs
      <4>3. ring[l][(n - 1) % RingSize] = lane[l].tokens[n]
        BY <1>1, <1>3, <4>1 DEF Remembered
      <4>4. whole[n] = lane[l].tokens[n]
        BY <2>3, <4>1
      <4> QED BY <4>1, <4>2, <4>3, <4>4
    <3>2. CASE k # 1
      <4>1. Partner(rows, start[l] + k) = new[l][k - 1]
        BY <2>1, <2>4, <3>2, PartnerIs
      <4>2. k - 1 \in 1..Len(new[l]) /\ n + (k - 1) = 2 * j + 1
        <5>1. n \in Nat /\ Len(new[l]) \in Nat
          BY <1>3, <2>3
        <5>2. k \in Nat /\ k # 1 /\ k \in 1..Len(new[l]) /\ n + k = 2 * j + 2
          BY <2>4, <3>2
        <5> HIDE DEF n
        <5> DEFINE c == Len(new[l])
        <5>3. c \in Nat /\ k \in 1..c
          BY <5>1, <5>2
        <5> HIDE DEF c
        <5>4. k - 1 \in 1..c /\ n + (k - 1) = 2 * j + 1
          BY <5>1, <5>2, <5>3
        <5> QED BY <5>4 DEF c
      <4>3. whole[n + (k - 1)] = new[l][k - 1]
        BY <2>3, <4>2
      <4> QED BY <4>1, <4>2, <4>3
    <3> QED BY <3>1, <3>2
  <2> QED BY <2>10, <2>11, <2>12
<1> QED BY <1>9, <1>10

(* What a batch does: pairs that are complete are in their slots, the last  *)
(* new tokens in the rings, and other rings stay.                           *)
Served(S, pages, new) ==
    /\ DOMAIN latent' = DOMAIN latent
    /\ \A l \in Lanes : \A j \in Nat : PairWritten(S, pages, new, latent', l, j)
    /\ \A l \in S : \A a \in 1..Len(new[l]) : a + RingSize > Len(new[l]) =>
          ring'[l][(Len(lane[l].tokens) + a - 1) % RingSize] = new[l][a]
    /\ \A l \in Lanes \ S : \A spot \in 0..RingSize - 1 : ring'[l][spot] = ring[l][spot]

\* A batch does so.
LEMMA BatchServes ==
    ASSUME NEW S \in SUBSET Lanes, NEW new, NEW pages \in PagesFor(S, new), NEW pads \in Nat,
           CompressInv, Judged, \A l \in S : new[l] \in Seq(Token),
           Forward(BatchRows(S, pages, new, pads))
    PROVE  Served(S, pages, new) /\ Allotted(S, new, pages) /\ Joining(S, pages, new)
<1> DEFINE rows == BatchRows(S, pages, new, pads)
<1>1. CompressTypeOK /\ Paged
  BY DEF CompressInv
<1>2. Allotted(S, new, pages)
  BY <1>1, PagesForIs
<1>3. Joining(S, pages, new)
  BY <1>1, <1>2, JoiningIs
<1>4. PICK start : Batched(S, pages, new, rows, start)
  BY <1>3, BatchRowsAre
<1>5. BatchOf(S, pages, new, rows, start)
  BY <1>3, <1>4 DEF BatchOf
<1>6. latent' = LatentAfter(rows) /\ ring' = RingAfter(rows)
  BY DEF Forward
<1> HIDE DEF rows
<1>7. DOMAIN latent' = DOMAIN latent
  BY <1>6, Zenon DEF LatentAfter
<1>8. ASSUME NEW l \in Lanes, NEW j \in Nat PROVE PairWritten(S, pages, new, latent', l, j)
  BY <1>2, <1>5, <1>6, WrittenAfter
<1>9. ASSUME NEW l \in S, NEW a \in 1..Len(new[l]), a + RingSize > Len(new[l])
      PROVE  ring'[l][(Len(lane[l].tokens) + a - 1) % RingSize] = new[l][a]
  BY <1>5, <1>6, <1>9, RingWrites
<1>10. ASSUME NEW l \in Lanes \ S, NEW spot \in 0..RingSize - 1 PROVE ring'[l][spot] = ring[l][spot]
  BY <1>5, <1>6, RingRest
<1> QED BY <1>2, <1>3, <1>7, <1>8, <1>9, <1>10 DEF Served

\* The lanes when the new tokens have joined, standing or as drafts.
Joined(S, pages, new) ==
    \A l \in Lanes : /\ Known(l)' = TokensAfter(S, new, l)
                     /\ lane'[l].pages = PagesAfter(S, pages)[l]
                     /\ Len(lane'[l].tokens) \in Nat /\ Len(lane[l].tokens) <= Len(lane'[l].tokens)

\* A batch keeps what concerns pages and pairs.
LEMMA BatchKeeps ==
    ASSUME NEW S, NEW pages, NEW new, CompressInv, Judged, Served(S, pages, new),
           Allotted(S, new, pages), Joining(S, pages, new), Joined(S, pages, new)
    PROVE  Paged' /\ Apart' /\ Written'
<1>1. CompressTypeOK /\ Paged /\ Apart
  BY DEF CompressInv
<1>2. \A l \in Lanes : Known(l)' = TokensAfter(S, new, l) /\ lane'[l].pages = PagesAfter(S, pages)[l]
  BY DEF Joined
<1>3. Paged'
  <2> SUFFICES ASSUME NEW l \in Lanes PROVE Len(lane'[l].pages) = PageCount(Len(Known(l)'))
    BY DEF Paged
  <2>1. Len(PagesAfter(S, pages)[l]) = PageCount(Len(TokensAfter(S, new, l)))
    BY <1>1, AfterOK
  <2> QED BY <1>2, <2>1
<1>4. Apart'
  <2> DEFINE Q == [l \in Lanes |-> lane'[l].pages]
  <2>1. ApartFor(PagesAfter(S, pages))
    BY <1>1, ApartAfter
  <2>2. \A l \in Lanes : Q[l] = PagesAfter(S, pages)[l]
    BY <1>2
  <2>3. \A l \in Lanes : /\ Len(lane[l].tokens) \in Nat /\ Len(lane'[l].tokens) \in Nat
                         /\ Len(lane[l].tokens) <= Len(lane'[l].tokens)
    BY <1>1, LaneOK DEF Joined
  <2>4. \A l \in Lanes : PagesAfter(S, pages)[l] \in Seq(Pages)
    BY <1>1, AfterOK
  <2> HIDE DEF Q
  <2>5. ASSUME NEW l \in Lanes, NEW m \in Lanes, NEW i \in DOMAIN Q[l], NEW k \in DOMAIN Q[m],
               Q[l][i] = Q[m][k]
        PROVE  i = k /\ (l # m => /\ i * PageSize <= Len(lane'[l].tokens)
                                  /\ i * PageSize <= Len(lane'[m].tokens))
    <3> DEFINE x == i * PageSize
    <3>1. i \in DOMAIN PagesAfter(S, pages)[l] /\ k \in DOMAIN PagesAfter(S, pages)[m]
          /\ PagesAfter(S, pages)[l][i] = PagesAfter(S, pages)[m][k]
      BY <2>2, <2>5
    <3>2. i = k /\ (l # m => x <= Len(lane[l].tokens) /\ x <= Len(lane[m].tokens))
      BY <2>1, <3>1 DEF ApartFor
    <3>3. x \in Nat
      <4>1. i \in Nat
        BY <2>4, <3>1
      <4> QED BY <4>1, CompressSizes
    <3> HIDE DEF x
    <3>4. l # m => x <= Len(lane'[l].tokens) /\ x <= Len(lane'[m].tokens)
      BY <2>3, <3>2, <3>3
    <3> QED BY <3>2, <3>4 DEF x
  <2> QED BY <2>5 DEF Apart, ApartFor, Q
<1>5. Written'
  <2> SUFFICES ASSUME NEW l \in Lanes, NEW j \in 0..Visible(l)' - 1
               PROVE  latent'[Slot(lane'[l].pages, j)] = <<Known(l)'[2 * j + 1], Known(l)'[2 * j + 2]>>
    BY DEF Written, Slot
  <2> DEFINE whole == TokensAfter(S, new, l)
  <2>1. Known(l)' = whole /\ lane'[l].pages = PagesAfter(S, pages)[l]
    BY <1>2
  <2>2. whole \in Seq(Token)
    BY <1>1, AfterOK
  <2>3. Visible(l)' = Len(whole) \div 2
    BY <2>1 DEF Visible
  <2> HIDE DEF whole
  <2>4. Len(whole) \in Nat
    BY <2>2
  <2>5. j \in Nat /\ 2 * j + 2 <= Len(whole)
    BY <2>3, <2>4
  <2>6. PairWritten(S, pages, new, latent', l, j)
    BY <2>5 DEF Served
  <2> QED BY <2>1, <2>5, <2>6 DEF PairWritten, whole
<1> QED BY <1>3, <1>4, <1>5

\* Lanes with one new token or more, of their own.
Arriving(S, new) == S \in SUBSET Lanes /\ \A l \in S : new[l] \in Seq(Token) /\ new[l] # <<>>

\* Whatever joins, the invariant stands.
LEMMA JoinKeeps ==
    ASSUME NEW S, NEW new, NEW pages \in PagesFor(S, new), NEW pads \in Nat,
           CompressInv, Judged, Arriving(S, new), Join(S, pages, new, pads)
    PROVE  CompressInv'
<1>1. CompressTypeOK /\ Paged /\ Remembered
  BY DEF CompressInv
<1>2. S \in SUBSET Lanes /\ \A l \in S : new[l] \in Seq(Token) /\ new[l] # <<>>
  BY DEF Arriving
<1>3. Served(S, pages, new) /\ Allotted(S, new, pages) /\ Joining(S, pages, new)
  <2>1. Forward(BatchRows(S, pages, new, pads))
    BY DEF Join
  <2> QED BY <1>2, <2>1, BatchServes
<1>4. drafts' = drafts /\ \A l \in Lanes : drafts[l] = <<>>
  BY DEF Join, Judged
<1>5. ASSUME NEW l \in Lanes
      PROVE  /\ lane'[l] \in [tokens : Seq(Token), pages : Seq(Pages), life : Nat, block : Nat]
             /\ lane'[l].tokens = TokensAfter(S, new, l)
             /\ lane'[l].pages = PagesAfter(S, pages)[l]
             /\ (l \notin S => lane'[l] = lane[l])
  <2>1. /\ TokensAfter(S, new, l) \in Seq(Token) /\ PagesAfter(S, pages)[l] \in Seq(Pages)
        /\ (l \in S => TokensAfter(S, new, l) = lane[l].tokens \o new[l])
        /\ (l \notin S => TokensAfter(S, new, l) = lane[l].tokens)
    BY <1>1, <1>3, AfterOK
  <2>2. lane'[l] = IF l \in S THEN [lane[l] EXCEPT !.tokens = @ \o new[l], !.pages = pages[l]] ELSE lane[l]
    BY DEF Join
  <2>3. lane[l] \in [tokens : Seq(Token), pages : Seq(Pages), life : Nat, block : Nat]
    BY <1>1 DEF CompressTypeOK
  <2>4. PagesAfter(S, pages)[l] = IF l \in S THEN pages[l] ELSE lane[l].pages
    BY DEF PagesAfter
  <2>5. CASE l \in S
    <3>1. lane'[l] = [lane[l] EXCEPT !.tokens = TokensAfter(S, new, l), !.pages = PagesAfter(S, pages)[l]]
      BY <2>1, <2>2, <2>4, <2>5
    <3> QED BY <2>1, <2>3, <2>5, <3>1
  <2>6. CASE l \notin S
    BY <2>1, <2>2, <2>3, <2>4, <2>6
  <2> QED BY <2>5, <2>6
<1>6. ASSUME NEW l \in Lanes
      PROVE  /\ Known(l)' = TokensAfter(S, new, l)
             /\ Len(lane'[l].tokens) \in Nat /\ Len(lane[l].tokens) <= Len(lane'[l].tokens)
  <2> DEFINE whole == TokensAfter(S, new, l)
  <2>1. whole \in Seq(Token) /\ lane'[l].tokens = whole /\ drafts'[l] = <<>>
    BY <1>1, <1>3, <1>4, <1>5, AfterOK
  <2>2. whole \o <<>> = whole
    <3> HIDE DEF whole
    <3> QED BY <2>1, ConcatEmptySeq
  <2>3. Known(l)' = whole
    BY <2>1, <2>2 DEF Known
  <2>4. Len(lane[l].tokens) <= Len(whole)
    <3>1. CASE l \in S
      <4>1. whole = lane[l].tokens \o new[l]
        BY <1>1, <1>3, <3>1, AfterOK, Zenon
      <4>2. new[l] \in Seq(Token) /\ lane[l].tokens \in Seq(Token)
        BY <1>1, <1>2, <3>1, LaneOK
      <4>3. Len(whole) = Len(lane[l].tokens) + Len(new[l]) /\ Len(lane[l].tokens) \in Nat
            /\ Len(new[l]) \in Nat
        BY <4>1, <4>2, ConcatAt
      <4> DEFINE x == Len(lane[l].tokens)  y == Len(new[l])
      <4>4. Len(whole) = x + y /\ x \in Nat /\ y \in Nat
        BY <4>3
      <4> HIDE DEF whole, x, y
      <4>5. x <= Len(whole)
        BY <4>4
      <4> QED BY <4>5 DEF x
    <3>2. CASE l \notin S
      <4>1. whole = lane[l].tokens
        BY <1>1, <1>3, <3>2, AfterOK, Zenon
      <4>2. Len(whole) \in Nat
        BY <2>1
      <4> HIDE DEF whole
      <4>3. Len(whole) <= Len(whole)
        BY <4>2
      <4> QED BY <4>1, <4>3
    <3> QED BY <3>1, <3>2
  <2> QED BY <2>1, <2>3, <2>4
<1>7. Joined(S, pages, new)
  BY <1>5, <1>6 DEF Joined
<1>8. Paged' /\ Apart' /\ Written'
  BY <1>3, <1>7, BatchKeeps
<1>9. CompressTypeOK'
  <2>1. lane' \in [Lanes -> [tokens : Seq(Token), pages : Seq(Pages), life : Nat, block : Nat]]
    <3>1. DOMAIN lane' = Lanes /\ lane' = [l \in Lanes |-> lane'[l]]
      BY DEF Join
    <3> QED BY <1>5, <3>1
  <2> QED BY <1>1, <1>3, <1>4, <2>1 DEF CompressTypeOK, Served, Half
<1>10. ASSUME NEW l \in Lanes, Len(lane'[l].tokens) % 2 = 1
       PROVE  ring'[l][(Len(lane'[l].tokens) - 1) % RingSize] = lane'[l].tokens[Len(lane'[l].tokens)]
  <2> DEFINE n == Len(lane[l].tokens)
  <2>1. RingSize \in Nat \ {0} /\ n \in Nat
    BY <1>1, CompressSizes, LaneOK
  <2>2. CASE l \in S
    <3> DEFINE k == Len(new[l])
    <3>1. new[l] \in Seq(Token) /\ lane[l].tokens \in Seq(Token) /\ new[l] # <<>>
      BY <1>1, <1>2, <2>2, LaneOK
    <3>2. k \in 1..k /\ k \in Nat
      BY <3>1
    <3>3. lane'[l].tokens = lane[l].tokens \o new[l]
      <4>1. TokensAfter(S, new, l) = lane[l].tokens \o new[l]
        BY <1>1, <1>3, <2>2, AfterOK, Zenon
      <4> QED BY <1>5, <4>1
    <3>4. Len(lane'[l].tokens) = n + k /\ lane'[l].tokens[n + k] = new[l][k]
      <4> DEFINE a == lane[l].tokens  b == new[l]
      <4>1. a \in Seq(Token) /\ b \in Seq(Token) /\ Len(b) \in 1..Len(b) /\ lane'[l].tokens = a \o b
        BY <3>1, <3>2, <3>3
      <4>2. Len(a) = n /\ Len(b) = k
        OBVIOUS
      <4> HIDE DEF a, b, n, k
      <4>3. Len(a \o b) = Len(a) + Len(b) /\ (a \o b)[Len(a) + Len(b)] = b[Len(b)]
        BY <4>1, ConcatAt
      <4>4. Len(lane'[l].tokens) = n + k /\ lane'[l].tokens[n + k] = b[k]
        BY <4>1, <4>2, <4>3
      <4> QED BY <4>4 DEF b
    <3>5. k + RingSize > k
      <4> HIDE DEF k
      <4> QED BY <2>1, <3>2
    <3>6. ring'[l][(n + k - 1) % RingSize] = new[l][k]
      BY <1>3, <2>2, <3>2, <3>5 DEF Served
    <3> HIDE DEF n, k
    <3>7. Len(lane'[l].tokens) - 1 = n + k - 1
      BY <2>1, <3>2, <3>4
    <3> QED BY <3>4, <3>6, <3>7, Zenon
  <2>3. CASE l \notin S
    <3>1. lane'[l].tokens = lane[l].tokens
      BY <1>5, <2>3
    <3>2. ring[l][(n - 1) % RingSize] = lane[l].tokens[n]
      BY <1>1, <1>4, <1>10, <3>1 DEF Remembered
    <3>3. (n - 1) % RingSize \in 0..RingSize - 1
      <4>1. n % 2 = 1
        BY <1>10, <3>1
      <4> HIDE DEF n
      <4>2. n - 1 \in Nat
        BY <2>1, <4>1
      <4> QED BY <2>1, <4>2, ModIs
    <3>4. ring'[l][(n - 1) % RingSize] = ring[l][(n - 1) % RingSize]
      BY <1>3, <2>3, <3>3 DEF Served
    <3> QED BY <3>1, <3>2, <3>4
  <2> QED BY <2>2, <2>3
<1>11. Remembered'
  <2>1. \A l \in Lanes : drafts'[l] = <<>> /\ Len(drafts'[l]) = 0 /\ 1..Len(drafts'[l]) = {}
    BY <1>4
  <2>2. 0 <= DraftLen
    BY CompressSizes
  <2> QED BY <1>10, <2>1, <2>2 DEF Remembered
<1> QED BY <1>8, <1>9, <1>11 DEF CompressInv

\* A new token is a token.
LEMMA NewIs ==
    ASSUME CompressTypeOK, NEW l \in Lanes, NEW n \in Nat
    PROVE  New(l, n) \in Seq(Token) /\ Len(New(l, n)) = n
<1> DEFINE m == Len(lane[l].tokens)
<1>1. m \in Nat /\ lane[l].life \in Nat /\ lane[l].block \in Nat
  BY LaneOK
<1>2. New(l, n) = [i \in 1..n |-> <<l, lane[l].life, lane[l].block, m + i - 1>>]
  BY DEF New
<1> HIDE DEF m
<1>3. \A i \in 1..n : <<l, lane[l].life, lane[l].block, m + i - 1>> \in Token
  BY <1>1 DEF Token
<1>4. New(l, n) \in [1..n -> Token]
  BY <1>2, <1>3
<1> QED BY <1>4

\* A block of drafts keeps the invariant.
LEMMA DraftsKeep ==
    ASSUME CompressInv, NEW pads \in Nat, VerifyBlock([l \in Serving |-> New(l, DraftLen)], pads)
    PROVE  CompressInv'
<1> DEFINE S == Serving  new == [l \in S |-> New(l, DraftLen)]
<1>1. CompressTypeOK /\ Paged /\ Remembered
  BY DEF CompressInv
<1>2. Judged /\ drafts' = [l \in Lanes |-> IF l \in S THEN new[l] ELSE <<>>]
  BY DEF VerifyBlock
<1>3. PICK pages \in PagesFor(S, new) :
         /\ lane' = [l \in Lanes |-> IF l \in S THEN [lane[l] EXCEPT !.pages = pages[l]] ELSE lane[l]]
         /\ Forward(BatchRows(S, pages, new, pads))
  BY Zenon DEF VerifyBlock
<1>4. S \in SUBSET Lanes /\ \A l \in S : new[l] \in Seq(Token) /\ Len(new[l]) = DraftLen
  <2>1. DraftLen \in Nat
    BY CompressSizes
  <2> QED BY <1>1, <2>1, NewIs DEF Serving
<1>5. \A l \in Lanes \ S : lane[l].tokens = <<>>
  BY DEF Serving
<1> HIDE DEF S, new
<1>6. Served(S, pages, new) /\ Allotted(S, new, pages) /\ Joining(S, pages, new)
  BY <1>2, <1>3, <1>4, BatchServes
<1>7. ASSUME NEW l \in Lanes
      PROVE  /\ lane'[l] \in [tokens : Seq(Token), pages : Seq(Pages), life : Nat, block : Nat]
             /\ lane'[l].tokens = lane[l].tokens
             /\ lane'[l].pages = PagesAfter(S, pages)[l]
             /\ Known(l)' = TokensAfter(S, new, l)
             /\ drafts'[l] = IF l \in S THEN new[l] ELSE <<>>
  <2>1. lane[l] \in [tokens : Seq(Token), pages : Seq(Pages), life : Nat, block : Nat]
    BY <1>1 DEF CompressTypeOK
  <2>2. lane'[l] = IF l \in S THEN [lane[l] EXCEPT !.pages = pages[l]] ELSE lane[l]
    BY <1>3
  <2>3. PagesAfter(S, pages)[l] = IF l \in S THEN pages[l] ELSE lane[l].pages
    BY DEF PagesAfter
  <2>4. PagesAfter(S, pages)[l] \in Seq(Pages)
    BY <1>1, <1>2, <1>6, AfterOK
  <2>5. drafts'[l] = IF l \in S THEN new[l] ELSE <<>>
    BY <1>2
  <2>6. /\ lane'[l] \in [tokens : Seq(Token), pages : Seq(Pages), life : Nat, block : Nat]
        /\ lane'[l].tokens = lane[l].tokens /\ lane'[l].pages = PagesAfter(S, pages)[l]
    BY <2>1, <2>2, <2>3, <2>4
  <2>7. Known(l)' = TokensAfter(S, new, l)
    BY <2>5, <2>6 DEF Known, TokensAfter
  <2> QED BY <2>5, <2>6, <2>7
<1>8. Joined(S, pages, new)
  <2>1. \A l \in Lanes : Len(lane[l].tokens) \in Nat
    BY <1>1, LaneOK
  <2>2. \A x \in Nat : x <= x
    OBVIOUS
  <2> QED BY <1>7, <2>1, <2>2 DEF Joined
<1>9. Paged' /\ Apart' /\ Written'
  BY <1>2, <1>6, <1>8, BatchKeeps
<1>10. CompressTypeOK'
  <2>1. lane' \in [Lanes -> [tokens : Seq(Token), pages : Seq(Pages), life : Nat, block : Nat]]
    <3>1. lane' = [l \in Lanes |-> lane'[l]]
      BY <1>3
    <3> QED BY <1>7, <3>1
  <2>2. drafts' \in [Lanes -> Seq(Token)]
    BY <1>2, <1>4
  <2> QED BY <1>1, <1>6, <2>1, <2>2 DEF CompressTypeOK, Served, Half
<1>11. Remembered'
  <2>1. DraftLen \in Nat \ {0} /\ DraftLen <= RingSize /\ RingSize \in Nat \ {0}
    BY CompressSizes
  <2>2. ASSUME NEW l \in Lanes
        PROVE  /\ drafts'[l] = <<>> /\ Len(lane'[l].tokens) % 2 = 1 =>
                     ring'[l][(Len(lane'[l].tokens) - 1) % RingSize] = lane'[l].tokens[Len(lane'[l].tokens)]
               /\ \A a \in 1..Len(drafts'[l]) :
                     ring'[l][(Len(lane'[l].tokens) + a - 1) % RingSize] = drafts'[l][a]
               /\ Len(drafts'[l]) <= DraftLen
    <3>1. CASE l \in S
      <4>1. drafts'[l] = new[l] /\ lane'[l].tokens = lane[l].tokens /\ Len(new[l]) = DraftLen
        BY <1>4, <1>7, <3>1
      <4>2. drafts'[l] # <<>>
        BY <2>1, <4>1
      <4>3. \A a \in 1..Len(new[l]) : a + RingSize > Len(new[l])
        BY <2>1, <4>1
      <4>4. \A a \in 1..Len(new[l]) : ring'[l][(Len(lane[l].tokens) + a - 1) % RingSize] = new[l][a]
        BY <1>6, <3>1, <4>3 DEF Served
      <4>5. Len(drafts'[l]) <= DraftLen
        BY <2>1, <4>1
      <4> QED BY <4>1, <4>2, <4>4, <4>5
    <3>2. CASE l \notin S
      <4>1. drafts'[l] = <<>> /\ lane'[l].tokens = <<>>
        BY <1>5, <1>7, <3>2
      <4>2. Len(<<>>) = 0 /\ 0 % 2 # 1 /\ 0 <= DraftLen /\ 1..0 = {}
        BY <2>1
      <4> QED BY <4>1, <4>2
    <3> QED BY <3>1, <3>2
  <2> QED BY <2>2, Zenon DEF Remembered
<1> QED BY <1>9, <1>10, <1>11 DEF CompressInv

\* Only a lane that serves has pages.
LEMMA IdleIs ==
    ASSUME CompressTypeOK, Paged, Judged, NEW l \in Lanes
    PROVE  /\ Known(l) = lane[l].tokens /\ drafts[l] = <<>>
           /\ Len(lane[l].pages) = PageCount(Len(lane[l].tokens))
           /\ l \notin Serving => lane[l].tokens = <<>> /\ lane[l].pages = <<>>
<1>1. /\ drafts[l] = <<>> /\ lane[l].tokens \in Seq(Token) /\ lane[l].pages \in Seq(Pages)
  BY LaneOK DEF Judged
<1>2. Known(l) = lane[l].tokens
  BY <1>1, ConcatEmptySeq DEF Known
<1>3. Len(lane[l].pages) = PageCount(Len(lane[l].tokens))
  BY <1>2 DEF Paged
<1>4. ASSUME l \notin Serving PROVE lane[l].tokens = <<>> /\ lane[l].pages = <<>>
  <2>1. lane[l].tokens = <<>>
    BY <1>4 DEF Serving
  <2>2. Len(lane[l].pages) = 0
    BY <1>3, <2>1, PageCounts
  <2> QED BY <1>1, <2>1, <2>2
<1> QED BY <1>1, <1>2, <1>3, <1>4

\* A request that begins with another's whole pages keeps the invariant.
LEMMA ShareKeeps ==
    ASSUME CompressInv, NEW l \in Lanes, NEW q \in Lanes, NEW n \in 1..MaxTokens \div PageSize, Share(l, q, n)
    PROVE  CompressInv'
<1> DEFINE tokens == SubSeq(lane[q].tokens, 1, n * PageSize)  pages == SubSeq(lane[q].pages, 1, n)
           end == n * PageSize
<1>1. CompressTypeOK /\ Paged /\ Apart /\ Written /\ Remembered
  BY DEF CompressInv
<1>2. /\ Judged /\ l \notin Serving /\ end <= Len(lane[q].tokens)
      /\ lane' = [lane EXCEPT ![l].tokens = tokens, ![l].pages = pages]
      /\ drafts' = drafts /\ ring' = ring /\ latent' = latent
  BY DEF Share
<1>3. PageSize \in Nat \ {0} /\ PageSize = 2 * Half /\ Half \in Nat \ {0} /\ n \in Nat \ {0}
  <2>1. MaxTokens \div PageSize \in Nat
    BY CompressSizes, DivIs
  <2> QED BY <2>1, CompressSizes
<1>4. end \in Nat \ {0} /\ end % 2 = 0 /\ end \div 2 = n * Half /\ PageCount(end) = n
  <2>1. end = 2 * (n * Half) /\ n * Half \in Nat \ {0}
    BY <1>3, Z3
  <2>2. PageCount(end) = n
    BY <1>3, PageCounts
  <2> DEFINE h == n * Half
  <2> HIDE DEF h, end
  <2>3. end % 2 = 0 /\ end \div 2 = h /\ end \in Nat \ {0}
    BY <2>1 DEF h
  <2> QED BY <2>2, <2>3 DEF h
<1>5. /\ lane[q].tokens \in Seq(Token) /\ lane[q].pages \in Seq(Pages)
      /\ Len(lane[q].pages) = PageCount(Len(lane[q].tokens))
      /\ Known(q) = lane[q].tokens /\ Len(lane[q].tokens) \in Nat /\ Len(lane[q].pages) \in Nat
      /\ lane[l].tokens = <<>> /\ lane[l].pages = <<>>
  BY <1>1, <1>2, IdleIs, LaneOK
<1>6. n <= Len(lane[q].pages)
  <2> HIDE DEF end
  <2> QED BY <1>2, <1>4, <1>5, PageCounts
<1> HIDE DEF end
<1>7. /\ tokens \in Seq(Token) /\ Len(tokens) = end
      /\ \A i \in 1..end : tokens[i] = lane[q].tokens[i]
  BY <1>2, <1>4, <1>5, SubSeqProperties DEF end
<1>8. /\ pages \in Seq(Pages) /\ Len(pages) = n
      /\ \A i \in 1..n : pages[i] = lane[q].pages[i]
  BY <1>3, <1>5, <1>6, SubSeqProperties
<1> HIDE DEF tokens, pages
<1>9. ASSUME NEW m \in Lanes
      PROVE  /\ lane'[m] \in [tokens : Seq(Token), pages : Seq(Pages), life : Nat, block : Nat]
             /\ m = l => lane'[m].tokens = tokens /\ lane'[m].pages = pages
             /\ m # l => lane'[m] = lane[m]
             /\ drafts'[m] = <<>> /\ Known(m)' = lane'[m].tokens
             /\ Known(m) = lane[m].tokens
  <2>1. lane \in [Lanes -> [tokens : Seq(Token), pages : Seq(Pages), life : Nat, block : Nat]]
    BY <1>1 DEF CompressTypeOK
  <2>2. /\ lane'[m] \in [tokens : Seq(Token), pages : Seq(Pages), life : Nat, block : Nat]
        /\ m = l => lane'[m].tokens = tokens /\ lane'[m].pages = pages
        /\ m # l => lane'[m] = lane[m]
    BY <1>2, <1>7, <1>8, <2>1
  <2>3. drafts'[m] = <<>> /\ Known(m) = lane[m].tokens
    BY <1>1, <1>2, IdleIs
  <2>4. lane'[m].tokens \in Seq(Token)
    BY <2>2
  <2>5. Known(m)' = lane'[m].tokens
    BY <2>3, <2>4, ConcatEmptySeq DEF Known
  <2> QED BY <2>2, <2>3, <2>5
<1>10. CompressTypeOK'
  <2>1. lane' \in [Lanes -> [tokens : Seq(Token), pages : Seq(Pages), life : Nat, block : Nat]]
    <3>1. DOMAIN lane' = Lanes /\ lane' = [m \in Lanes |-> lane'[m]]
      BY <1>1, <1>2 DEF CompressTypeOK
    <3> QED BY <1>9, <3>1
  <2> QED BY <1>1, <1>2, <2>1 DEF CompressTypeOK, Half
<1>11. Paged'
  <2> SUFFICES ASSUME NEW m \in Lanes PROVE Len(lane'[m].pages) = PageCount(Len(Known(m)'))
    BY DEF Paged
  <2>1. CASE m = l
    <3>1. lane'[m].pages = pages /\ Known(m)' = tokens
      BY <1>9, <2>1
    <3>2. Len(pages) = n /\ Len(tokens) = end /\ PageCount(end) = n
      BY <1>4, <1>7, <1>8
    <3> QED BY <3>1, <3>2, Zenon
  <2>2. CASE m # l
    <3>1. lane'[m].pages = lane[m].pages /\ Known(m)' = lane[m].tokens
      BY <1>9, <2>2
    <3>2. Len(lane[m].pages) = PageCount(Len(lane[m].tokens))
      BY <1>1, <1>2, IdleIs
    <3> QED BY <3>1, <3>2, Zenon
  <2> QED BY <2>1, <2>2
<1>12. Apart'
  <2> DEFINE old == [m \in Lanes |-> lane[m].pages]  Q == [m \in Lanes |-> lane'[m].pages]
             as(m) == IF m = l THEN q ELSE m
  <2>1. ApartFor(old) /\ \A m \in Lanes : old[m] = lane[m].pages
    BY <1>1 DEF Apart
  <2>2. \A m \in Lanes : Q[m] = lane'[m].pages
    OBVIOUS
  <2> HIDE DEF old, Q
  <2>3. ASSUME NEW m \in Lanes, NEW i \in DOMAIN Q[m]
        PROVE  i \in DOMAIN old[as(m)] /\ Q[m][i] = old[as(m)][i] /\ i \in Nat /\ (m = l => i <= n)
    <3>1. CASE m = l
      <4>1. Q[m] = pages /\ old[as(m)] = lane[q].pages
        BY <1>9, <2>1, <2>2, <3>1
      <4>2. i \in 1..n
        BY <1>3, <1>8, <2>3, <4>1
      <4>3. i \in 1..Len(lane[q].pages) /\ i \in Nat /\ i <= n
        BY <1>3, <1>5, <1>6, <4>2
      <4> QED BY <1>5, <1>8, <4>1, <4>2, <4>3
    <3>2. CASE m # l
      <4>1. Q[m] = lane[m].pages /\ old[as(m)] = lane[m].pages /\ lane[m].pages \in Seq(Pages)
        BY <1>1, <1>9, <2>1, <2>2, <3>2, LaneOK
      <4> QED BY <2>3, <3>2, <4>1
    <3> QED BY <3>1, <3>2
  <2>4. ASSUME NEW m \in Lanes, NEW o \in Lanes, NEW i \in DOMAIN Q[m], NEW k \in DOMAIN Q[o],
               Q[m][i] = Q[o][k]
        PROVE  i = k /\ (m # o => /\ i * PageSize <= Len(lane'[m].tokens)
                                  /\ i * PageSize <= Len(lane'[o].tokens))
    <3> DEFINE x == i * PageSize
    <3>1. /\ as(m) \in Lanes /\ as(o) \in Lanes
          /\ i \in DOMAIN old[as(m)] /\ k \in DOMAIN old[as(o)] /\ old[as(m)][i] = old[as(o)][k]
          /\ i \in Nat /\ k \in Nat /\ (m = l => i <= n) /\ (o = l => k <= n)
      BY <2>3, <2>4
    <3>2. i = k /\ (as(m) # as(o) => x <= Len(lane[as(m)].tokens) /\ x <= Len(lane[as(o)].tokens))
      <4> HIDE DEF as
      <4> QED BY <2>1, <3>1 DEF ApartFor
    <3>3. x \in Nat
      BY <1>3, <3>1
    <3>4. m = l \/ o = l => x <= end
      <4>1. m = l \/ o = l => i <= n
        BY <3>1, <3>2
      <4> QED BY <1>3, <3>1, <4>1, MulMono DEF end
    <3> HIDE DEF x
    <3>5. lane'[l].tokens = tokens /\ Len(tokens) = end /\ end <= Len(lane[q].tokens)
      BY <1>2, <1>7, <1>9
    <3>6. ASSUME m # o PROVE x <= Len(lane'[m].tokens) /\ x <= Len(lane'[o].tokens)
      <4>1. CASE m = l
        <5>1. lane'[o] = lane[o]
          BY <1>9, <3>6, <4>1
        <5>2. x <= Len(lane[o].tokens)
          <6>1. CASE o = q
            BY <1>4, <1>5, <3>3, <3>4, <3>5, <4>1, <6>1
          <6>2. CASE o # q
            BY <3>2, <3>6, <4>1, <6>2
          <6> QED BY <6>1, <6>2
        <5> QED BY <3>4, <3>5, <4>1, <5>1, <5>2
      <4>2. CASE o = l
        <5>1. lane'[m] = lane[m]
          BY <1>9, <3>6, <4>2
        <5>2. x <= Len(lane[m].tokens)
          <6>1. CASE m = q
            BY <1>4, <1>5, <3>3, <3>4, <3>5, <4>2, <6>1
          <6>2. CASE m # q
            BY <3>2, <3>6, <4>2, <6>2
          <6> QED BY <6>1, <6>2
        <5> QED BY <3>4, <3>5, <4>2, <5>1, <5>2
      <4>3. CASE m # l /\ o # l
        BY <1>9, <3>2, <3>6, <4>3
      <4> QED BY <4>1, <4>2, <4>3
    <3> QED BY <3>2, <3>6 DEF x
  <2> QED BY <2>4 DEF Apart, ApartFor, Q
<1>13. Written'
  <2> SUFFICES ASSUME NEW m \in Lanes, NEW j \in 0..Visible(m)' - 1
               PROVE  latent'[Slot(lane'[m].pages, j)] = <<Known(m)'[2 * j + 1], Known(m)'[2 * j + 2]>>
    BY DEF Written, Slot
  <2>1. CASE m = l
    <3>1. Visible(m)' = n * Half /\ n * Half \in Nat
      <4>1. Known(m)' = tokens
        BY <1>9, <2>1
      <4>2. Visible(m)' = end \div 2
        BY <1>7, <4>1 DEF Visible
      <4> QED BY <1>3, <1>4, <4>2
    <3> DEFINE h == n * Half
    <3>2. j \in Nat /\ 2 * j + 2 <= end
      <4>1. end = 2 * h
        BY <1>3, Z3 DEF end
      <4> HIDE DEF h
      <4> QED BY <3>1, <4>1 DEF h
    <3>3. j \div Half < n /\ j \div Half \in Nat
      BY <1>4, <3>2, PairHasPage
    <3>4. Slot(pages, j) = Slot(lane[q].pages, j)
      <4>1. j \div Half + 1 \in 1..n
        BY <1>3, <3>3
      <4> QED BY <1>8, <4>1 DEF Slot
    <3>5. 2 * j + 1 \in 1..end /\ 2 * j + 2 \in 1..end
      BY <1>4, <3>2
    <3>6. j \in 0..Visible(q) - 1
      <4> DEFINE z == Len(lane[q].tokens)
      <4>1. Visible(q) = z \div 2 /\ z \in Nat /\ 2 * j + 2 <= z
        BY <1>2, <1>4, <1>5, <3>2 DEF Visible
      <4> HIDE DEF z
      <4> QED BY <3>2, <4>1
    <3>7. latent[Slot(lane[q].pages, j)] = <<lane[q].tokens[2 * j + 1], lane[q].tokens[2 * j + 2]>>
      BY <1>1, <1>5, <3>6 DEF Written
    <3>8. tokens[2 * j + 1] = lane[q].tokens[2 * j + 1] /\ tokens[2 * j + 2] = lane[q].tokens[2 * j + 2]
      BY <1>7, <3>5
    <3> QED BY <1>2, <1>9, <2>1, <3>4, <3>7, <3>8
  <2>2. CASE m # l
    <3>1. Visible(m)' = Visible(m) /\ Known(m)' = Known(m) /\ lane'[m].pages = lane[m].pages
      BY <1>9, <2>2 DEF Visible
    <3> QED BY <1>1, <1>2, <3>1 DEF Written
  <2> QED BY <2>1, <2>2
<1>14. Remembered'
  <2>1. \A m \in Lanes : lane'[m].tokens = lane[m].tokens \/ Len(lane'[m].tokens) % 2 # 1
    <3> TAKE m \in Lanes
    <3>1. CASE m = l
      <4>1. lane'[m].tokens = tokens
        BY <1>9, <3>1
      <4>2. end % 2 # 1
        BY <1>4
      <4> QED BY <1>7, <4>1, <4>2
    <3>2. CASE m # l
      BY <1>9, <3>2
    <3> QED BY <3>1, <3>2
  <2>2. \A m \in Lanes : drafts'[m] = <<>> /\ drafts[m] = <<>> /\ Len(drafts'[m]) = 0
        /\ 1..Len(drafts'[m]) = {}
    BY <1>2, <1>9
  <2>3. 0 <= DraftLen
    BY CompressSizes
  <2> QED BY <1>1, <1>2, <2>1, <2>2, <2>3 DEF Remembered
<1> QED BY <1>10, <1>11, <1>12, <1>13, <1>14 DEF CompressInv

\* A judgement keeps the invariant.
LEMMA JudgementKeeps ==
    ASSUME CompressInv, NEW accepted \in [Lanes -> 0..DraftLen], Judgement(accepted)
    PROVE  CompressInv'
<1>1. CompressTypeOK /\ Paged /\ Apart /\ Written /\ Remembered
  BY DEF CompressInv
<1> DEFINE standing(l) == lane[l].tokens \o SubSeq(drafts[l], 1, accepted[l])
           kept(l) == SubSeq(lane[l].pages, 1, PageCount(Len(standing(l))))
<1>2. /\ \A l \in Lanes : IF drafts[l] = <<>> THEN accepted[l] = 0
                          ELSE accepted[l] \in 1..Len(drafts[l])
      /\ lane' = [l \in Lanes |->
            [lane[l] EXCEPT !.tokens = standing(l), !.block = @ + 1, !.pages = kept(l)]]
      /\ drafts' = [l \in Lanes |-> <<>>] /\ ring' = ring /\ latent' = latent
  BY DEF Judgement
<1> DEFINE Standing(l) == Len(lane[l].tokens)
<1>3. ASSUME NEW l \in Lanes
      PROVE  /\ standing(l) \in Seq(Token) /\ accepted[l] \in Nat /\ accepted[l] <= Len(drafts[l])
             /\ Standing(l) \in Nat /\ Len(standing(l)) = Standing(l) + accepted[l] /\ Len(drafts[l]) \in Nat
             /\ \A i \in 1..Len(standing(l)) : standing(l)[i] = Known(l)[i]
             /\ Known(l) \in Seq(Token) /\ Len(Known(l)) = Standing(l) + Len(drafts[l])
             /\ \A a \in 1..Len(drafts[l]) : Known(l)[Standing(l) + a] = drafts[l][a]
  <2> DEFINE a == lane[l].tokens  b == drafts[l]  k == accepted[l]  c == SubSeq(b, 1, k)
  <2>1. a \in Seq(Token) /\ b \in Seq(Token)
    BY <1>1, LaneOK
  <2>2. k \in 0..Len(b)
    <3>1. (b = <<>> => k = 0) /\ (b # <<>> => k \in 1..Len(b))
      BY <1>2
    <3> HIDE DEF b, k
    <3>2. Len(b) \in Nat
      BY <2>1
    <3> QED BY <3>1, <3>2
  <2>3. standing(l) = a \o c /\ Known(l) = a \o b /\ Standing(l) = Len(a)
    BY DEF Known
  <2> HIDE DEF a, b, k, standing, Standing
  <2>4. c \in Seq(Token) /\ Len(c) = k /\ \A i \in 1..k : c[i] = b[i]
    BY <2>1, <2>2, SubSeqProperties
  <2>5. /\ Len(a) \in Nat /\ Len(b) \in Nat /\ Len(a \o b) = Len(a) + Len(b) /\ a \o b \in Seq(Token)
        /\ Len(a \o c) = Len(a) + k /\ a \o c \in Seq(Token) /\ k \in Nat /\ k <= Len(b)
    BY <2>1, <2>2, <2>4, ConcatProperties
  <2>6. \A i \in 1..Len(a) : (a \o b)[i] = a[i] /\ (a \o c)[i] = a[i]
    BY <2>1, <2>4, ConcatAt
  <2>7. /\ \A i \in 1..Len(b) : (a \o b)[Len(a) + i] = b[i]
        /\ \A i \in 1..Len(c) : (a \o c)[Len(a) + i] = c[i]
    BY <2>1, <2>4, ConcatAt
  <2>8. \A i \in 1..Len(a \o c) : (a \o c)[i] = (a \o b)[i]
    <3> TAKE i \in 1..Len(a \o c)
    <3>1. CASE i <= Len(a)
      BY <2>5, <2>6, <3>1
    <3>2. CASE i > Len(a)
      <4> DEFINE x == i - Len(a)
      <4>1. x \in 1..k /\ x \in 1..Len(b) /\ x \in 1..Len(c) /\ i = Len(a) + x
        <5> HIDE DEF c
        <5> QED BY <2>4, <2>5, <3>2
      <4> HIDE DEF x, c
      <4> QED BY <2>4, <2>7, <4>1
    <3> QED BY <2>5, <3>1, <3>2
  <2> HIDE DEF c
  <2>9. /\ standing(l) \in Seq(Token) /\ k \in Nat /\ k <= Len(b)
        /\ Standing(l) \in Nat /\ Len(standing(l)) = Standing(l) + k /\ Len(b) \in Nat
        /\ \A i \in 1..Len(standing(l)) : standing(l)[i] = Known(l)[i]
        /\ Known(l) \in Seq(Token) /\ Len(Known(l)) = Standing(l) + Len(b)
        /\ \A i \in 1..Len(b) : Known(l)[Standing(l) + i] = b[i]
    BY <2>3, <2>5, <2>7, <2>8
  <2> QED BY <2>9 DEF b, k
<1> HIDE DEF standing
<1>4. ASSUME NEW l \in Lanes
      PROVE  /\ kept(l) \in Seq(Pages) /\ Len(kept(l)) = PageCount(Len(standing(l)))
             /\ lane[l].pages \in Seq(Pages) /\ Len(kept(l)) <= Len(lane[l].pages)
             /\ \A i \in 1..Len(kept(l)) : kept(l)[i] = lane[l].pages[i]
  <2> DEFINE p == lane[l].pages  n == PageCount(Len(standing(l)))
  <2>1. p \in Seq(Pages) /\ Len(p) = PageCount(Len(Known(l)))
    BY <1>1, LaneOK DEF Paged
  <2>2. Len(standing(l)) \in Nat /\ Len(Known(l)) \in Nat /\ Len(standing(l)) <= Len(Known(l))
    <3> HIDE DEF Standing
    <3> QED BY <1>3
  <2>3. n \in Nat /\ n <= Len(p)
    BY <2>1, <2>2, PageCounts
  <2>4. kept(l) = SubSeq(p, 1, n)
    OBVIOUS
  <2> HIDE DEF p, n, kept
  <2>5. kept(l) \in Seq(Pages) /\ Len(kept(l)) = n /\ \A i \in 1..n : kept(l)[i] = p[i]
    BY <2>1, <2>3, <2>4, SubSeqProperties
  <2> QED BY <2>1, <2>3, <2>5 DEF p, n
<1> HIDE DEF kept
<1>5. ASSUME NEW l \in Lanes
      PROVE  /\ lane'[l] \in [tokens : Seq(Token), pages : Seq(Pages), life : Nat, block : Nat]
             /\ lane'[l].tokens = standing(l) /\ lane'[l].pages = kept(l)
             /\ drafts'[l] = <<>> /\ Known(l)' = standing(l)
  <2>1. lane[l] \in [tokens : Seq(Token), pages : Seq(Pages), life : Nat, block : Nat]
    BY <1>1 DEF CompressTypeOK
  <2>2. lane'[l] = [lane[l] EXCEPT !.tokens = standing(l), !.block = @ + 1, !.pages = kept(l)]
    BY <1>2
  <2>3. standing(l) \in Seq(Token) /\ kept(l) \in Seq(Pages)
    BY <1>3, <1>4
  <2>4. /\ lane'[l] \in [tokens : Seq(Token), pages : Seq(Pages), life : Nat, block : Nat]
        /\ lane'[l].tokens = standing(l) /\ lane'[l].pages = kept(l)
    <3> DEFINE t == standing(l)  p == kept(l)  b == lane[l].block + 1
    <3>1. lane'[l] = [lane[l] EXCEPT !.tokens = t, !.block = b, !.pages = p]
      BY <2>2
    <3>2. t \in Seq(Token) /\ p \in Seq(Pages) /\ b \in Nat
      BY <2>1, <2>3
    <3> HIDE DEF t, p, b
    <3>3. /\ lane'[l] \in [tokens : Seq(Token), pages : Seq(Pages), life : Nat, block : Nat]
          /\ lane'[l].tokens = t /\ lane'[l].pages = p
      BY <2>1, <3>1, <3>2
    <3> QED BY <3>3 DEF t, p
  <2>5. drafts'[l] = <<>>
    BY <1>2
  <2>6. Known(l)' = standing(l)
    BY <2>3, <2>4, <2>5, ConcatEmptySeq DEF Known
  <2> QED BY <2>4, <2>5, <2>6
<1>6. CompressTypeOK'
  <2>1. lane' \in [Lanes -> [tokens : Seq(Token), pages : Seq(Pages), life : Nat, block : Nat]]
    <3>1. DOMAIN lane' = Lanes /\ lane' = [l \in Lanes |-> lane'[l]]
      BY <1>2
    <3> QED BY <1>5, <3>1
  <2>2. <<>> \in Seq(Token)
    OBVIOUS
  <2>3. drafts' \in [Lanes -> Seq(Token)]
    BY <1>2, <2>2
  <2>4. DOMAIN latent' = 0..(NumPages + 1) * Half - 1
    BY <1>1, <1>2 DEF CompressTypeOK
  <2> QED BY <2>1, <2>3, <2>4 DEF CompressTypeOK, Half
<1>7. Paged'
  BY <1>4, <1>5 DEF Paged
<1>8. Apart'
  <2> DEFINE old == [m \in Lanes |-> lane[m].pages]  Q == [m \in Lanes |-> lane'[m].pages]
  <2>1. ApartFor(old) /\ \A m \in Lanes : old[m] = lane[m].pages /\ Q[m] = kept(m)
    BY <1>1, <1>5 DEF Apart
  <2> HIDE DEF old, Q
  <2>2. ASSUME NEW m \in Lanes, NEW i \in DOMAIN Q[m]
        PROVE  i \in DOMAIN old[m] /\ Q[m][i] = old[m][i] /\ i \in Nat
    <3>1. i \in 1..Len(kept(m)) /\ i \in 1..Len(lane[m].pages) /\ i \in Nat
      BY <1>4, <2>1
    <3> QED BY <1>4, <2>1, <3>1
  <2>3. \A m \in Lanes : Standing(m) <= Len(lane'[m].tokens) /\ Standing(m) \in Nat
        /\ Len(lane'[m].tokens) \in Nat
    <3> TAKE m \in Lanes
    <3>1. Len(lane'[m].tokens) = Standing(m) + accepted[m] /\ Standing(m) \in Nat /\ accepted[m] \in Nat
      BY <1>3, <1>5
    <3> HIDE DEF Standing
    <3> QED BY <3>1
  <2>4. ASSUME NEW m \in Lanes, NEW o \in Lanes, NEW i \in DOMAIN Q[m], NEW k \in DOMAIN Q[o],
               Q[m][i] = Q[o][k]
        PROVE  i = k /\ (m # o => /\ i * PageSize <= Len(lane'[m].tokens)
                                  /\ i * PageSize <= Len(lane'[o].tokens))
    <3> DEFINE x == i * PageSize
    <3>1. i = k /\ (m # o => x <= Standing(m) /\ x <= Standing(o))
      BY <2>1, <2>2, <2>4 DEF ApartFor
    <3>2. x \in Nat
      BY <2>2, CompressSizes
    <3> HIDE DEF x, Standing
    <3>3. m # o => x <= Len(lane'[m].tokens) /\ x <= Len(lane'[o].tokens)
      BY <2>3, <3>1, <3>2
    <3> QED BY <3>1, <3>3 DEF x
  <2> QED BY <2>4 DEF Apart, ApartFor, Q
<1>9. Written'
  <2> SUFFICES ASSUME NEW m \in Lanes, NEW j \in 0..Visible(m)' - 1
               PROVE  latent'[Slot(lane'[m].pages, j)] = <<Known(m)'[2 * j + 1], Known(m)'[2 * j + 2]>>
    BY DEF Written, Slot
  <2> DEFINE n == Len(standing(m))  z == Len(Known(m))
  <2>1. Visible(m)' = n \div 2 /\ n \in Nat /\ Visible(m) = z \div 2 /\ z \in Nat /\ n <= z
    <3>1. Visible(m)' = n \div 2 /\ Visible(m) = z \div 2
      BY <1>5 DEF Visible
    <3>2. n = Standing(m) + accepted[m] /\ Standing(m) \in Nat /\ accepted[m] \in Nat
          /\ z = Standing(m) + Len(drafts[m])
          /\ Len(drafts[m]) \in Nat /\ accepted[m] <= Len(drafts[m])
      BY <1>3
    <3> HIDE DEF n, z, Standing
    <3>3. n \in Nat /\ z \in Nat
      BY <3>2
    <3>4. n <= z
      BY <3>2
    <3> QED BY <3>1, <3>3, <3>4
  <2> HIDE DEF n, z
  <2>2. j \in Nat /\ 2 * j + 2 <= n /\ j \in 0..Visible(m) - 1 /\ 2 * j + 1 \in 1..n /\ 2 * j + 2 \in 1..n
    BY <2>1
  <2>3. j \div Half < PageCount(n) /\ j \div Half \in Nat
    BY <2>1, <2>2, PairHasPage
  <2>4. Slot(kept(m), j) = Slot(lane[m].pages, j)
    <3>1. j \div Half + 1 \in 1..Len(kept(m))
      <4>1. Len(kept(m)) = PageCount(n) /\ PageCount(n) \in Nat
        BY <1>4, <2>1, PageCounts DEF n
      <4> QED BY <2>3, <4>1
    <3> QED BY <1>4, <3>1 DEF Slot
  <2>5. latent[Slot(lane[m].pages, j)] = <<Known(m)[2 * j + 1], Known(m)[2 * j + 2]>>
    BY <1>1, <2>2 DEF Written
  <2>6. standing(m)[2 * j + 1] = Known(m)[2 * j + 1] /\ standing(m)[2 * j + 2] = Known(m)[2 * j + 2]
    BY <1>3, <2>2 DEF n
  <2> QED BY <1>2, <1>5, <2>4, <2>5, <2>6
<1>10. Remembered'
  <2>1. ASSUME NEW l \in Lanes, Len(standing(l)) % 2 = 1
        PROVE  ring[l][(Len(standing(l)) - 1) % RingSize] = standing(l)[Len(standing(l))]
    <3> DEFINE n == Standing(l)  k == accepted[l]
    <3>1. /\ n \in Nat /\ k \in Nat /\ Len(standing(l)) = n + k /\ k <= Len(drafts[l])
             /\ Len(drafts[l]) \in Nat
          /\ \A i \in 1..n + k : standing(l)[i] = Known(l)[i]
      BY <1>3
    <3>2. CASE k = 0
      <4>1. drafts[l] = <<>> /\ lane[l].tokens \in Seq(Token)
        <5>1. drafts[l] # <<>> => k \in 1..Len(drafts[l])
          BY <1>2
        <5> HIDE DEF k
        <5> QED BY <1>1, <3>1, <3>2, <5>1, LaneOK
      <4>2. Known(l) = lane[l].tokens /\ Len(standing(l)) = n /\ n \in 1..n
        <5>1. Known(l) = lane[l].tokens
          BY <4>1, ConcatEmptySeq DEF Known
        <5> HIDE DEF n, k
        <5>2. Len(standing(l)) = n
          BY <3>1, <3>2
        <5>3. n % 2 = 1
          BY <2>1, <5>2
        <5>4. n \in 1..n
          BY <3>1, <5>3
        <5> QED BY <5>1, <5>2, <5>4
      <4>3. ring[l][(n - 1) % RingSize] = lane[l].tokens[n]
        BY <1>1, <2>1, <4>1, <4>2 DEF Remembered
      <4>4. standing(l)[n] = Known(l)[n]
        BY <1>3, <4>2
      <4> QED BY <4>2, <4>3, <4>4
    <3>3. CASE k # 0
      <4>1. ring[l][(n + k - 1) % RingSize] = drafts[l][k] /\ k \in 1..Len(drafts[l])
        <5>1. k \in 1..Len(drafts[l])
          <6> HIDE DEF k
          <6> QED BY <3>1, <3>3
        <5> QED BY <1>1, <5>1 DEF Remembered
      <4>2. Known(l)[n + k] = drafts[l][k]
        BY <1>3, <4>1
      <4>3. n + k \in 1..n + k
        <5> HIDE DEF n, k
        <5> QED BY <3>1, <3>3
      <4> HIDE DEF n, k
      <4>4. Len(standing(l)) - 1 = n + k - 1
        BY <3>1
      <4> QED BY <3>1, <4>1, <4>2, <4>3, <4>4, Zenon
    <3> QED BY <3>2, <3>3
  <2>2. \A l \in Lanes : /\ drafts'[l] = <<>> /\ Len(drafts'[l]) = 0 /\ 1..Len(drafts'[l]) = {}
                         /\ lane'[l].tokens = standing(l)
    BY <1>5
  <2>3. 0 <= DraftLen
    BY CompressSizes
  <2> QED BY <1>2, <2>1, <2>2, <2>3 DEF Remembered
<1> QED BY <1>6, <1>7, <1>8, <1>9, <1>10 DEF CompressInv

\* A request that leaves keeps the invariant.
LEMMA VacateKeeps ==
    ASSUME CompressInv, NEW l \in Lanes, Vacate(l)
    PROVE  CompressInv'
<1>1. CompressTypeOK /\ Paged /\ Apart /\ Written /\ Remembered
  BY DEF CompressInv
<1>2. /\ Judged /\ drafts' = drafts /\ ring' = ring /\ latent' = latent
      /\ lane' = [lane EXCEPT ![l].tokens = <<>>, ![l].pages = <<>>, ![l].life = @ + 1]
  BY DEF Vacate
<1>3. ASSUME NEW m \in Lanes
      PROVE  /\ lane'[m] \in [tokens : Seq(Token), pages : Seq(Pages), life : Nat, block : Nat]
             /\ m = l => lane'[m].tokens = <<>> /\ lane'[m].pages = <<>>
             /\ m # l => lane'[m] = lane[m]
             /\ drafts'[m] = <<>> /\ Known(m)' = lane'[m].tokens
             /\ Known(m) = lane[m].tokens
  <2>1. lane \in [Lanes -> [tokens : Seq(Token), pages : Seq(Pages), life : Nat, block : Nat]]
    BY <1>1 DEF CompressTypeOK
  <2>2. m # l => lane'[m] = lane[m]
    BY <1>2, <2>1
  <2>3. ASSUME m = l
        PROVE  /\ lane'[m] \in [tokens : Seq(Token), pages : Seq(Pages), life : Nat, block : Nat]
               /\ lane'[m].tokens = <<>> /\ lane'[m].pages = <<>>
    <3> DEFINE b == lane[l].life + 1
    <3>1. lane'[l] = [lane[l] EXCEPT !.tokens = <<>>, !.pages = <<>>, !.life = b]
      BY <1>2, <2>1
    <3>2. b \in Nat /\ lane[l] \in [tokens : Seq(Token), pages : Seq(Pages), life : Nat, block : Nat]
      BY <2>1
    <3> HIDE DEF b
    <3>3. <<>> \in Seq(Token) /\ <<>> \in Seq(Pages)
      OBVIOUS
    <3> QED BY <2>3, <3>1, <3>2, <3>3
  <2>4. drafts'[m] = <<>> /\ Known(m) = lane[m].tokens
    BY <1>1, <1>2, IdleIs
  <2>5. lane'[m] \in [tokens : Seq(Token), pages : Seq(Pages), life : Nat, block : Nat]
    BY <2>1, <2>2, <2>3
  <2>6. lane'[m].tokens \in Seq(Token)
    BY <2>5
  <2>7. Known(m)' = lane'[m].tokens
    BY <2>4, <2>6, ConcatEmptySeq DEF Known
  <2> QED BY <2>2, <2>3, <2>4, <2>5, <2>7
<1>4. CompressTypeOK'
  <2>1. lane' \in [Lanes -> [tokens : Seq(Token), pages : Seq(Pages), life : Nat, block : Nat]]
    <3>1. DOMAIN lane' = Lanes /\ lane' = [m \in Lanes |-> lane'[m]]
      BY <1>1, <1>2 DEF CompressTypeOK
    <3> QED BY <1>3, <3>1
  <2> QED BY <1>1, <1>2, <2>1 DEF CompressTypeOK, Half
<1>5. Paged'
  <2> SUFFICES ASSUME NEW m \in Lanes PROVE Len(lane'[m].pages) = PageCount(Len(Known(m)'))
    BY DEF Paged
  <2>1. CASE m = l
    <3>1. lane'[m].pages = <<>> /\ Known(m)' = <<>> /\ Len(<<>>) = 0
      BY <1>3, <2>1
    <3>2. PageCount(0) = 0
      BY PageCounts
    <3> QED BY <3>1, <3>2, Zenon
  <2>2. CASE m # l
    <3>1. lane'[m].pages = lane[m].pages /\ Known(m)' = lane[m].tokens
      BY <1>3, <2>2
    <3>2. Len(lane[m].pages) = PageCount(Len(lane[m].tokens))
      BY <1>1, <1>2, IdleIs
    <3> QED BY <3>1, <3>2, Zenon
  <2> QED BY <2>1, <2>2
<1>6. Apart'
  <2> DEFINE old == [m \in Lanes |-> lane[m].pages]  Q == [m \in Lanes |-> lane'[m].pages]
  <2>1. ApartFor(old) /\ \A m \in Lanes : old[m] = lane[m].pages /\ Q[m] = lane'[m].pages
    BY <1>1 DEF Apart
  <2> HIDE DEF old, Q
  <2>2. ASSUME NEW m \in Lanes, NEW i \in DOMAIN Q[m] PROVE lane'[m] = lane[m] /\ Q[m] = old[m]
    <3>1. m # l
      <4> SUFFICES ASSUME m = l PROVE FALSE OBVIOUS
      <4>1. Q[m] = <<>>
        BY <1>3, <2>1
      <4> QED BY <2>2, <4>1
    <3> QED BY <1>3, <2>1, <3>1
  <2>3. ASSUME NEW m \in Lanes, NEW o \in Lanes, NEW i \in DOMAIN Q[m], NEW k \in DOMAIN Q[o],
               Q[m][i] = Q[o][k]
        PROVE  i = k /\ (m # o => /\ i * PageSize <= Len(lane'[m].tokens)
                                  /\ i * PageSize <= Len(lane'[o].tokens))
    BY <2>1, <2>2, <2>3 DEF ApartFor
  <2> QED BY <2>3 DEF Apart, ApartFor, Q
<1>7. Written'
  <2> SUFFICES ASSUME NEW m \in Lanes, NEW j \in 0..Visible(m)' - 1
               PROVE  latent'[Slot(lane'[m].pages, j)] = <<Known(m)'[2 * j + 1], Known(m)'[2 * j + 2]>>
    BY DEF Written, Slot
  <2>1. m # l
    <3> SUFFICES ASSUME m = l PROVE FALSE OBVIOUS
    <3>1. Visible(m)' = 0
      BY <1>3 DEF Visible
    <3> QED BY <3>1
  <2>2. Visible(m)' = Visible(m) /\ Known(m)' = Known(m) /\ lane'[m].pages = lane[m].pages
    BY <1>3, <2>1 DEF Visible
  <2> QED BY <1>1, <1>2, <2>2 DEF Written
<1>8. Remembered'
  <2>1. \A m \in Lanes : lane'[m].tokens = lane[m].tokens \/ Len(lane'[m].tokens) % 2 # 1
    <3> TAKE m \in Lanes
    <3>1. Len(<<>>) % 2 # 1
      OBVIOUS
    <3> QED BY <1>3, <3>1
  <2>2. \A m \in Lanes : drafts'[m] = <<>> /\ drafts[m] = <<>> /\ Len(drafts'[m]) = 0
        /\ 1..Len(drafts'[m]) = {}
    BY <1>2, <1>3
  <2>3. 0 <= DraftLen
    BY CompressSizes
  <2> QED BY <1>1, <1>2, <2>1, <2>2, <2>3 DEF Remembered
<1> QED BY <1>4, <1>5, <1>6, <1>7, <1>8 DEF CompressInv

\* At the start nothing is held and nothing is known.
LEMMA CompressInitInv == CompressInit => CompressInv
<1> SUFFICES ASSUME CompressInit PROVE CompressInv
  OBVIOUS
<1>1. /\ lane = [l \in Lanes |-> [tokens |-> <<>>, pages |-> <<>>, life |-> 0, block |-> 0]]
      /\ drafts = [l \in Lanes |-> <<>>]
      /\ latent = [slot \in 0..(NumPages + 1) * (PageSize \div 2) - 1 |-> NoLatent]
  BY DEF CompressInit
<1>2. \A l \in Lanes : /\ lane[l].tokens = <<>> /\ lane[l].pages = <<>> /\ drafts[l] = <<>>
                       /\ Known(l) = <<>>
  <2> TAKE l \in Lanes
  <2>1. lane[l].tokens = <<>> /\ lane[l].pages = <<>> /\ drafts[l] = <<>>
    BY <1>1
  <2>2. <<>> \o <<>> = <<>>
    OBVIOUS
  <2> QED BY <2>1, <2>2 DEF Known
<1>3. CompressTypeOK
  <2>1. [tokens |-> <<>>, pages |-> <<>>, life |-> 0, block |-> 0]
           \in [tokens : Seq(Token), pages : Seq(Pages), life : Nat, block : Nat]
    OBVIOUS
  <2>2. <<>> \in Seq(Token)
    OBVIOUS
  <2>3. DOMAIN latent = 0..(NumPages + 1) * Half - 1
    BY <1>1 DEF Half
  <2> QED BY <1>1, <2>1, <2>2, <2>3 DEF CompressTypeOK
<1>4. Paged
  BY <1>2, PageCounts DEF Paged
<1>5. Apart
  <2> DEFINE Q == [l \in Lanes |-> lane[l].pages]
  <2>1. \A l \in Lanes : DOMAIN Q[l] = {}
    BY <1>2
  <2> HIDE DEF Q
  <2>2. ApartFor(Q)
    BY <2>1 DEF ApartFor
  <2> QED BY <2>2 DEF Apart, Q
<1>6. Written
  <2>1. \A l \in Lanes : Visible(l) = 0
    BY <1>2 DEF Visible
  <2>2. 0..0 - 1 = {}
    OBVIOUS
  <2> QED BY <2>1, <2>2 DEF Written
<1>7. Remembered
  <2>1. DraftLen \in Nat
    BY CompressSizes
  <2>2. Len(<<>>) = 0 /\ 0 % 2 # 1 /\ 1..0 = {} /\ 0 <= DraftLen
    BY <2>1
  <2> QED BY <1>2, <2>2 DEF Remembered
<1> QED BY <1>3, <1>4, <1>5, <1>6, <1>7 DEF CompressInv

\* Every step keeps the invariant.
LEMMA CompressNextInv == CompressInv /\ [CompressNext]_compressVars => CompressInv'
<1> SUFFICES ASSUME CompressInv, [CompressNext]_compressVars PROVE CompressInv'
  OBVIOUS
<1>1. CompressTypeOK
  BY DEF CompressInv
<1>2. ASSUME NEW n \in Nat, n # 0, NEW l \in Lanes PROVE New(l, n) \in Seq(Token) /\ New(l, n) # <<>>
  <2>1. New(l, n) \in Seq(Token) /\ Len(New(l, n)) = n
    BY <1>1, NewIs
  <2>2. Len(<<>>) = 0
    OBVIOUS
  <2> QED BY <1>2, <2>1, <2>2
<1>3. \A pads \in 0..MaxPad : pads \in Nat
  BY CompressAssumption
<1>4. ASSUME NEW pads \in 0..MaxPad, DecodeRow([l \in Serving |-> New(l, 1)], pads) PROVE CompressInv'
  <2> DEFINE new == [l \in Serving |-> New(l, 1)]
  <2>1. PICK pages \in PagesFor(Serving, new) : Judged /\ Join(Serving, pages, new, pads)
    BY <1>4, Zenon DEF DecodeRow
  <2>2. \A l \in Serving : new[l] = New(l, 1) /\ l \in Lanes
    BY DEF Serving
  <2>3. 1 \in Nat /\ 1 # 0
    OBVIOUS
  <2>4. \A l \in Serving : new[l] \in Seq(Token) /\ new[l] # <<>>
    BY <1>2, <2>2, <2>3
  <2> HIDE DEF new
  <2>5. Arriving(Serving, new)
    BY <2>4 DEF Arriving, Serving
  <2> QED BY <1>3, <2>1, <2>5, JoinKeeps
<1>5. ASSUME NEW S \in (SUBSET Lanes) \ {{}}, NEW pads \in 0..MaxPad, NEW chunk \in [S -> 1..MaxChunk],
             Prefill(S, [l \in S |-> New(l, chunk[l])], pads)
      PROVE  CompressInv'
  <2> DEFINE new == [l \in S |-> New(l, chunk[l])]
  <2>1. PICK pages \in PagesFor(S, new) : Judged /\ Join(S, pages, new, pads)
    BY <1>5, Zenon DEF Prefill
  <2>2. \A l \in S : new[l] = New(l, chunk[l]) /\ l \in Lanes /\ chunk[l] \in Nat /\ chunk[l] # 0
    <3>1. MaxChunk \in Nat
      BY CompressSizes
    <3> QED BY <3>1
  <2>3. \A l \in S : new[l] \in Seq(Token) /\ new[l] # <<>>
    BY <1>2, <2>2
  <2> HIDE DEF new
  <2>4. Arriving(S, new)
    BY <2>3 DEF Arriving
  <2> QED BY <1>3, <2>1, <2>4, JoinKeeps
<1>6. ASSUME NEW pads \in 0..MaxPad, VerifyBlock([l \in Serving |-> New(l, DraftLen)], pads)
      PROVE  CompressInv'
  BY <1>3, <1>6, DraftsKeep
<1>7. CASE UNCHANGED compressVars
  <2>1. lane' = lane /\ drafts' = drafts /\ ring' = ring /\ latent' = latent
    BY <1>7 DEF compressVars
  <2>2. CompressTypeOK /\ Paged /\ Apart /\ Written /\ Remembered
    BY DEF CompressInv
  <2>3. CompressTypeOK'
    BY <2>1, <2>2 DEF CompressTypeOK, Half
  <2>4. Paged'
    BY <2>1, <2>2 DEF Paged, Known
  <2>5. Apart'
    BY <2>1, <2>2 DEF Apart, ApartFor
  <2>6. Written'
    BY <2>1, <2>2, Zenon DEF Written, Known, Visible, Slot, Half
  <2>7. Remembered'
    BY <2>1, <2>2, Zenon DEF Remembered
  <2> QED BY <2>3, <2>4, <2>5, <2>6, <2>7 DEF CompressInv
<1> QED BY <1>4, <1>5, <1>6, <1>7, ShareKeeps, JudgementKeeps, VacateKeeps DEF CompressNext

(* The invariant holds in every state.                                      *)
THEOREM CompressInvHolds == CompressSpec => []CompressInv
<1> QED BY CompressInitInv, CompressNextInv, PTL DEF CompressSpec

\* The running total of the groups before a lane is where its groups start.
LEMMA StartIs ==
    ASSUME NEW T, NEW seqs \in Seq(Seq(T)), Len(seqs) = NumLanes, NEW start,
           start = [m \in Lanes |-> IF m = 0 THEN 0 ELSE start[m - 1] + Len(seqs[m])]
    PROVE  \A m \in Lanes : start[m] = Len(FlattenSeq(SubSeq(seqs, 1, m)))
<1> DEFINE F(m) == FlattenSeq(SubSeq(seqs, 1, m))
           Good == {m \in Nat : m \in Lanes => start[m] = Len(F(m))}
<1>1. /\ \A m \in 1..Len(seqs) : F(m) = F(m - 1) \o seqs[m]
      /\ \A m \in 0..Len(seqs) : F(m) \in Seq(T)
      /\ FlattenSeq(<<>>) = <<>>
  BY FlattenSeqSteps
<1>2. F(0) = <<>>
  <2>1. SubSeq(seqs, 1, 0) = <<>>
    BY SubSeqProperties
  <2> QED BY <1>1, <2>1
<1> HIDE DEF F
<1> DEFINE g == [m \in Lanes |-> IF m = 0 THEN 0 ELSE start[m - 1] + Len(seqs[m])]
<1>3. start = g /\ \A m \in Lanes : g[m] = IF m = 0 THEN 0 ELSE start[m - 1] + Len(seqs[m])
  OBVIOUS
<1> HIDE DEF g
<1>4. \A m \in Lanes : start[m] = IF m = 0 THEN 0 ELSE start[m - 1] + Len(seqs[m])
  BY <1>3, Zenon
<1>5. 0 \in Good
  <2>1. 0 \in Lanes /\ Len(<<>>) = 0
    BY CompressSizes DEF Lanes
  <2> QED BY <1>2, <1>4, <2>1
<1>6. ASSUME NEW m \in Nat, m \in Good PROVE m + 1 \in Good
  <2> SUFFICES ASSUME m + 1 \in Lanes PROVE start[m + 1] = Len(F(m + 1))
    OBVIOUS
  <2>1. m \in Lanes /\ m + 1 \in 1..Len(seqs) /\ m \in 0..Len(seqs) /\ (m + 1) - 1 = m /\ m + 1 # 0
    BY CompressSizes DEF Lanes
  <2>2. start[m + 1] = start[m] + Len(seqs[m + 1]) /\ start[m] = Len(F(m))
    BY <1>4, <1>6, <2>1
  <2>3. F(m + 1) = F(m) \o seqs[m + 1] /\ F(m) \in Seq(T) /\ seqs[m + 1] \in Seq(T)
    BY <1>1, <2>1
  <2> DEFINE a == F(m)  b == seqs[m + 1]
  <2>4. Len(a \o b) = Len(a) + Len(b)
    <3>1. a \in Seq(T) /\ b \in Seq(T)
      BY <2>3
    <3> HIDE DEF a, b
    <3> QED BY <3>1, ConcatAt
  <2> QED BY <2>2, <2>3, <2>4
<1> HIDE DEF Good
<1>7. Nat \subseteq Good
  BY <1>5, <1>6, SetInduction
<1>8. Lanes \subseteq Nat
  BY DEF Lanes
<1> QED BY <1>7, <1>8 DEF Good, F

\* There is such a running total.
LEMMA StartExists ==
    ASSUME NEW T, NEW seqs \in Seq(Seq(T)), Len(seqs) = NumLanes
    PROVE  \E start : start = [m \in Lanes |-> IF m = 0 THEN 0 ELSE start[m - 1] + Len(seqs[m])]
<1> DEFINE F(m) == FlattenSeq(SubSeq(seqs, 1, m))
           s == [m \in Lanes |-> Len(F(m))]
<1>1. /\ \A m \in 1..Len(seqs) : F(m) = F(m - 1) \o seqs[m]
      /\ \A m \in 0..Len(seqs) : F(m) \in Seq(T)
      /\ FlattenSeq(<<>>) = <<>>
  BY FlattenSeqSteps
<1>2. F(0) = <<>>
  <2>1. SubSeq(seqs, 1, 0) = <<>>
    BY SubSeqProperties
  <2> QED BY <1>1, <2>1
<1> HIDE DEF F
<1>3. \A m \in Lanes : s[m] = Len(F(m))
  OBVIOUS
<1>4. ASSUME NEW m \in Lanes PROVE Len(F(m)) = IF m = 0 THEN 0 ELSE s[m - 1] + Len(seqs[m])
  <2>1. CASE m = 0
    <3>1. Len(<<>>) = 0
      OBVIOUS
    <3> QED BY <1>2, <2>1, <3>1
  <2>2. CASE m # 0
    <3>1. m - 1 \in Lanes /\ m \in 1..Len(seqs) /\ m - 1 \in 0..Len(seqs)
      BY <2>2, CompressSizes DEF Lanes
    <3>2. F(m) = F(m - 1) \o seqs[m] /\ F(m - 1) \in Seq(T) /\ seqs[m] \in Seq(T)
      BY <1>1, <3>1
    <3> DEFINE a == F(m - 1)  b == seqs[m]
    <3>3. Len(a \o b) = Len(a) + Len(b)
      <4>1. a \in Seq(T) /\ b \in Seq(T)
        BY <3>2
      <4> HIDE DEF a, b
      <4> QED BY <4>1, ConcatAt
    <3>4. s[m - 1] = Len(a)
      BY <1>3, <3>1
    <3> QED BY <2>2, <3>2, <3>3, <3>4
  <2> QED BY <2>1, <2>2
<1>5. s = [m \in Lanes |-> IF m = 0 THEN 0 ELSE s[m - 1] + Len(seqs[m])]
  BY <1>4
<1> HIDE DEF s
<1> QED BY <1>5

\* In the sequence of all groups, a lane's group is the slot its tokens lead to.
LEMMA InBatchIs ==
    ASSUME NEW S \in SUBSET Lanes, NEW l \in S, NEW j \in 0..Visible(l) - 1,
           \A m \in Lanes : Visible(m) \in Nat
    PROVE  SlotInBatch(S, l, j) = SlotByToken(l, j)
<1> DEFINE T == {SlotByToken(m, i) : m \in Lanes, i \in Nat}
           seqs == GroupsOf(S)
<1>1. NumLanes \in Nat
  BY CompressSizes
<1>2. ASSUME NEW n \in 1..NumLanes
      PROVE  /\ seqs[n] \in Seq(T)
             /\ n - 1 \in S => /\ Len(seqs[n]) = Visible(n - 1)
                               /\ \A g \in 1..Visible(n - 1) : seqs[n][g] = SlotByToken(n - 1, g - 1)
  <2> DEFINE groups == [g \in 1..Visible(n - 1) |-> SlotByToken(n - 1, g - 1)]
  <2>1. seqs[n] = IF n - 1 \in S THEN groups ELSE <<>>
    BY Zenon DEF GroupsOf
  <2>2. n - 1 \in Lanes /\ Visible(n - 1) \in Nat
    BY <1>1 DEF Lanes
  <2>3. \A g \in 1..Visible(n - 1) : SlotByToken(n - 1, g - 1) \in T
    <3> TAKE g \in 1..Visible(n - 1)
    <3>1. g - 1 \in Nat
      BY <2>2
    <3> QED BY <2>2, <3>1
  <2>4. groups \in [1..Visible(n - 1) -> T]
        /\ \A g \in 1..Visible(n - 1) : groups[g] = SlotByToken(n - 1, g - 1)
    <3> HIDE DEF T
    <3> QED BY <2>3
  <2> HIDE DEF groups, T, seqs
  <2>5. groups \in Seq(T) /\ Len(groups) = Visible(n - 1)
    BY <2>2, <2>4
  <2>6. <<>> \in Seq(T)
    OBVIOUS
  <2> QED BY <2>1, <2>4, <2>5, <2>6
<1>3. DOMAIN seqs = 1..NumLanes /\ seqs = [n \in 1..NumLanes |-> seqs[n]]
  BY DEF GroupsOf
<1> DEFINE start == CHOOSE f : f = [m \in Lanes |-> IF m = 0 THEN 0 ELSE f[m - 1] + Len(seqs[m])]
<1>4. SlotInBatch(S, l, j) = FlattenSeq(seqs)[start[l] + j + 1]
  BY Zenon DEF SlotInBatch
<1> HIDE DEF T, seqs
<1>5. seqs \in Seq(Seq(T)) /\ Len(seqs) = NumLanes
  <2>1. seqs \in [1..NumLanes -> Seq(T)]
    BY <1>2, <1>3
  <2> QED BY <1>1, <2>1
<1>6. \E f : f = [m \in Lanes |-> IF m = 0 THEN 0 ELSE f[m - 1] + Len(seqs[m])]
  BY <1>5, StartExists
<1>7. start = [m \in Lanes |-> IF m = 0 THEN 0 ELSE start[m - 1] + Len(seqs[m])]
  BY <1>6, Zenon
<1> HIDE DEF start
<1>8. start[l] = Len(FlattenSeq(SubSeq(seqs, 1, l)))
  BY <1>5, <1>7, StartIs
<1>9. l + 1 \in 1..Len(seqs) /\ (l + 1) - 1 = l /\ l \in 0..Len(seqs)
  BY <1>1, <1>5 DEF Lanes
<1>10. Len(seqs[l + 1]) = Visible(l) /\ \A g \in 1..Visible(l) : seqs[l + 1][g] = SlotByToken(l, g - 1)
  BY <1>2, <1>5, <1>9
<1>11. j + 1 \in 1..Len(seqs[l + 1]) /\ (j + 1) - 1 = j /\ j \in Nat
  BY <1>10
<1>12. FlattenSeq(seqs)[Len(FlattenSeq(SubSeq(seqs, 1, (l + 1) - 1))) + (j + 1)] = seqs[l + 1][j + 1]
  BY <1>5, <1>9, <1>11, FlattenSeqAt
<1>13. start[l] \in Nat
  <2>1. FlattenSeq(SubSeq(seqs, 1, l)) \in Seq(T)
    BY <1>5, <1>9, FlattenSeqSteps
  <2> QED BY <1>8, <2>1
<1>14. start[l] + j + 1 = Len(FlattenSeq(SubSeq(seqs, 1, (l + 1) - 1))) + (j + 1)
  BY <1>8, <1>9, <1>11, <1>13
<1> QED BY <1>4, <1>10, <1>11, <1>12, <1>14

\* In a state of the invariant every group is its own pair, however it is addressed.
LEMMA OwnPairs == ASSUME CompressInv PROVE EveryRowAttendsOwnPairs
<1> SUFFICES ASSUME NEW S \in SUBSET Serving, NEW l \in S, NEW j \in 0..Visible(l) - 1,
                    NEW slot \in {SlotByToken(l, j), SlotInBatch(S, l, j), SlotByTable(l, j)}
             PROVE  latent[slot] = <<Known(l)[2 * j + 1], Known(l)[2 * j + 2]>>
  BY DEF EveryRowAttendsOwnPairs
<1>1. CompressTypeOK /\ Paged /\ Written
  BY DEF CompressInv
<1>2. S \in SUBSET Lanes /\ l \in Lanes
  BY DEF Serving
<1>3. \A m \in Lanes : Len(Known(m)) \in Nat /\ Visible(m) = Len(Known(m)) \div 2 /\ Visible(m) \in Nat
  <2> TAKE m \in Lanes
  <2>1. Known(m) \in Seq(Token)
    BY <1>1, LaneOK, ConcatProperties DEF Known
  <2>2. Len(Known(m)) \in Nat
    BY <2>1
  <2> DEFINE n == Len(Known(m))
  <2>3. n \div 2 \in Nat
    <3> HIDE DEF n
    <3> QED BY <2>2 DEF n
  <2> QED BY <2>2, <2>3 DEF Visible
<1>4. j \in Nat /\ 2 * j + 2 <= Len(Known(l))
  <2> DEFINE n == Len(Known(l))
  <2>1. n \in Nat /\ j \in 0..(n \div 2) - 1
    BY <1>2, <1>3
  <2> HIDE DEF n
  <2> QED BY <2>1 DEF n
<1>5. lane[l].pages \in Seq(Pages) /\ j \div Half < Len(lane[l].pages) /\ j \div Half \in Nat
  BY <1>1, <1>2, <1>3, <1>4, LaneOK, PairHasPage DEF Paged
<1>6. SlotByToken(l, j) = Slot(lane[l].pages, j)
  BY <1>4, <1>5, PageAt, PairAt DEF SlotByToken
<1>7. SlotByTable(l, j) = Slot(lane[l].pages, j)
  BY <1>4, <1>5, ExpandedAt DEF SlotByTable
<1>8. SlotInBatch(S, l, j) = Slot(lane[l].pages, j)
  BY <1>2, <1>3, <1>6, InBatchIs
<1>9. slot = Slot(lane[l].pages, j)
  BY <1>6, <1>7, <1>8
<1> QED BY <1>1, <1>2, <1>9 DEF Written

(* A row never attends a latent that is not of its own request's own two    *)
(* tokens (_low_ratio_pair_partners, _low_ratio_index_topk).                *)
THEOREM EveryRowAttendsOwnPairsHolds == CompressSpec => []EveryRowAttendsOwnPairs
<1> QED BY CompressInvHolds, OwnPairs, PTL
-----------------------------------------------------------------------------
(* The tail of the late layers.                                            *)
\* How many numbers of a set are not above one.
PlaceIn(S, i) == Cardinality({k \in S : k <= i})

\* A place in a set is one of its places.
LEMMA PlaceType ==
    ASSUME NEW S \in SUBSET Nat, IsFiniteSet(S), NEW i \in S
    PROVE  PlaceIn(S, i) \in 1..Cardinality(S) /\ Cardinality(S) \in Nat
<1> DEFINE T == {k \in S : k <= i}
<1>1. T \in SUBSET S /\ i \in T
  OBVIOUS
<1> HIDE DEF T
<1>2. IsFiniteSet(T) /\ Cardinality(T) <= Cardinality(S)
  BY <1>1, FS_Subset
<1>3. Cardinality(T) \in Nat /\ Cardinality(S) \in Nat /\ Cardinality(T) # 0
  BY <1>1, <1>2, FS_CardinalityType, FS_EmptySet
<1>4. PlaceIn(S, i) = Cardinality(T)
  BY DEF PlaceIn, T
<1> QED BY <1>2, <1>3, <1>4

\* A larger number has a later place.
LEMMA PlaceGrows ==
    ASSUME NEW S \in SUBSET Nat, IsFiniteSet(S), NEW i \in S, NEW j \in S, i < j
    PROVE  PlaceIn(S, i) < PlaceIn(S, j)
<1> DEFINE T == {k \in S : k <= i}  U == {k \in S : k <= j}
<1>1. T \in SUBSET U /\ U \in SUBSET S /\ j \in U /\ j \notin T
  <2>1. i \in Nat /\ j \in Nat /\ \A k \in S : k \in Nat
    OBVIOUS
  <2>2. \A k \in T : k \in U
    BY <2>1
  <2>3. j \in U /\ j \notin T
    BY <2>1
  <2> QED BY <2>2, <2>3
<1>2. PlaceIn(S, i) = Cardinality(T) /\ PlaceIn(S, j) = Cardinality(U)
  BY DEF PlaceIn
<1> HIDE DEF T, U
<1>3. IsFiniteSet(U)
  BY <1>1, FS_Subset
<1>4. Cardinality(T) <= Cardinality(U) /\ Cardinality(T) # Cardinality(U)
  BY <1>1, <1>3, FS_Subset
<1>5. Cardinality(T) \in Nat /\ Cardinality(U) \in Nat
  BY <1>1, <1>3, FS_Subset, FS_CardinalityType
<1> QED BY <1>2, <1>4, <1>5

\* Ascending lists a set, every number at its place.
LEMMA AscendingIs ==
    ASSUME NEW S \in SUBSET Nat, IsFiniteSet(S)
    PROVE  /\ Cardinality(S) \in Nat
           /\ Ascending(S) \in [1..Cardinality(S) -> S]
           /\ Ascending(S) \in Seq(S)
           /\ Len(Ascending(S)) = Cardinality(S)
           /\ \A i \in S : PlaceIn(S, i) \in 1..Cardinality(S) /\ Ascending(S)[PlaceIn(S, i)] = i
           /\ \A n \in 1..Cardinality(S) : PlaceIn(S, Ascending(S)[n]) = n
           /\ \A m, n \in 1..Cardinality(S) : m < n => Ascending(S)[m] < Ascending(S)[n]
<1> DEFINE c == Cardinality(S)  a == Ascending(S)
           p == [i \in S |-> PlaceIn(S, i)]
<1>1. c \in Nat
  BY FS_CardinalityType
<1>2. \A i \in S : PlaceIn(S, i) \in 1..c
  BY PlaceType
<1>3. p \in [S -> 1..c] /\ \A i \in S : p[i] = PlaceIn(S, i)
  BY <1>2
<1>4. \A i, j \in S : PlaceIn(S, i) = PlaceIn(S, j) => i = j
  <2> TAKE i, j \in S
  <2>1. i \in Nat /\ j \in Nat /\ PlaceIn(S, i) \in Nat /\ PlaceIn(S, j) \in Nat
    BY <1>1, <1>2
  <2>2. i < j => PlaceIn(S, i) < PlaceIn(S, j)
    BY PlaceGrows
  <2>3. j < i => PlaceIn(S, j) < PlaceIn(S, i)
    BY PlaceGrows
  <2> QED BY <2>1, <2>2, <2>3
<1>5. \A n \in 1..c : \E i \in S : PlaceIn(S, i) = n
  <2> HIDE DEF p
  <2>1. p \in Injection(S, 1..c)
    BY <1>3, <1>4 DEF Injection, IsInjective
  <2>2. IsFiniteSet(1..c) /\ Cardinality(1..c) = c
    <3> HIDE DEF c
    <3> QED BY <1>1, FS_Interval
  <2>3. p \in Surjection(S, 1..c)
    BY <2>1, <2>2, FS_Injection
  <2> QED BY <2>3, <1>3 DEF Surjection
<1>6. a = [n \in 1..c |-> CHOOSE i \in S : PlaceIn(S, i) = n]
  BY DEF Ascending, PlaceIn
<1> HIDE DEF a, c, p
<1>7. \A n \in 1..c : a[n] \in S /\ PlaceIn(S, a[n]) = n
  <2> TAKE n \in 1..c
  <2>1. a[n] = CHOOSE i \in S : PlaceIn(S, i) = n
    BY <1>6
  <2> QED BY <1>5, <2>1
<1>8. a \in [1..c -> S]
  BY <1>6, <1>7
<1>9. a \in Seq(S) /\ Len(a) = c
  BY <1>1, <1>8
<1>10. \A i \in S : a[PlaceIn(S, i)] = i
  BY <1>2, <1>4, <1>7
<1>11. \A m, n \in 1..c : m < n => a[m] < a[n]
  <2> SUFFICES ASSUME NEW m \in 1..c, NEW n \in 1..c, m < n PROVE a[m] < a[n]
    OBVIOUS
  <2>1. a[m] \in S /\ a[n] \in S /\ PlaceIn(S, a[m]) = m /\ PlaceIn(S, a[n]) = n
    BY <1>7
  <2>2. a[n] < a[m] => n < m
    BY <2>1, PlaceGrows
  <2>3. a[m] # a[n] /\ a[m] \in Nat /\ a[n] \in Nat
    <3>1. m \in Nat /\ n \in Nat /\ m # n
      BY <1>1
    <3> QED BY <2>1, <3>1
  <2> QED BY <1>1, <2>2, <2>3
<1> QED BY <1>1, <1>2, <1>7, <1>8, <1>9, <1>10, <1>11 DEF a, c

\* An image under a function that tells elements apart is as large.
LEMMA CardImage ==
    ASSUME NEW W, IsFiniteSet(W), NEW g, \A x, y \in W : g[x] = g[y] => x = y
    PROVE  IsFiniteSet({g[x] : x \in W}) /\ Cardinality({g[x] : x \in W}) = Cardinality(W)
<1> DEFINE V == {g[x] : x \in W}  h == [x \in W |-> g[x]]
<1>1. h \in [W -> V] /\ \A x \in W : h[x] = g[x]
  OBVIOUS
<1>2. \A v \in V : \E x \in W : g[x] = v
  OBVIOUS
<1> HIDE DEF V, h
<1>3. h \in Injection(W, V) /\ h \in Surjection(W, V)
  BY <1>1, <1>2 DEF Injection, IsInjective, Surjection
<1>4. ExistsBijection(W, V)
  BY <1>3 DEF ExistsBijection, Bijection
<1> QED BY <1>4, FS_Bijection DEF V

\* A function that keeps the order keeps places.
LEMMA AscendingImage ==
    ASSUME NEW U \in SUBSET Nat, IsFiniteSet(U), NEW t \in [U -> Nat],
           \A x, y \in U : x < y => t[x] < t[y]
    PROVE  /\ {t[x] : x \in U} \in SUBSET Nat /\ IsFiniteSet({t[x] : x \in U})
           /\ Cardinality({t[x] : x \in U}) = Cardinality(U)
           /\ \A m \in 1..Cardinality(U) :
                Ascending({t[x] : x \in U})[m] = t[Ascending(U)[m]]
<1> DEFINE V == {t[x] : x \in U}
<1>1. V \in SUBSET Nat /\ \A v \in V : \E x \in U : v = t[x]
  OBVIOUS
<1>2. \A x \in U : t[x] \in V /\ x \in Nat /\ t[x] \in Nat
  OBVIOUS
<1>3. \A x, y \in U : (t[x] = t[y] => x = y) /\ (t[x] <= t[y] <=> x <= y)
  BY <1>2
<1>4. IsFiniteSet(V) /\ Cardinality(V) = Cardinality(U)
  <2>1. \A x, y \in U : t[x] = t[y] => x = y
    BY <1>3
  <2> QED BY <2>1, CardImage
<1> HIDE DEF V
<1>5. ASSUME NEW x \in U PROVE PlaceIn(V, t[x]) = PlaceIn(U, x)
  <2> DEFINE W == {y \in U : y <= x}
  <2>1. W \subseteq U /\ \A y, z \in W : t[y] = t[z] => y = z
    BY <1>3
  <2>2. {k \in V : k <= t[x]} = {t[y] : y \in W}
    <3>1. \A y \in W : y \in U /\ y <= x
      OBVIOUS
    <3>2. \A y \in W : t[y] \in V /\ t[y] <= t[x]
      BY <1>2, <1>3, <3>1
    <3>3. \A k \in V : k <= t[x] => \E y \in W : k = t[y]
      BY <1>1, <1>3
    <3> QED BY <3>2, <3>3
  <2>3. PlaceIn(U, x) = Cardinality(W)
    BY DEF PlaceIn
  <2>4. IsFiniteSet(W)
    BY <2>1, FS_Subset
  <2> HIDE DEF W
  <2>5. Cardinality({t[y] : y \in W}) = Cardinality(W)
    BY <2>1, <2>4, CardImage
  <2> QED BY <2>2, <2>3, <2>5 DEF PlaceIn
<1>6. ASSUME NEW m \in 1..Cardinality(U) PROVE Ascending(V)[m] = t[Ascending(U)[m]]
  <2>1. Ascending(U)[m] \in U /\ PlaceIn(U, Ascending(U)[m]) = m
    BY AscendingIs
  <2>2. t[Ascending(U)[m]] \in V /\ PlaceIn(V, t[Ascending(U)[m]]) = m
    BY <1>2, <1>5, <2>1
  <2>3. \A v \in V : Ascending(V)[PlaceIn(V, v)] = v
    BY <1>1, <1>4, AscendingIs
  <2> QED BY <2>2, <2>3
<1> QED BY <1>1, <1>4, <1>6 DEF V

\* The numbers that nothing outside them exceeds come last.
LEMMA AscendingTop ==
    ASSUME NEW S \in SUBSET Nat, IsFiniteSet(S), NEW V \in SUBSET S,
           \A x \in V : \A y \in S : x < y => y \in V
    PROVE  /\ IsFiniteSet(V) /\ Cardinality(V) <= Cardinality(S)
           /\ Cardinality(V) \in Nat /\ Cardinality(S) \in Nat
           /\ \A m \in 1..Cardinality(V) :
                Ascending(V)[m] = Ascending(S)[Cardinality(S) - Cardinality(V) + m]
<1>1. IsFiniteSet(V) /\ Cardinality(V) <= Cardinality(S) /\ V \in SUBSET Nat
  BY FS_Subset
<1>2. Cardinality(V) \in Nat /\ Cardinality(S) \in Nat
  BY <1>1, FS_CardinalityType
<1>3. ASSUME NEW m \in 1..Cardinality(V)
      PROVE  Ascending(V)[m] = Ascending(S)[Cardinality(S) - Cardinality(V) + m]
  <2> DEFINE v == Ascending(V)[m]  W == {k \in V : k <= v}
  <2>1. v \in V /\ PlaceIn(V, v) = m
    BY <1>1, AscendingIs
  <2> HIDE DEF v
  <2>2. v \in S /\ v \in Nat /\ \A k \in S : k \in Nat
    BY <2>1
  <2>3. {k \in S : k <= v} = (S \ V) \cup W
    <3>1. \A k \in S : k <= v \/ v < k
      BY <2>2
    <3>2. \A k \in S \ V : k <= v
      BY <2>1, <3>1
    <3> QED BY <3>2
  <2>4. (S \ V) \cap W = {} /\ S \cap V = V /\ W \subseteq V
    OBVIOUS
  <2>5. Cardinality(W) = m
    BY <2>1 DEF PlaceIn
  <2> HIDE DEF W
  <2>6. IsFiniteSet(W)
    BY <1>1, <2>4, FS_Subset
  <2>7. IsFiniteSet(S \ V) /\ Cardinality(S \ V) = Cardinality(S) - Cardinality(V)
    BY <2>4, FS_Difference
  <2>8. Cardinality((S \ V) \cup W) = Cardinality(S) - Cardinality(V) + m
    <3> DEFINE A == S \ V
    <3>1. IsFiniteSet(A) /\ Cardinality(A) = Cardinality(S) - Cardinality(V)
      BY <2>7
    <3>2. Cardinality(A \cap W) = 0
      BY <2>4, FS_EmptySet
    <3> HIDE DEF A
    <3>3. Cardinality(A \cup W) = Cardinality(A) + Cardinality(W) - Cardinality(A \cap W)
      BY <2>6, <3>1, FS_Union
    <3>4. Cardinality(A \cup W) = Cardinality(S) - Cardinality(V) + m
      BY <1>2, <2>5, <3>1, <3>2, <3>3
    <3> QED BY <3>4 DEF A
  <2>9. PlaceIn(S, v) = Cardinality(S) - Cardinality(V) + m
    BY <2>3, <2>8 DEF PlaceIn
  <2>10. Ascending(S)[PlaceIn(S, v)] = v
    BY <2>2, AscendingIs
  <2> QED BY <2>9, <2>10 DEF v
<1> QED BY <1>1, <1>2, <1>3

\* A batch has rows for every request and a group.
BatchOK == batch \in [lens : BatchLens, cp : CpSizes]
Rows == Requests \X Nat

\* What a batch is made of.
LEMMA BatchTypes ==
    ASSUME BatchOK
    PROVE  /\ batch.cp \in Nat \ {0} /\ NumRequests \in Nat /\ TailLen \in Nat
           /\ \A b \in Requests : batch.lens[b] \in Nat
<1>1. batch.cp \in CpSizes /\ batch.lens \in [Requests -> 1..MaxRows]
  BY DEF BatchOK, BatchLens
<1>2. MaxRows \in Nat
  BY TailAssumption
<1>3. \A b \in Requests : batch.lens[b] \in 1..MaxRows
  BY <1>1
<1>4. NumRequests \in Nat /\ TailLen \in Nat /\ CpSizes \subseteq Nat \ {0}
  BY TailAssumption
<1>5. \A b \in Requests : batch.lens[b] \in Nat
  BY <1>2, <1>3
<1> QED BY <1>1, <1>4, <1>5

\* Rows of a request come in their order.
LEMMA AllRowsAre ==
    ASSUME BatchOK
    PROVE  /\ AllRows \in Seq(Rows) /\ Len(AllRows) \in Nat /\ DOMAIN AllRows = 1..Len(AllRows)
           /\ \A i \in 1..Len(AllRows) :
                 AllRows[i][1] \in Requests /\ AllRows[i][2] \in Nat /\ AllRows[i] # NoRow
           /\ \A i, j \in 1..Len(AllRows) :
                 i < j /\ AllRows[i][1] = AllRows[j][1] => AllRows[i][2] < AllRows[j][2]
<1> DEFINE seqs == [b \in Requests |-> RowsOfRequest(b)]
           F(g) == Len(FlattenSeq(SubSeq(seqs, 1, g)))
<1>1. NumRequests \in Nat /\ Requests = 1..NumRequests
  BY BatchTypes DEF Requests
<1>2. ASSUME NEW b \in Requests
      PROVE  /\ RowsOfRequest(b) \in Seq(Rows) /\ Len(RowsOfRequest(b)) \in Nat
             /\ \A k \in 1..Len(RowsOfRequest(b)) : RowsOfRequest(b)[k] = <<b, k>>
  <2> DEFINE n == batch.lens[b]
  <2>1. n \in Nat
    BY BatchTypes
  <2>2. RowsOfRequest(b) = [k \in 1..n |-> <<b, k>>]
    BY DEF RowsOfRequest
  <2> HIDE DEF n
  <2>3. \A k \in 1..n : <<b, k>> \in Rows
    BY <2>1 DEF Rows
  <2> QED BY <2>1, <2>2, <2>3
<1>3. /\ seqs \in Seq(Seq(Rows)) /\ Len(seqs) = NumRequests
      /\ \A b \in 1..NumRequests : seqs[b] = RowsOfRequest(b)
  <2>1. seqs \in [1..NumRequests -> Seq(Rows)]
    BY <1>1, <1>2
  <2> QED BY <1>1, <2>1
<1>4. AllRows = FlattenSeq(seqs)
  BY DEF AllRows
<1> HIDE DEF seqs
<1>5. AllRows \in Seq(Rows)
  <2>1. FlattenSeq(SubSeq(seqs, 1, Len(seqs))) \in Seq(Rows)
    <3>1. Len(seqs) \in 0..Len(seqs)
      BY <1>1, <1>3
    <3> QED BY <1>3, <3>1, FlattenSeqSteps
  <2>2. FlattenSeq(seqs) = FlattenSeq(SubSeq(seqs, 1, Len(seqs)))
    BY <1>3, FlattenSeqSteps
  <2> QED BY <1>4, <2>1, <2>2
<1>6. Len(AllRows) \in Nat /\ DOMAIN AllRows = 1..Len(AllRows)
  BY <1>5
<1>7. \A g \in 1..NumRequests : F(g - 1) \in Nat
  <2> TAKE g \in 1..NumRequests
  <2>1. g - 1 \in 0..NumRequests
    BY <1>1
  <2>2. FlattenSeq(SubSeq(seqs, 1, g - 1)) \in Seq(Rows)
    BY <1>3, <2>1, FlattenSeqSteps
  <2> QED BY <2>2
<1>8. ASSUME NEW i \in 1..Len(AllRows)
      PROVE  \E g \in Requests : \E k \in Nat : i = F(g - 1) + k /\ AllRows[i] = <<g, k>>
  <2>1. PICK g \in 1..NumRequests : \E k \in 1..Len(seqs[g]) : i = F(g - 1) + k
    BY <1>3, <1>4, FlattenSeqFrom
  <2>2. PICK k \in 1..Len(seqs[g]) : i = F(g - 1) + k
    BY <2>1
  <2>3. AllRows[i] = seqs[g][k]
    BY <1>3, <1>4, <2>2, FlattenSeqAt
  <2>4. g \in Requests /\ seqs[g] = RowsOfRequest(g)
    BY <1>1, <1>3
  <2>5. k \in 1..Len(RowsOfRequest(g)) /\ Len(RowsOfRequest(g)) \in Nat
    BY <1>2, <2>2, <2>4
  <2>6. k \in Nat /\ seqs[g][k] = <<g, k>>
    BY <1>2, <2>4, <2>5
  <2> QED BY <2>2, <2>3, <2>4, <2>6
<1> HIDE DEF F
<1>9. ASSUME NEW i \in 1..Len(AllRows)
      PROVE  AllRows[i][1] \in Requests /\ AllRows[i][2] \in Nat /\ AllRows[i] # NoRow
  <2>1. PICK g \in Requests : \E k \in Nat : AllRows[i] = <<g, k>>
    BY <1>8
  <2>2. PICK k \in Nat : AllRows[i] = <<g, k>>
    BY <2>1
  <2>3. <<g, k>> # <<>>
    OBVIOUS
  <2> QED BY <2>2, <2>3 DEF NoRow
<1>10. ASSUME NEW i \in 1..Len(AllRows), NEW j \in 1..Len(AllRows),
              i < j, AllRows[i][1] = AllRows[j][1]
       PROVE  AllRows[i][2] < AllRows[j][2]
  <2>1. PICK g \in Requests : \E k \in Nat : i = F(g - 1) + k /\ AllRows[i] = <<g, k>>
    BY <1>8
  <2>2. PICK k \in Nat : i = F(g - 1) + k /\ AllRows[i] = <<g, k>>
    BY <2>1
  <2>3. PICK h \in Requests : \E m \in Nat : j = F(h - 1) + m /\ AllRows[j] = <<h, m>>
    BY <1>8
  <2>4. PICK m \in Nat : j = F(h - 1) + m /\ AllRows[j] = <<h, m>>
    BY <2>3
  <2>5. g = h /\ AllRows[i][2] = k /\ AllRows[j][2] = m
    BY <1>10, <2>2, <2>4
  <2>6. F(g - 1) \in Nat
    BY <1>1, <1>7
  <2> QED BY <1>10, <2>2, <2>4, <2>5, <2>6
<1> QED BY <1>5, <1>6, <1>9, <1>10

\* The sets whose ascending numbers the layout is made of.
OfRank(r) == {i \in 1..Len(AllRows) : Owner(i) = r}
InTail == {i \in 1..Len(AllRows) : AllRows[i][2] > batch.lens[AllRows[i][1]] - TailLen}
LocalOf(r) == {i \in 1..Len(TokenIndices) : Owner(TokenIndices[i]) = r}

\* Every row has an owner.
LEMMA OwnerIs ==
    ASSUME BatchOK, NEW i \in Nat \ {0}
    PROVE  Owner(i) \in Ranks /\ Owner(i) \in Nat
<1>1. i - 1 \in Nat /\ batch.cp \in Nat \ {0}
  BY BatchTypes
<1>2. (i - 1) % batch.cp \in 0..batch.cp - 1 /\ (i - 1) % batch.cp \in Nat
  BY <1>1, ModIs
<1> QED BY <1>2 DEF Owner, Ranks

\* Picking is by position.
LEMMA PickIs ==
    ASSUME NEW R, NEW seq \in Seq(R), NEW n \in Nat, NEW spots \in [1..n -> 1..Len(seq)]
    PROVE  /\ Pick(seq, spots) \in Seq(R) /\ Len(Pick(seq, spots)) = n
           /\ DOMAIN Pick(seq, spots) = 1..n
           /\ \A m \in 1..n : Pick(seq, spots)[m] = seq[spots[m]]
<1>1. Pick(seq, spots) = [m \in 1..n |-> seq[spots[m]]]
  BY DEF Pick
<1>2. \A m \in 1..n : seq[spots[m]] \in R
  OBVIOUS
<1> QED BY <1>1, <1>2

\* The rows a rank keeps of the batch.
LEMMA OnRankIs ==
    ASSUME BatchOK, NEW r \in Ranks
    PROVE  /\ OfRank(r) \in SUBSET Nat /\ IsFiniteSet(OfRank(r))
           /\ OfRank(r) \in SUBSET (1..Len(AllRows))
           /\ OnRank(r) = Ascending(OfRank(r))
           /\ Len(FullRows(r)) = Cardinality(OfRank(r)) /\ Cardinality(OfRank(r)) \in Nat
           /\ FullRows(r) \in Seq(Rows)
           /\ OnRank(r) \in [1..Cardinality(OfRank(r)) -> OfRank(r)]
           /\ \A n \in 1..Len(FullRows(r)) : FullRows(r)[n] = AllRows[OnRank(r)[n]]
           /\ \A m, n \in 1..Len(FullRows(r)) : m < n => OnRank(r)[m] < OnRank(r)[n]
<1>1. AllRows \in Seq(Rows) /\ Len(AllRows) \in Nat /\ DOMAIN AllRows = 1..Len(AllRows)
  BY AllRowsAre
<1>2. OfRank(r) \in SUBSET (1..Len(AllRows)) /\ OfRank(r) \in SUBSET Nat
  BY <1>1 DEF OfRank
<1>3. IsFiniteSet(OfRank(r))
  <2>1. IsFiniteSet(1..Len(AllRows))
    BY <1>1, FS_Interval
  <2> QED BY <1>2, <2>1, FS_Subset
<1>4. OnRank(r) = Ascending(OfRank(r))
  BY <1>1 DEF OnRank, OfRank
<1>5. /\ Cardinality(OfRank(r)) \in Nat
      /\ OnRank(r) \in [1..Cardinality(OfRank(r)) -> OfRank(r)]
      /\ \A m, n \in 1..Cardinality(OfRank(r)) : m < n => OnRank(r)[m] < OnRank(r)[n]
  BY <1>2, <1>3, <1>4, AscendingIs
<1>6. OnRank(r) \in [1..Cardinality(OfRank(r)) -> 1..Len(AllRows)]
  BY <1>2, <1>5
<1>7. /\ FullRows(r) \in Seq(Rows) /\ Len(FullRows(r)) = Cardinality(OfRank(r))
      /\ \A n \in 1..Cardinality(OfRank(r)) : FullRows(r)[n] = AllRows[OnRank(r)[n]]
  <2> DEFINE c == Cardinality(OfRank(r))  spots == OnRank(r)  rows == AllRows
  <2>1. c \in Nat /\ rows \in Seq(Rows) /\ spots \in [1..c -> 1..Len(rows)]
    BY <1>1, <1>5, <1>6
  <2> HIDE DEF c, spots, rows
  <2>2. /\ Pick(rows, spots) \in Seq(Rows) /\ Len(Pick(rows, spots)) = c
        /\ \A n \in 1..c : Pick(rows, spots)[n] = rows[spots[n]]
    BY <2>1, PickIs
  <2>3. FullRows(r) = Pick(rows, spots)
    BY DEF FullRows, spots, rows
  <2> QED BY <2>2, <2>3 DEF c, spots, rows
<1> QED BY <1>2, <1>3, <1>4, <1>5, <1>7

\* Rows of a rank lie cp apart.
LEMMA RankStep ==
    ASSUME BatchOK, NEW r \in Ranks, NEW i \in OfRank(r)
    PROVE  /\ (i - 1 - r) \div batch.cp + 1 \in 1..Len(FullRows(r))
           /\ OnRank(r)[(i - 1 - r) \div batch.cp + 1] = i
<1> DEFINE c == batch.cp  q == (i - 1) \div c
           g == [n \in 1..q + 1 |-> (n - 1) * c + r + 1]
<1>1. c \in Nat \ {0} /\ r \in 0..c - 1 /\ i - 1 \in Nat /\ i \in Nat /\ r \in Nat
  BY BatchTypes, OnRankIs, AllRowsAre DEF Ranks, OfRank
<1>2. (i - 1) % c = r
  BY DEF OfRank, Owner
<1> HIDE DEF c
<1>3. q \in Nat /\ i - 1 = q * c + r /\ q * c \in Nat
  <2>1. q \in Nat /\ i - 1 = q * c + ((i - 1) % c)
    BY <1>1, ModIs
  <2>2. q * c \in Nat
    BY <1>1, <2>1, MulAdd
  <2> QED BY <1>2, <2>1, <2>2
<1> HIDE DEF q
<1>4. (i - 1 - r) \div c = q
  <2>1. i - 1 - r = q * c + 0
    BY <1>1, <1>3
  <2>2. 0 \in 0..c - 1
    BY <1>1
  <2> QED BY <1>1, <1>3, <2>1, <2>2, DivUnique
<1>5. ASSUME NEW n \in 1..q + 1
      PROVE  /\ g[n] = (n - 1) * c + r + 1 /\ n - 1 \in Nat /\ (n - 1) * c \in Nat
             /\ g[n] \in Nat /\ g[n] <= i /\ (g[n] - 1) % c = r
  <2>1. g[n] = (n - 1) * c + r + 1 /\ n - 1 \in Nat /\ n - 1 <= q
    BY <1>3
  <2>2. (n - 1) * c \in Nat /\ (n - 1) * c <= q * c
    BY <1>1, <1>3, <2>1, MulMono, MulAdd
  <2> HIDE DEF g
  <2> DEFINE k == (n - 1) * c
  <2>3. g[n] = k + r + 1 /\ k \in Nat /\ k <= q * c
    BY <2>1, <2>2
  <2>4. (k + r) % c = r
    BY <1>1, <2>1, DivUnique
  <2> HIDE DEF k
  <2>5. g[n] - 1 = k + r /\ g[n] \in Nat /\ g[n] <= i
    BY <1>1, <1>3, <2>3
  <2> QED BY <2>1, <2>2, <2>4, <2>5
<1>6. \A m, n \in 1..q + 1 : g[m] = g[n] => m = n
  <2> SUFFICES ASSUME NEW m \in 1..q + 1, NEW n \in 1..q + 1, m < n PROVE g[m] < g[n]
    BY <1>3, <1>5
  <2>1. m - 1 \in Nat /\ n - 1 \in Nat /\ (m - 1) + 1 <= n - 1
    BY <1>3
  <2>2. ((m - 1) + 1) * c <= (n - 1) * c /\ ((m - 1) + 1) * c = (m - 1) * c + c
    <3>1. (m - 1) + 1 \in Nat
      BY <2>1
    <3> QED BY <1>1, <2>1, <3>1, MulMono, MulNext
  <2> DEFINE k == (m - 1) * c  l == (n - 1) * c
  <2>3. k + c <= l /\ k \in Nat /\ l \in Nat /\ g[m] = k + r + 1 /\ g[n] = l + r + 1
    BY <1>5, <2>2
  <2> HIDE DEF k, l, g
  <2> QED BY <1>1, <2>3
<1>7. {k \in OfRank(r) : k <= i} = {g[n] : n \in 1..q + 1}
  <2>1. ASSUME NEW n \in 1..q + 1 PROVE g[n] \in OfRank(r) /\ g[n] <= i
    <3>1. g[n] \in Nat /\ g[n] <= i /\ (g[n] - 1) % c = r /\ g[n] >= 1
      BY <1>1, <1>5
    <3> HIDE DEF g
    <3>2. i \in 1..Len(AllRows) /\ Len(AllRows) \in Nat
      BY AllRowsAre DEF OfRank
    <3>3. g[n] \in 1..Len(AllRows)
      BY <3>1, <3>2
    <3> QED BY <3>1, <3>3 DEF OfRank, Owner, c
  <2>2. ASSUME NEW k \in OfRank(r), k <= i PROVE \E n \in 1..q + 1 : k = g[n]
    <3> DEFINE p == (k - 1) \div c
    <3>1. k - 1 \in Nat /\ k \in Nat /\ (k - 1) % c = r
      BY AllRowsAre DEF OfRank, Owner, c
    <3>2. p \in Nat /\ k - 1 = p * c + r /\ p * c \in Nat
      <4>1. p \in Nat /\ k - 1 = p * c + ((k - 1) % c)
        BY <1>1, <3>1, ModIs
      <4>2. p * c \in Nat
        BY <1>1, <4>1, MulAdd
      <4> QED BY <3>1, <4>1, <4>2
    <3> HIDE DEF p
    <3>3. p <= q
      <4> SUFFICES ASSUME q + 1 <= p PROVE FALSE
        BY <1>3, <3>2
      <4>1. (q + 1) * c <= p * c /\ (q + 1) * c = q * c + c
        <5>1. q + 1 \in Nat
          BY <1>3
        <5> QED BY <1>1, <1>3, <3>2, <5>1, MulMono, MulNext
      <4> DEFINE a == q * c  b == p * c
      <4>2. a + c <= b /\ a \in Nat /\ b \in Nat /\ k - 1 = b + r /\ i - 1 = a + r
        BY <1>3, <3>2, <4>1
      <4> HIDE DEF a, b
      <4> QED BY <1>1, <2>2, <3>1, <4>2
    <3>4. p + 1 \in 1..q + 1 /\ (p + 1) - 1 = p
      BY <1>3, <3>2, <3>3
    <3>5. g[p + 1] = p * c + r + 1
      BY <3>4
    <3>6. k = p * c + r + 1
      <4> DEFINE b == p * c
      <4>1. b \in Nat /\ k - 1 = b + r
        BY <3>2
      <4> HIDE DEF b
      <4>2. k = b + r + 1
        BY <1>1, <3>1, <4>1
      <4> QED BY <4>2 DEF b
    <3> HIDE DEF g
    <3> QED BY <3>4, <3>5, <3>6
  <2> HIDE DEF g
  <2> QED BY <2>1, <2>2
<1> HIDE DEF g
<1>8. PlaceIn(OfRank(r), i) = q + 1
  <2>1. IsFiniteSet(1..q + 1) /\ Cardinality(1..q + 1) = q + 1
    BY <1>3, FS_Interval
  <2> DEFINE K == 1..q + 1
  <2>2. IsFiniteSet(K) /\ Cardinality(K) = q + 1 /\ \A m, n \in K : g[m] = g[n] => m = n
    BY <1>6, <2>1
  <2> HIDE DEF K
  <2>3. Cardinality({g[n] : n \in K}) = q + 1
    BY <2>2, CardImage
  <2>4. Cardinality({g[n] : n \in 1..q + 1}) = q + 1
    BY <2>3 DEF K
  <2> QED BY <1>7, <2>4 DEF PlaceIn
<1>9. /\ PlaceIn(OfRank(r), i) \in 1..Cardinality(OfRank(r))
      /\ Ascending(OfRank(r))[PlaceIn(OfRank(r), i)] = i
  BY OnRankIs, AscendingIs
<1>10. Len(FullRows(r)) = Cardinality(OfRank(r)) /\ OnRank(r) = Ascending(OfRank(r))
  BY OnRankIs
<1> QED BY <1>4, <1>8, <1>9, <1>10 DEF c

\* The rows of the batch in the tail.
LEMMA TailIs ==
    ASSUME BatchOK
    PROVE  /\ Len(TokenIndices) \in Nat /\ DOMAIN TokenIndices = 1..Len(TokenIndices)
           /\ TokenIndices \in [1..Len(TokenIndices) -> InTail]
           /\ InTail \in SUBSET (1..Len(AllRows)) /\ InTail \in SUBSET (Nat \ {0})
           /\ \A i \in InTail : \E n \in 1..Len(TokenIndices) : TokenIndices[n] = i
           /\ \A m, n \in 1..Len(TokenIndices) : m < n => TokenIndices[m] < TokenIndices[n]
           /\ TailRows \in Seq(Rows) /\ Len(TailRows) = Len(TokenIndices)
           /\ DOMAIN TailRows = 1..Len(TokenIndices)
           /\ \A n \in 1..Len(TokenIndices) : TailRows[n] = AllRows[TokenIndices[n]]
<1>1. AllRows \in Seq(Rows) /\ Len(AllRows) \in Nat /\ DOMAIN AllRows = 1..Len(AllRows)
  BY AllRowsAre
<1>2. InTail \in SUBSET (1..Len(AllRows)) /\ InTail \in SUBSET Nat /\ InTail \in SUBSET (Nat \ {0})
  BY <1>1 DEF InTail
<1>3. IsFiniteSet(InTail)
  <2>1. IsFiniteSet(1..Len(AllRows))
    BY <1>1, FS_Interval
  <2> QED BY <1>2, <2>1, FS_Subset
<1>4. TokenIndices = Ascending(InTail)
  BY <1>1 DEF TokenIndices, InTail
<1>5. /\ Cardinality(InTail) \in Nat /\ Len(Ascending(InTail)) = Cardinality(InTail)
      /\ Ascending(InTail) \in [1..Cardinality(InTail) -> InTail]
      /\ \A m, n \in 1..Cardinality(InTail) : m < n => Ascending(InTail)[m] < Ascending(InTail)[n]
      /\ \A i \in InTail : PlaceIn(InTail, i) \in 1..Cardinality(InTail)
                           /\ Ascending(InTail)[PlaceIn(InTail, i)] = i
  BY <1>2, <1>3, AscendingIs
<1> DEFINE c == Len(TokenIndices)
<1>6. /\ c \in Nat /\ TokenIndices \in [1..c -> InTail]
      /\ \A m, n \in 1..c : m < n => TokenIndices[m] < TokenIndices[n]
      /\ \A i \in InTail : \E n \in 1..c : TokenIndices[n] = i
  BY <1>4, <1>5
<1> HIDE DEF c
<1>7. TokenIndices \in [1..c -> 1..Len(AllRows)]
  BY <1>2, <1>6
<1>8. TailRows = Pick(AllRows, TokenIndices)
  BY DEF TailRows
<1>9. /\ TailRows \in Seq(Rows) /\ Len(TailRows) = c /\ DOMAIN TailRows = 1..c
      /\ \A n \in 1..c : TailRows[n] = AllRows[TokenIndices[n]]
  <2> DEFINE seq == AllRows  spots == TokenIndices
  <2>1. seq \in Seq(Rows) /\ c \in Nat /\ spots \in [1..c -> 1..Len(seq)]
    BY <1>1, <1>6, <1>7
  <2> HIDE DEF seq, spots
  <2>2. /\ Pick(seq, spots) \in Seq(Rows) /\ Len(Pick(seq, spots)) = c
        /\ DOMAIN Pick(seq, spots) = 1..c
        /\ \A n \in 1..c : Pick(seq, spots)[n] = seq[spots[n]]
    BY <2>1, PickIs
  <2> QED BY <1>8, <2>2 DEF seq, spots
<1>10. DOMAIN TokenIndices = 1..c
  BY <1>6
<1> QED BY <1>2, <1>6, <1>9, <1>10 DEF c

\* Of these, the rows of a rank.
LEMMA LocalIs ==
    ASSUME BatchOK, NEW r \in Ranks
    PROVE  /\ LocalOf(r) \in SUBSET (1..Len(TokenIndices)) /\ LocalOf(r) \in SUBSET Nat
           /\ IsFiniteSet(LocalOf(r)) /\ LocalTailRows(r) = Ascending(LocalOf(r))
           /\ Counts[r] = Cardinality(LocalOf(r)) /\ Counts[r] \in Nat
           /\ LocalTailRows(r) \in [1..Counts[r] -> LocalOf(r)]
           /\ LocalTailRows(r) \in Seq(Nat) /\ Len(LocalTailRows(r)) = Counts[r]
           /\ DOMAIN LocalTailRows(r) = 1..Counts[r]
           /\ \A m, n \in 1..Counts[r] : m < n => LocalTailRows(r)[m] < LocalTailRows(r)[n]
           /\ \A i \in LocalOf(r) : /\ PlaceIn(LocalOf(r), i) \in 1..Counts[r]
                                    /\ LocalTailRows(r)[PlaceIn(LocalOf(r), i)] = i
<1>1. Len(TokenIndices) \in Nat /\ DOMAIN TokenIndices = 1..Len(TokenIndices)
  BY TailIs
<1> DEFINE L == LocalOf(r)
<1>2. L \in SUBSET (1..Len(TokenIndices)) /\ L \in SUBSET Nat
  BY <1>1 DEF LocalOf
<1>3. IsFiniteSet(L)
  <2> HIDE DEF L
  <2>1. IsFiniteSet(1..Len(TokenIndices))
    BY <1>1, FS_Interval
  <2> QED BY <1>2, <2>1, FS_Subset
<1>4. LocalTailRows(r) = Ascending(L)
  BY <1>1 DEF LocalTailRows, LocalOf
<1>5. Counts[r] = Cardinality(L)
  BY <1>1 DEF Counts, LocalOf
<1> HIDE DEF L
<1>6. /\ Cardinality(L) \in Nat /\ Len(Ascending(L)) = Cardinality(L)
      /\ Ascending(L) \in [1..Cardinality(L) -> L]
      /\ \A m, n \in 1..Cardinality(L) : m < n => Ascending(L)[m] < Ascending(L)[n]
      /\ \A i \in L : PlaceIn(L, i) \in 1..Cardinality(L) /\ Ascending(L)[PlaceIn(L, i)] = i
  BY <1>2, <1>3, AscendingIs
<1> DEFINE c == Counts[r]  s == LocalTailRows(r)
<1>7. /\ c = Cardinality(L) /\ c \in Nat /\ s \in [1..c -> L] /\ Len(s) = c
      /\ \A m, n \in 1..c : m < n => s[m] < s[n]
      /\ \A i \in L : PlaceIn(L, i) \in 1..c /\ s[PlaceIn(L, i)] = i
  BY <1>4, <1>5, <1>6
<1> HIDE DEF c, s
<1>8. DOMAIN s = 1..c /\ s \in [1..c -> Nat]
  BY <1>2, <1>7
<1>9. s \in Seq(Nat)
  BY <1>7, <1>8
<1> QED BY <1>2, <1>3, <1>4, <1>7, <1>8, <1>9 DEF c, s, L

\* A rank's rows of the tail, found in its own buffers.
LEMMA LocalTokensAre ==
    ASSUME BatchOK, NEW r \in Ranks
    PROVE  /\ LocalTokenIndices(r) \in [1..Counts[r] -> 1..Len(FullRows(r))]
           /\ DOMAIN LocalTokenIndices(r) = 1..Counts[r]
           /\ \A n \in 1..Counts[r] :
                /\ LocalTailRows(r)[n] \in 1..Len(TokenIndices)
                /\ OnRank(r)[LocalTokenIndices(r)[n]] = TokenIndices[LocalTailRows(r)[n]]
                /\ FullRows(r)[LocalTokenIndices(r)[n]] = TailRows[LocalTailRows(r)[n]]
           /\ \A m, n \in 1..Counts[r] :
                m < n => LocalTokenIndices(r)[m] < LocalTokenIndices(r)[n]
<1> DEFINE c == Counts[r]  t == LocalTokenIndices(r)  s == LocalTailRows(r)
           On(n) == TokenIndices[s[n]]
<1>1. /\ c \in Nat /\ DOMAIN s = 1..c /\ s \in [1..c -> LocalOf(r)]
      /\ LocalOf(r) \in SUBSET (1..Len(TokenIndices))
      /\ \A m, n \in 1..c : m < n => s[m] < s[n]
  BY LocalIs
<1>2. t = [n \in 1..c |-> (On(n) - 1 - r) \div batch.cp + 1]
  BY <1>1 DEF LocalTokenIndices
<1>3. ASSUME NEW n \in 1..c PROVE s[n] \in 1..Len(TokenIndices) /\ On(n) \in OfRank(r)
  <2>1. s[n] \in LocalOf(r) /\ s[n] \in 1..Len(TokenIndices)
    BY <1>1
  <2>2. On(n) \in 1..Len(AllRows)
    BY <2>1, TailIs
  <2>3. Owner(On(n)) = r
    BY <2>1 DEF LocalOf
  <2> QED BY <2>1, <2>2, <2>3 DEF OfRank
<1>4. ASSUME NEW n \in 1..c PROVE t[n] \in 1..Len(FullRows(r)) /\ OnRank(r)[t[n]] = On(n)
  <2>1. t[n] = (On(n) - 1 - r) \div batch.cp + 1
    BY <1>2
  <2> HIDE DEF On, t
  <2> QED BY <1>3, <2>1, RankStep
<1>5. ASSUME NEW n \in 1..c PROVE FullRows(r)[t[n]] = TailRows[s[n]]
  <2>1. FullRows(r)[t[n]] = AllRows[OnRank(r)[t[n]]]
    BY <1>4, OnRankIs
  <2>2. TailRows[s[n]] = AllRows[TokenIndices[s[n]]]
    BY <1>3, TailIs
  <2> QED BY <1>4, <2>1, <2>2
<1>6. t \in [1..c -> 1..Len(FullRows(r))] /\ DOMAIN t = 1..c
  BY <1>2, <1>4
<1>7. ASSUME NEW m \in 1..c, NEW n \in 1..c, m < n PROVE t[m] < t[n]
  <2>1. s[m] < s[n]
    BY <1>1, <1>7
  <2>2. On(m) < On(n) /\ On(m) \in Nat /\ On(n) \in Nat
    BY <1>3, <2>1, TailIs, OnRankIs
  <2>3. t[m] \in 1..Len(FullRows(r)) /\ t[n] \in 1..Len(FullRows(r)) /\ Len(FullRows(r)) \in Nat
    BY <1>4, OnRankIs
  <2>4. OnRank(r)[t[m]] = On(m) /\ OnRank(r)[t[n]] = On(n)
    BY <1>4
  <2> HIDE DEF On, t
  <2>5. t[m] # t[n]
    BY <2>2, <2>4
  <2>6. ~(t[n] < t[m])
    <3>1. t[n] < t[m] => OnRank(r)[t[n]] < OnRank(r)[t[m]]
      BY <2>3, OnRankIs
    <3> QED BY <2>2, <2>4, <3>1
  <2> QED BY <2>3, <2>5, <2>6
<1> HIDE DEF c, t, s
<1> QED BY <1>3, <1>4, <1>5, <1>6, <1>7 DEF c, t, s

\* A bounded set of numbers has a maximum.
LEMMA MaxIs ==
    ASSUME NEW S \in SUBSET Nat, S # {}, NEW m \in Nat, \A x \in S : x <= m
    PROVE  Max(S) \in S /\ \A x \in S : x <= Max(S)
<1> DEFINE P(n) == (\A x \in S : x <= n) => \E z \in S : \A y \in S : y <= z
           U == {n \in Nat : P(n)}
<1>1. 0 \in U
  <2>1. PICK z \in S : TRUE
    OBVIOUS
  <2>2. ASSUME \A x \in S : x <= 0 PROVE \A y \in S : y <= z
    <3>1. \A y \in S : y = 0
      BY <2>2
    <3> QED BY <2>1, <3>1
  <2> QED BY <2>1, <2>2
<1>2. ASSUME NEW n \in Nat, n \in U PROVE n + 1 \in U
  <2> SUFFICES ASSUME \A x \in S : x <= n + 1 PROVE \E z \in S : \A y \in S : y <= z
    OBVIOUS
  <2>1. CASE n + 1 \in S
    BY <1>2, <2>1
  <2>2. CASE n + 1 \notin S
    <3>1. \A x \in S : x <= n
      BY <2>2
    <3> QED BY <1>2, <3>1
  <2> QED BY <2>1, <2>2
<1>3. m \in U
  <2> HIDE DEF U
  <2>1. Nat \subseteq U
    BY <1>1, <1>2, SetInduction
  <2> QED BY <2>1
<1>4. PICK z \in S : \A y \in S : y <= z
  BY <1>3
<1>5. \A y \in S : z >= y
  BY <1>4
<1>6. Max(S) \in S /\ \A y \in S : Max(S) >= y
  BY <1>5 DEF Max
<1> QED BY <1>6

\* No rank has more than the longest share.
LEMMA MaxLocalIs ==
    ASSUME BatchOK
    PROVE  /\ MaxLocal \in Nat
           /\ \A r \in Ranks : /\ Counts[r] \in Nat /\ Counts[r] <= MaxLocal
                               /\ PadRows(r) \in Nat /\ PadRows(r) = MaxLocal - Counts[r]
<1> DEFINE S == {Counts[r] : r \in Ranks}
<1>1. \A r \in Ranks : Counts[r] \in Nat /\ Counts[r] <= Len(TokenIndices)
  <2> TAKE r \in Ranks
  <2>1. LocalOf(r) \in SUBSET (1..Len(TokenIndices)) /\ Counts[r] = Cardinality(LocalOf(r))
        /\ Counts[r] \in Nat
    BY LocalIs
  <2>2. Len(TokenIndices) \in Nat
    BY TailIs
  <2> DEFINE n == Len(TokenIndices)
  <2>3. IsFiniteSet(1..n) /\ Cardinality(1..n) = n
    <3> HIDE DEF n
    <3> QED BY <2>2, FS_Interval DEF n
  <2>4. Cardinality(LocalOf(r)) <= Cardinality(1..n)
    BY <2>1, <2>3, FS_Subset
  <2> QED BY <2>1, <2>3, <2>4
<1>2. 0 \in Ranks
  BY BatchTypes DEF Ranks
<1>3. S \in SUBSET Nat /\ S # {} /\ \A x \in S : x <= Len(TokenIndices)
  BY <1>1, <1>2
<1>4. \A r \in Ranks : Counts[r] \in S
  OBVIOUS
<1>5. MaxLocal = Max(S)
  BY DEF MaxLocal
<1> HIDE DEF S
<1>6. Len(TokenIndices) \in Nat
  BY TailIs
<1>7. Max(S) \in S /\ \A x \in S : x <= Max(S)
  BY <1>3, <1>6, MaxIs
<1>8. MaxLocal \in Nat /\ \A r \in Ranks : Counts[r] <= MaxLocal
  BY <1>3, <1>4, <1>5, <1>7
<1> QED BY <1>1, <1>8 DEF PadRows

\* A rank's rows of the tail, padded.
LEMMA TailOfIs ==
    ASSUME BatchOK, NEW r \in Ranks
    PROVE  /\ TailOf(r) \in Seq(Rows \cup {NoRow}) /\ Len(TailOf(r)) = MaxLocal
           /\ DOMAIN TailOf(r) = 1..MaxLocal
           /\ \A n \in 1..MaxLocal :
                TailOf(r)[n] = IF n <= Counts[r] THEN TailRows[LocalTailRows(r)[n]] ELSE NoRow
<1> DEFINE c == Counts[r]  t == LocalTokenIndices(r)  d == PadRows(r)
           rows == Pick(FullRows(r), t)  pad == [n \in 1..d |-> NoRow]
           R == Rows \cup {NoRow}
<1>1. c \in Nat /\ c <= MaxLocal /\ d \in Nat /\ d = MaxLocal - c /\ MaxLocal \in Nat
  BY MaxLocalIs
<1>2. FullRows(r) \in Seq(Rows) /\ t \in [1..c -> 1..Len(FullRows(r))]
  BY OnRankIs, LocalTokensAre
<1>3. \A n \in 1..c : FullRows(r)[t[n]] = TailRows[LocalTailRows(r)[n]]
  BY LocalTokensAre
<1>4. TailOf(r) = rows \o pad
  BY DEF TailOf
<1> HIDE DEF c, t, d
<1>5. /\ rows \in Seq(Rows) /\ Len(rows) = c
      /\ \A n \in 1..c : rows[n] = FullRows(r)[t[n]]
  BY <1>1, <1>2, PickIs
<1>6. rows \in Seq(R)
  <2> HIDE DEF rows
  <2>1. rows \in [1..c -> Rows]
    BY <1>5
  <2>2. rows \in [1..c -> Rows \cup {NoRow}]
    BY <2>1
  <2> QED BY <1>1, <2>2
<1>7. pad \in Seq(R) /\ Len(pad) = d /\ \A n \in 1..d : pad[n] = NoRow
  BY <1>1
<1> HIDE DEF rows, pad, R
<1>8. /\ rows \o pad \in Seq(R) /\ Len(rows \o pad) = c + d
      /\ \A n \in 1..c + d : (rows \o pad)[n] = IF n <= c THEN rows[n] ELSE pad[n - c]
  <2>1. /\ rows \o pad \in Seq(R) /\ Len(rows \o pad) = Len(rows) + Len(pad)
        /\ \A n \in 1..Len(rows) + Len(pad) :
              (rows \o pad)[n] = IF n <= Len(rows) THEN rows[n] ELSE pad[n - Len(rows)]
    BY <1>6, <1>7, ConcatProperties
  <2> QED BY <1>5, <1>7, <2>1
<1>9. c + d = MaxLocal
  BY <1>1
<1>10. ASSUME NEW n \in 1..MaxLocal
       PROVE  TailOf(r)[n] = IF n <= c THEN TailRows[LocalTailRows(r)[n]] ELSE NoRow
  <2>1. CASE n <= c
    <3>1. n \in 1..c
      BY <1>1, <2>1
    <3> QED BY <1>3, <1>4, <1>5, <1>8, <1>9, <2>1, <3>1
  <2>2. CASE ~(n <= c)
    <3>1. n - c \in 1..d
      BY <1>1, <2>2
    <3> QED BY <1>4, <1>7, <1>8, <1>9, <2>2, <3>1
  <2> QED BY <2>1, <2>2
<1>11. DOMAIN TailOf(r) = 1..MaxLocal
  BY <1>4, <1>8, <1>9
<1> QED BY <1>4, <1>8, <1>9, <1>10, <1>11 DEF R, c

\* Where the rows of a request are.
Named(rows, b) == {n \in 1..Len(rows) : rows[n] # NoRow /\ rows[n][1] = b}

\* The rows of a request, in their order.
LEMMA OfRequestIs ==
    ASSUME NEW R, NEW rows \in Seq(R), NEW b
    PROVE  /\ Named(rows, b) \in SUBSET (1..Len(rows)) /\ Named(rows, b) \in SUBSET Nat
           /\ IsFiniteSet(Named(rows, b)) /\ Cardinality(Named(rows, b)) \in Nat
           /\ OfRequest(rows, b) \in Seq(R) /\ Len(OfRequest(rows, b)) = Cardinality(Named(rows, b))
           /\ \A m \in 1..Cardinality(Named(rows, b)) :
                OfRequest(rows, b)[m] = rows[Ascending(Named(rows, b))[m]]
<1> DEFINE S == Named(rows, b)
<1>1. Len(rows) \in Nat /\ DOMAIN rows = 1..Len(rows)
  OBVIOUS
<1>2. S \in SUBSET (1..Len(rows)) /\ S \in SUBSET Nat
  BY <1>1 DEF Named
<1>3. OfRequest(rows, b) = Pick(rows, Ascending(S))
  BY <1>1 DEF OfRequest, Named
<1> HIDE DEF S
<1>4. IsFiniteSet(S)
  <2>1. IsFiniteSet(1..Len(rows))
    BY <1>1, FS_Interval
  <2> QED BY <1>2, <2>1, FS_Subset
<1> DEFINE c == Cardinality(S)  spots == Ascending(S)
<1>5. c \in Nat /\ spots \in [1..c -> S]
  BY <1>2, <1>4, AscendingIs
<1> HIDE DEF c, spots
<1>6. spots \in [1..c -> 1..Len(rows)]
  BY <1>2, <1>5
<1>7. /\ Pick(rows, spots) \in Seq(R) /\ Len(Pick(rows, spots)) = c
      /\ \A m \in 1..c : Pick(rows, spots)[m] = rows[spots[m]]
  BY <1>5, <1>6, PickIs
<1>8. OfRequest(rows, b) = Pick(rows, spots)
  BY <1>3 DEF spots
<1>9. /\ OfRequest(rows, b) \in Seq(R) /\ Len(OfRequest(rows, b)) = c
      /\ \A m \in 1..c : OfRequest(rows, b)[m] = rows[spots[m]]
  BY <1>7, <1>8
<1> QED BY <1>2, <1>4, <1>5, <1>9 DEF c, spots, S

(* A row of the tail is followed by none of its request that is not in it.  *)
LEMMA TailIsLast ==
    ASSUME BatchOK, NEW r \in Ranks, NEW u \in 1..Counts[r], NEW y \in 1..Len(FullRows(r)),
           LocalTokenIndices(r)[u] < y, FullRows(r)[LocalTokenIndices(r)[u]][1] = FullRows(r)[y][1]
    PROVE  \E p \in 1..Counts[r] : LocalTokenIndices(r)[p] = y
<1> DEFINE t == LocalTokenIndices(r)  i == OnRank(r)[t[u]]  j == OnRank(r)[y]
           F == FullRows(r)
<1>1. t[u] \in 1..Len(F) /\ i = TokenIndices[LocalTailRows(r)[u]]
      /\ LocalTailRows(r)[u] \in 1..Len(TokenIndices)
  BY LocalTokensAre
<1>2. i \in InTail /\ InTail \in SUBSET (1..Len(AllRows))
  BY <1>1, TailIs
<1>3. j \in OfRank(r) /\ OfRank(r) \in SUBSET (1..Len(AllRows)) /\ i < j
  BY <1>1, OnRankIs
<1>4. F[y] = AllRows[j] /\ F[t[u]] = AllRows[i]
  BY <1>1, OnRankIs
<1>5. i \in 1..Len(AllRows) /\ j \in 1..Len(AllRows) /\ Owner(j) = r
  BY <1>2, <1>3 DEF OfRank
<1>6. AllRows[i][1] = AllRows[j][1]
  BY <1>4
<1>7. AllRows[i][2] > batch.lens[AllRows[i][1]] - TailLen
  BY <1>2 DEF InTail
<1> HIDE DEF t, i, j, F
<1>8. /\ AllRows[i][2] < AllRows[j][2] /\ AllRows[j][1] \in Requests
      /\ AllRows[i][2] \in Nat /\ AllRows[j][2] \in Nat
  BY <1>3, <1>5, <1>6, AllRowsAre
<1>9. j \in InTail
  <2> DEFINE x == AllRows[i][2]  z == AllRows[j][2]  l == batch.lens[AllRows[j][1]]
  <2>1. x \in Nat /\ z \in Nat /\ l \in Nat /\ TailLen \in Nat /\ x < z /\ x > l - TailLen
    BY <1>6, <1>7, <1>8, BatchTypes
  <2>2. z > l - TailLen
    <3> HIDE DEF x, z, l
    <3> QED BY <2>1
  <2> QED BY <1>5, <2>2 DEF InTail
<1>10. PICK n \in 1..Len(TokenIndices) : TokenIndices[n] = j
  BY <1>9, TailIs
<1>11. n \in LocalOf(r)
  BY <1>5, <1>10 DEF LocalOf
<1>12. PICK p \in 1..Counts[r] : LocalTailRows(r)[p] = n
  BY <1>11, LocalIs
<1>13. OnRank(r)[t[p]] = j /\ t[p] \in 1..Len(F)
  BY <1>10, <1>12, LocalTokensAre DEF t, F
<1>14. t[p] = y
  <2>1. OnRank(r)[y] = j /\ y \in 1..Len(F) /\ Len(F) \in Nat
    BY OnRankIs DEF j, F
  <2>2. t[p] < y => OnRank(r)[t[p]] < OnRank(r)[y]
    BY <1>13, OnRankIs DEF F
  <2>3. y < t[p] => OnRank(r)[y] < OnRank(r)[t[p]]
    BY <1>13, OnRankIs DEF F
  <2>4. j \in Nat
    BY <1>3, OnRankIs
  <2> QED BY <1>13, <2>1, <2>2, <2>3, <2>4
<1> QED BY <1>14 DEF t

(* A mask cut to the tail is the mask of the tail.                          *)
LEMMA CutIsTail ==
    ASSUME BatchOK, NEW r \in Ranks, NEW b \in Requests
    PROVE  Cut(OfRequest(FullRows(r), b), LocalLens(r)[b]) = OfRequest(TailOf(r), b)
<1> DEFINE t == LocalTokenIndices(r)  F == FullRows(r)  G == TailOf(r)
           S == Named(F, b)  U == Named(G, b)
           tt == [n \in U |-> t[n]]  V == {tt[x] : x \in U}
           full == OfRequest(F, b)
<1>1. F \in Seq(Rows) /\ Len(F) \in Nat
  BY OnRankIs
<1>2. /\ G \in Seq(Rows \cup {NoRow}) /\ Len(G) = MaxLocal /\ MaxLocal \in Nat
      /\ Counts[r] \in Nat /\ Counts[r] <= MaxLocal
  BY TailOfIs, MaxLocalIs
<1>3. ASSUME NEW n \in 1..Counts[r] PROVE n \in 1..MaxLocal /\ t[n] \in 1..Len(F) /\ G[n] = F[t[n]]
  <2>1. n \in 1..MaxLocal /\ n <= Counts[r]
    BY <1>2
  <2>2. G[n] = TailRows[LocalTailRows(r)[n]]
    BY <2>1, TailOfIs
  <2>3. F[t[n]] = TailRows[LocalTailRows(r)[n]] /\ t[n] \in 1..Len(F)
    BY LocalTokensAre
  <2> QED BY <2>1, <2>2, <2>3
<1>4. \A n \in 1..Len(F) : F[n] # NoRow
  <2> TAKE n \in 1..Len(F)
  <2>1. F[n] = AllRows[OnRank(r)[n]] /\ OnRank(r)[n] \in 1..Len(AllRows)
    BY OnRankIs
  <2> QED BY <2>1, AllRowsAre
<1>5. \A n \in 1..MaxLocal : n <= Counts[r] \/ G[n] = NoRow
  BY <1>2, TailOfIs
<1> HIDE DEF F, G, t
<1>6. U = {n \in 1..Counts[r] : F[t[n]][1] = b}
  <2>1. \A n \in U : n \in 1..Counts[r] /\ F[t[n]][1] = b
    BY <1>2, <1>3, <1>5 DEF Named
  <2>2. \A n \in 1..Counts[r] : F[t[n]][1] = b => n \in U
    BY <1>2, <1>3, <1>4 DEF Named
  <2> HIDE DEF U
  <2>3. \A n \in U : n \in 1..Counts[r]
    BY <2>1
  <2> QED BY <2>1, <2>2
<1>7. /\ S \in SUBSET (1..Len(F)) /\ S \in SUBSET Nat /\ IsFiniteSet(S) /\ Cardinality(S) \in Nat
      /\ full \in Seq(Rows) /\ Len(full) = Cardinality(S)
      /\ \A m \in 1..Cardinality(S) : full[m] = F[Ascending(S)[m]]
  BY <1>1, OfRequestIs
<1>8. /\ U \in SUBSET Nat /\ IsFiniteSet(U) /\ Cardinality(U) \in Nat
      /\ OfRequest(G, b) \in Seq(Rows \cup {NoRow}) /\ Len(OfRequest(G, b)) = Cardinality(U)
      /\ \A m \in 1..Cardinality(U) : OfRequest(G, b)[m] = G[Ascending(U)[m]]
  BY <1>2, OfRequestIs
<1>9. \A n \in 1..Len(F) : n \in S <=> F[n][1] = b
  BY <1>4 DEF Named
<1> HIDE DEF U, S, full
<1>10. tt \in [U -> Nat] /\ \A x \in U : tt[x] = t[x]
  BY <1>1, <1>3, <1>6
<1>11. \A x, y \in U : x < y => tt[x] < tt[y]
  BY <1>6, <1>10, LocalTokensAre DEF t
<1> HIDE DEF tt
<1>12. /\ IsFiniteSet(V) /\ Cardinality(V) = Cardinality(U)
       /\ \A m \in 1..Cardinality(U) : Ascending(V)[m] = tt[Ascending(U)[m]]
  BY <1>8, <1>10, <1>11, AscendingImage
<1>13. V \in SUBSET S
  BY <1>3, <1>6, <1>9, <1>10
<1>14. \A x \in V : \A y \in S : x < y => y \in V
  <2> SUFFICES ASSUME NEW u \in U, NEW y \in S, tt[u] < y PROVE \E p \in U : tt[p] = y
    BY DEF V
  <2>1. u \in 1..Counts[r] /\ F[t[u]][1] = b /\ t[u] < y
    BY <1>6, <1>10
  <2>2. y \in 1..Len(F) /\ F[y][1] = b
    BY <1>7, <1>9
  <2>3. PICK p \in 1..Counts[r] : t[p] = y
    BY <2>1, <2>2, TailIsLast DEF t, F
  <2> QED BY <1>6, <1>10, <2>2, <2>3
<1> HIDE DEF V
<1> DEFINE k == Cardinality(U)  l == Cardinality(S)
<1>15. /\ k <= l /\ k \in Nat /\ l \in Nat
       /\ \A m \in 1..k : Ascending(V)[m] = Ascending(S)[l - k + m]
  <2>1. /\ Cardinality(V) <= Cardinality(S)
        /\ \A m \in 1..Cardinality(V) :
             Ascending(V)[m] = Ascending(S)[Cardinality(S) - Cardinality(V) + m]
    BY <1>7, <1>13, <1>14, AscendingTop
  <2> QED BY <1>7, <1>8, <1>12, <2>1
<1>16. LocalLens(r)[b] = k
  <2>1. DOMAIN LocalTailRows(r) = 1..Counts[r]
    BY LocalIs
  <2>2. \A n \in 1..Counts[r] : F[t[n]] = TailRows[LocalTailRows(r)[n]]
    BY LocalTokensAre DEF F, t
  <2>3. LocalLens(r)[b] = Cardinality({n \in 1..Counts[r] : TailRows[LocalTailRows(r)[n]][1] = b})
    BY <2>1 DEF LocalLens
  <2>4. {n \in 1..Counts[r] : TailRows[LocalTailRows(r)[n]][1] = b} = U
    BY <1>6, <2>2
  <2> QED BY <2>3, <2>4
<1>17. \A m \in 1..k : Ascending(U)[m] \in U
  BY <1>8, AscendingIs
<1> HIDE DEF k, l
<1> DEFINE left == SubSeq(full, l - k + 1, l)
<1>18. Cut(full, k) = left
  <2>1. Len(full) = l
    BY <1>7 DEF l
  <2>2. (IF k < l THEN l - k + 1 ELSE 1) = l - k + 1
    BY <1>15
  <2> QED BY <2>1, <2>2 DEF Cut
<1>19. left \in Seq(Rows) /\ Len(left) = k /\ \A m \in 1..k : left[m] = full[l - k + m]
  <2>1. Len(full) = l
    BY <1>7 DEF l
  <2>2. l - k + 1 \in Nat \ {0} /\ l - k + 1 <= l + 1 /\ \A m \in 1..k : (l - k + 1) + m - 1 = l - k + m
    BY <1>15
  <2> QED BY <1>7, <1>15, <2>1, <2>2, SubSeqProperties
<1>20. \A m \in 1..k : left[m] = OfRequest(G, b)[m]
  <2> TAKE m \in 1..k
  <2>1. l - k + m \in 1..l
    BY <1>15
  <2>2. left[m] = F[Ascending(S)[l - k + m]]
    BY <1>7, <1>19, <2>1 DEF l
  <2>3. left[m] = F[t[Ascending(U)[m]]]
    BY <1>10, <1>12, <1>15, <1>17, <2>2 DEF k
  <2>4. G[Ascending(U)[m]] = F[t[Ascending(U)[m]]]
    BY <1>3, <1>6, <1>17
  <2>5. OfRequest(G, b)[m] = G[Ascending(U)[m]]
    BY <1>8 DEF k
  <2> QED BY <2>3, <2>4, <2>5
<1>21. left = OfRequest(G, b)
  <2>1. Len(OfRequest(G, b)) = k
    BY <1>8 DEF k
  <2>2. left \in Seq(Rows \cup {NoRow})
    <3> HIDE DEF left
    <3>1. left \in [1..k -> Rows]
      BY <1>15, <1>19
    <3>2. left \in [1..k -> Rows \cup {NoRow}]
      BY <3>1
    <3> QED BY <1>15, <3>2
  <2> HIDE DEF left
  <2> QED BY <1>8, <1>19, <1>20, <2>1, <2>2, SeqEqual
<1> QED BY <1>16, <1>18, <1>21 DEF full, F, G

\* Blocks of one length.
Even(blocks, w) == \A m \in 1..Len(blocks) : Len(blocks[m]) = w

\* Blocks of one length lie as many lengths behind the first as there are before them.
LEMMA EqualBlocks ==
    ASSUME NEW R, NEW w \in Nat, NEW blocks \in Seq(Seq(R)), Even(blocks, w)
    PROVE  \A m \in 0..Len(blocks) : Len(FlattenSeq(SubSeq(blocks, 1, m))) = m * w
<1> DEFINE n == Len(blocks)
           F(m) == FlattenSeq(SubSeq(blocks, 1, m))
           T == {m \in Nat : m <= n => Len(F(m)) = m * w}
<1>1. /\ \A m \in 1..n : F(m) = F(m - 1) \o blocks[m]
      /\ \A m \in 0..n : F(m) \in Seq(R)
      /\ FlattenSeq(<<>>) = <<>>
  BY FlattenSeqSteps
<1>2. F(0) = <<>>
  <2>1. SubSeq(blocks, 1, 0) = <<>>
    BY SubSeqProperties
  <2> QED BY <1>1, <2>1
<1>3. \A m \in 1..n : blocks[m] \in Seq(R)
  OBVIOUS
<1> HIDE DEF F
<1>4. 0 \in T
  BY <1>2
<1>5. ASSUME NEW m \in Nat, m \in T PROVE m + 1 \in T
  <2> SUFFICES ASSUME m + 1 <= n PROVE Len(F(m + 1)) = (m + 1) * w
    OBVIOUS
  <2>1. /\ Len(F(m)) = m * w /\ m \in 0..n /\ m + 1 \in 1..n /\ (m + 1) - 1 = m
        /\ Len(blocks[m + 1]) = w
    BY <1>5 DEF Even
  <2>2. F(m + 1) = F(m) \o blocks[m + 1] /\ F(m) \in Seq(R) /\ blocks[m + 1] \in Seq(R)
    BY <1>1, <1>3, <2>1
  <2>3. Len(F(m + 1)) = Len(F(m)) + Len(blocks[m + 1])
    BY <2>2, ConcatProperties
  <2>4. Len(F(m + 1)) = m * w + w
    BY <2>1, <2>3
  <2> QED BY <2>4, MulNext
<1> HIDE DEF T
<1>6. Nat \subseteq T
  BY <1>4, <1>5, SetInduction
<1> QED BY <1>6 DEF T, F

(* Gathered from the ranks, the rows are the tail in its order.             *)
LEMMA GatheredIsTail == ASSUME BatchOK PROVE Gathered = TailRows
<1> DEFINE c == batch.cp  w == MaxLocal  R == Rows \cup {NoRow}
           blocks == [n \in 1..c |-> TailOf(n - 1)]
           all == FlattenSeq(blocks)
<1>1. c \in Nat \ {0} /\ w \in Nat
  BY BatchTypes, MaxLocalIs
<1>2. \A n \in 1..c : n - 1 \in Ranks
  BY <1>1 DEF Ranks
<1>3. \A n \in 1..c : TailOf(n - 1) \in Seq(R) /\ Len(TailOf(n - 1)) = w
  BY <1>2, TailOfIs
<1>4. blocks \in Seq(Seq(R)) /\ Len(blocks) = c /\ \A n \in 1..c : blocks[n] = TailOf(n - 1)
  <2> HIDE DEF R, c
  <2>1. blocks \in [1..c -> Seq(R)]
    BY <1>3
  <2> QED BY <1>1, <2>1
<1>5. Gathered = Pick(all, GatherIndex)
  BY DEF Gathered
<1> HIDE DEF blocks, R
<1>6. \A n \in 1..c : Len(blocks[n]) = w
  BY <1>3, <1>4
<1> HIDE DEF w, c
<1>7. \A m \in 0..c : Len(FlattenSeq(SubSeq(blocks, 1, m))) = m * w
  <2>1. Even(blocks, w)
    BY <1>4, <1>6 DEF Even
  <2> QED BY <1>1, <1>4, <2>1, EqualBlocks
<1> DEFINE T == Len(TokenIndices)
           Its(i) == Owner(TokenIndices[i])
           Nth(i) == PlaceIn(LocalOf(Its(i)), i)
<1>8. T \in Nat /\ DOMAIN TailRows = 1..T /\ TailRows \in Seq(Rows) /\ Len(TailRows) = T
  BY TailIs
<1>9. ASSUME NEW i \in 1..T
      PROVE  /\ Its(i) \in Ranks /\ Its(i) \in Nat /\ i \in LocalOf(Its(i))
             /\ GatherIndex[i] = Its(i) * w + Nth(i)
  <2>1. TokenIndices[i] \in Nat \ {0}
    BY TailIs
  <2>2. Its(i) \in Ranks /\ Its(i) \in Nat /\ i \in LocalOf(Its(i))
    BY <2>1, OwnerIs DEF LocalOf
  <2>3. GatherIndex[i] = Its(i) * w + Cardinality({k \in 1..i : Owner(TokenIndices[k]) = Its(i)})
    BY <1>8 DEF GatherIndex, w
  <2> HIDE DEF Its
  <2>4. {k \in 1..i : Owner(TokenIndices[k]) = Its(i)} = {k \in LocalOf(Its(i)) : k <= i}
    BY <1>8 DEF LocalOf
  <2> QED BY <2>2, <2>3, <2>4 DEF PlaceIn
<1> HIDE DEF T
<1>10. ASSUME NEW i \in 1..T
       PROVE  GatherIndex[i] \in 1..Len(all) /\ all[GatherIndex[i]] = TailRows[i]
  <2> DEFINE r == Its(i)  k == Nth(i)  g == r + 1
  <2>1. r \in Ranks /\ r \in Nat /\ i \in LocalOf(r) /\ GatherIndex[i] = r * w + k
    BY <1>9
  <2>2. k \in 1..Counts[r] /\ LocalTailRows(r)[k] = i
    <3> HIDE DEF r
    <3>1. PlaceIn(LocalOf(r), i) \in 1..Counts[r] /\ LocalTailRows(r)[PlaceIn(LocalOf(r), i)] = i
      BY <2>1, LocalIs
    <3> QED BY <3>1 DEF r
  <2> HIDE DEF r, k
  <2>3. g \in 1..c /\ g - 1 = r /\ g - 1 \in 0..c
    BY <1>1, <2>1 DEF Ranks, c
  <2>4. k \in 1..w /\ k <= Counts[r]
    BY <2>1, <2>2, MaxLocalIs DEF w
  <2> HIDE DEF g
  <2>5. blocks[g] = TailOf(r) /\ Len(blocks[g]) = w
    BY <1>4, <1>6, <2>3
  <2>6. TailOf(r)[k] = TailRows[i]
    BY <2>1, <2>2, <2>4, TailOfIs DEF w
  <2>7. Len(FlattenSeq(SubSeq(blocks, 1, g - 1))) + k \in 1..Len(all)
        /\ all[Len(FlattenSeq(SubSeq(blocks, 1, g - 1))) + k] = blocks[g][k]
    BY <1>4, <2>3, <2>4, <2>5, FlattenSeqAt
  <2>8. Len(FlattenSeq(SubSeq(blocks, 1, g - 1))) = r * w
    BY <1>7, <2>3
  <2> QED BY <2>1, <2>5, <2>6, <2>7, <2>8
<1>11. all \in Seq(R)
  <2>1. FlattenSeq(SubSeq(blocks, 1, Len(blocks))) \in Seq(R)
    <3>1. Len(blocks) \in 0..Len(blocks)
      BY <1>1, <1>4
    <3> QED BY <1>4, <3>1, FlattenSeqSteps
  <2>2. all = FlattenSeq(SubSeq(blocks, 1, Len(blocks)))
    BY <1>4, FlattenSeqSteps
  <2> QED BY <2>1, <2>2
<1>12. DOMAIN GatherIndex = 1..T
  BY <1>8 DEF GatherIndex
<1> HIDE DEF all
<1>13. Gathered = [i \in 1..T |-> all[GatherIndex[i]]]
  BY <1>5, <1>12 DEF Pick
<1>14. Gathered = [i \in 1..T |-> TailRows[i]]
  BY <1>10, <1>13
<1> QED BY <1>8, <1>14

\* Rows of the tail that lower ranks own.
Before(r) == {i \in 1..Len(TokenIndices) : Owner(TokenIndices[i]) < r}

\* Each rank adds the rows it owns.
LEMMA BeforeIs ==
    ASSUME BatchOK
    PROVE  /\ Before(0) = {} /\ Before(batch.cp) = 1..Len(TokenIndices)
           /\ \A r \in Nat : Cardinality(Before(r)) \in Nat
           /\ \A r \in Ranks : Cardinality(Before(r + 1)) = Cardinality(Before(r)) + Counts[r]
<1> DEFINE T == 1..Len(TokenIndices)
<1>1. Len(TokenIndices) \in Nat
  BY TailIs
<1>2. IsFiniteSet(T)
  BY <1>1, FS_Interval
<1>3. \A i \in T : Owner(TokenIndices[i]) \in Ranks /\ Owner(TokenIndices[i]) \in Nat
  <2> TAKE i \in T
  <2>1. TokenIndices[i] \in Nat \ {0}
    BY TailIs
  <2> QED BY <2>1, OwnerIs
<1>4. batch.cp \in Nat \ {0}
  BY BatchTypes
<1>5. Before(0) = {} /\ Before(batch.cp) = T
  BY <1>3, <1>4 DEF Before, Ranks
<1>6. \A r \in Nat : Before(r) \subseteq T
  BY DEF Before
<1>7. ASSUME NEW r \in Nat PROVE IsFiniteSet(Before(r)) /\ Cardinality(Before(r)) \in Nat
  <2> HIDE DEF T
  <2> QED BY <1>2, <1>6, FS_Subset, FS_CardinalityType
<1>8. ASSUME NEW r \in Ranks PROVE Cardinality(Before(r + 1)) = Cardinality(Before(r)) + Counts[r]
  <2>1. r \in Nat
    BY <1>4 DEF Ranks
  <2>2. Before(r + 1) = Before(r) \cup LocalOf(r)
    BY <1>3, <2>1 DEF Before, LocalOf
  <2>3. Before(r) \cap LocalOf(r) = {}
    BY <1>3, <2>1 DEF Before, LocalOf
  <2>4. IsFiniteSet(LocalOf(r)) /\ Counts[r] = Cardinality(LocalOf(r)) /\ Counts[r] \in Nat
    BY LocalIs
  <2> DEFINE A == Before(r)  B == LocalOf(r)
  <2>5. IsFiniteSet(A) /\ IsFiniteSet(B) /\ Cardinality(A \cap B) = 0 /\ Cardinality(A) \in Nat
    BY <1>7, <2>1, <2>3, <2>4, FS_EmptySet
  <2> HIDE DEF A, B
  <2>6. Cardinality(A \cup B) = Cardinality(A) + Cardinality(B) - Cardinality(A \cap B)
    BY <2>5, FS_Union
  <2>7. Cardinality(B) \in Nat /\ Cardinality(B) = Counts[r]
    BY <2>4 DEF B
  <2>8. Cardinality(A \cup B) = Cardinality(A) + Cardinality(B)
    BY <2>5, <2>6, <2>7
  <2> QED BY <2>2, <2>7, <2>8 DEF A, B
<1> QED BY <1>5, <1>7, <1>8

(* The padding rows of a rank begin behind those of the ranks before it,    *)
(* and those of the last rank end at cp times the longest share.            *)
LEMMA PadStartIs ==
    ASSUME BatchOK
    PROVE  /\ PadStart[0] = Len(TailRows) /\ PadStart[batch.cp] = batch.cp * MaxLocal
           /\ \A r \in Ranks : PadStart[r + 1] = PadStart[r] + PadRows(r)
           /\ \A r \in 0..batch.cp : PadStart[r] \in Nat
<1> DEFINE c == batch.cp  w == MaxLocal  t == Len(TailRows)
           P(f) == f = [r \in 0..batch.cp |->
                          IF r = 0 THEN Len(TailRows) ELSE f[r - 1] + PadRows(r - 1)]
           g == [r \in 0..c |-> t + r * w - Cardinality(Before(r))]
<1>1. c \in Nat \ {0} /\ w \in Nat /\ t \in Nat /\ t = Len(TokenIndices)
  BY BatchTypes, MaxLocalIs, TailIs
<1>2. \A r \in Ranks : PadRows(r) \in Nat /\ PadRows(r) = w - Counts[r] /\ Counts[r] \in Nat
  BY MaxLocalIs
<1>3. /\ Cardinality(Before(0)) = 0 /\ Cardinality(Before(c)) = t
      /\ \A r \in Nat : Cardinality(Before(r)) \in Nat
      /\ \A r \in Ranks : Cardinality(Before(r + 1)) = Cardinality(Before(r)) + Counts[r]
  <2>1. Cardinality(1..t) = t
    <3> HIDE DEF t
    <3>1. t \in Int /\ 1 \in Int
      BY <1>1
    <3>2. Cardinality(1..t) = IF 1 > t THEN 0 ELSE t - 1 + 1
      BY <3>1, FS_Interval
    <3> QED BY <1>1, <3>2
  <2>2. Before(0) = {} /\ Before(c) = 1..t
    BY <1>1, BeforeIs
  <2>3. Cardinality({}) = 0
    BY FS_EmptySet
  <2> QED BY <2>1, <2>2, <2>3, BeforeIs
<1> HIDE DEF t, w
<1>4. P(g)
  <2> HIDE DEF g
  <2>1. ASSUME NEW r \in 0..c
        PROVE  g[r] = IF r = 0 THEN t ELSE g[r - 1] + PadRows(r - 1)
    <3>1. CASE r = 0
      <4>1. g[0] = t + 0 * w - Cardinality(Before(0)) /\ 0 * w = 0
        BY <1>1, <3>1 DEF g
      <4> QED BY <1>1, <1>3, <3>1, <4>1
    <3>2. CASE r # 0
      <4> DEFINE q == r - 1  b == Cardinality(Before(q))  k == q * w
      <4>1. q \in Ranks /\ q \in Nat /\ q \in 0..c /\ q + 1 = r
        BY <1>1, <3>2 DEF Ranks
      <4>2. g[q] = t + k - b /\ b \in Nat /\ k \in Nat
        BY <1>1, <1>3, <4>1, MulAdd DEF g
      <4>3. r * w = k + w
        BY <1>1, <4>1, MulNext
      <4>4. Cardinality(Before(r)) = b + Counts[q]
        BY <1>3, <4>1
      <4>5. g[r] = t + (k + w) - (b + Counts[q])
        BY <4>3, <4>4 DEF g
      <4>6. PadRows(q) = w - Counts[q] /\ Counts[q] \in Nat
        BY <1>2, <4>1
      <4> HIDE DEF q, b, k
      <4>7. g[r] = g[q] + PadRows(q)
        BY <1>1, <4>2, <4>5, <4>6
      <4> QED BY <3>2, <4>7 DEF q
    <3> QED BY <3>1, <3>2
  <2>2. DOMAIN g = 0..c /\ g = [r \in 0..c |-> g[r]]
    BY DEF g
  <2>3. g = [r \in 0..c |-> IF r = 0 THEN t ELSE g[r - 1] + PadRows(r - 1)]
    BY <2>1, <2>2
  <2> QED BY <2>3 DEF t
<1>5. P(PadStart)
  <2> HIDE DEF g
  <2>1. PadStart = CHOOSE f : P(f)
    BY Zenon DEF PadStart
  <2> HIDE DEF P
  <2> QED BY <1>4, <2>1, Zenon
<1> DEFINE h == [r \in 0..c |-> IF r = 0 THEN t ELSE PadStart[r - 1] + PadRows(r - 1)]
<1>6. PadStart = h /\ \A r \in 0..c : h[r] = IF r = 0 THEN t ELSE PadStart[r - 1] + PadRows(r - 1)
  BY <1>5 DEF t
<1> HIDE DEF P, h
<1>7. \A r \in 0..c : PadStart[r] = IF r = 0 THEN t ELSE PadStart[r - 1] + PadRows(r - 1)
  BY <1>6, Zenon
<1>8. ASSUME NEW r \in Ranks PROVE PadStart[r + 1] = PadStart[r] + PadRows(r)
  <2>1. r + 1 \in 0..c /\ r + 1 # 0 /\ (r + 1) - 1 = r
    BY <1>1 DEF Ranks
  <2> QED BY <1>7, <2>1
<1>9. PadStart[0] = t
  <2>1. 0 \in 0..c
    BY <1>1
  <2> QED BY <1>7, <2>1
<1> DEFINE Good == {r \in Nat : r <= c => PadStart[r] \in Nat /\ PadStart[r] = g[r]}
<1>10. \A r \in 0..c : g[r] = IF r = 0 THEN t ELSE g[r - 1] + PadRows(r - 1)
  <2> HIDE DEF g
  <2> DEFINE e == [r \in 0..c |-> IF r = 0 THEN t ELSE g[r - 1] + PadRows(r - 1)]
  <2>1. g = e /\ \A r \in 0..c : e[r] = IF r = 0 THEN t ELSE g[r - 1] + PadRows(r - 1)
    BY <1>4 DEF t, P
  <2> HIDE DEF e
  <2> QED BY <2>1, Zenon
<1>11. g[c] = c * w
  <2>1. c \in 0..c /\ c * w \in Nat
    BY <1>1, MulAdd
  <2>2. g[c] = t + c * w - Cardinality(Before(c))
    BY <2>1
  <2> DEFINE k == c * w
  <2>3. k \in Nat /\ g[c] = t + k - t
    BY <1>3, <2>1, <2>2
  <2> HIDE DEF k, g
  <2>4. g[c] = k
    BY <1>1, <2>3
  <2> QED BY <2>4 DEF k
<1> HIDE DEF g
<1>12. 0 \in Good
  <2>1. 0 \in 0..c
    BY <1>1
  <2> QED BY <1>1, <1>9, <1>10, <2>1
<1>13. ASSUME NEW r \in Nat, r \in Good PROVE r + 1 \in Good
  <2> SUFFICES ASSUME r + 1 <= c PROVE PadStart[r + 1] \in Nat /\ PadStart[r + 1] = g[r + 1]
    OBVIOUS
  <2>1. r \in Ranks /\ r + 1 \in 0..c /\ r + 1 # 0 /\ (r + 1) - 1 = r /\ r <= c
    BY <1>1 DEF Ranks
  <2>2. PadStart[r] \in Nat /\ PadStart[r] = g[r]
    BY <1>13, <2>1
  <2>3. g[r + 1] = g[r] + PadRows(r)
    BY <1>10, <2>1
  <2> QED BY <1>2, <1>8, <2>1, <2>2, <2>3
<1> HIDE DEF Good
<1>14. Nat \subseteq Good
  BY <1>12, <1>13, SetInduction
<1>15. \A r \in 0..c : PadStart[r] \in Nat /\ PadStart[r] = g[r]
  BY <1>1, <1>14 DEF Good
<1>16. PadStart[c] = c * w
  <2>1. c \in 0..c
    BY <1>1
  <2> QED BY <1>11, <1>15, <2>1
<1> QED BY <1>8, <1>9, <1>15, <1>16 DEF t, w

\* The padding of a rank ends before that of the next begins.
LEMMA PadsAscend ==
    ASSUME BatchOK
    PROVE  \A n \in Nat : \A r \in Nat : r + n <= batch.cp => PadStart[r] <= PadStart[r + n]
<1> DEFINE c == batch.cp
           Good == {n \in Nat : \A r \in Nat : r + n <= c => PadStart[r] <= PadStart[r + n]}
<1>1. c \in Nat \ {0}
  BY BatchTypes
<1>2. /\ \A r \in Ranks : PadStart[r + 1] = PadStart[r] + PadRows(r) /\ PadRows(r) \in Nat
      /\ \A r \in 0..c : PadStart[r] \in Nat
  BY PadStartIs, MaxLocalIs
<1>3. 0 \in Good
  <2> SUFFICES ASSUME NEW r \in Nat, r + 0 <= c PROVE PadStart[r] <= PadStart[r + 0]
    OBVIOUS
  <2>1. r + 0 = r /\ r \in 0..c
    BY <1>1
  <2>2. PadStart[r] \in Nat
    BY <1>2, <2>1
  <2> QED BY <2>1, <2>2
<1>4. ASSUME NEW n \in Nat, n \in Good PROVE n + 1 \in Good
  <2> SUFFICES ASSUME NEW r \in Nat, r + (n + 1) <= c PROVE PadStart[r] <= PadStart[r + (n + 1)]
    OBVIOUS
  <2>1. r + n <= c /\ r + n \in Ranks /\ (r + n) + 1 = r + (n + 1) /\ r \in 0..c /\ r + n \in 0..c
    BY <1>1 DEF Ranks
  <2>2. PadStart[r] <= PadStart[r + n] /\ PadStart[r] \in Nat /\ PadStart[r + n] \in Nat
    BY <1>2, <1>4, <2>1
  <2>3. PadStart[r + (n + 1)] = PadStart[r + n] + PadRows(r + n) /\ PadRows(r + n) \in Nat
    BY <1>2, <2>1
  <2> QED BY <2>2, <2>3
<1> HIDE DEF Good
<1>5. Nat \subseteq Good
  BY <1>3, <1>4, SetInduction
<1> QED BY <1>5 DEF Good

\* The metadata rows of a rank: its own, then its padding.
LEMMA MetadataIs ==
    ASSUME BatchOK, NEW r \in Ranks
    PROVE  /\ Len(LocalMetadataRows(r)) = MaxLocal
           /\ \A n \in 1..MaxLocal :
                LocalMetadataRows(r)[n] =
                   IF n <= Counts[r] THEN LocalTailRows(r)[n] ELSE PadStart[r] + (n - Counts[r])
<1> DEFINE c == Counts[r]  d == PadRows(r)  s == LocalTailRows(r)  p == PadStart[r]
           pad == [n \in 1..d |-> p + n]
<1>1. c \in Nat /\ c <= MaxLocal /\ d \in Nat /\ d = MaxLocal - c /\ MaxLocal \in Nat
  BY MaxLocalIs
<1>2. s \in Seq(Nat) /\ Len(s) = c
  BY LocalIs
<1>3. p \in Nat
  <2>1. r \in 0..batch.cp
    BY BatchTypes DEF Ranks
  <2> QED BY <2>1, PadStartIs
<1>4. LocalMetadataRows(r) = s \o pad
  BY DEF LocalMetadataRows
<1> HIDE DEF c, d, s, p
<1>5. pad \in Seq(Nat) /\ Len(pad) = d /\ \A n \in 1..d : pad[n] = p + n
  BY <1>1, <1>3
<1> HIDE DEF pad
<1>6. /\ Len(s \o pad) = Len(s) + Len(pad)
      /\ \A n \in 1..Len(s) + Len(pad) :
            (s \o pad)[n] = IF n <= Len(s) THEN s[n] ELSE pad[n - Len(s)]
  BY <1>2, <1>5, ConcatProperties
<1>7. /\ Len(s \o pad) = MaxLocal
      /\ \A n \in 1..MaxLocal : (s \o pad)[n] = IF n <= c THEN s[n] ELSE pad[n - c]
  BY <1>1, <1>2, <1>5, <1>6
<1>8. \A n \in 1..MaxLocal : ~(n <= c) => n - c \in 1..d
  BY <1>1
<1>9. \A n \in 1..MaxLocal : (s \o pad)[n] = IF n <= c THEN s[n] ELSE p + (n - c)
  BY <1>5, <1>7, <1>8
<1> QED BY <1>4, <1>7, <1>9 DEF c, s, p

\* The padding rows of a rank are behind the tail and its own.
LEMMA PadsApart ==
    ASSUME BatchOK, NEW r \in Ranks, NEW n \in 1..MaxLocal, ~(n <= Counts[r])
    PROVE  LET spot == LocalMetadataRows(r)[n]
           IN  /\ spot \in Len(TailRows) + 1..batch.cp * MaxLocal
               /\ \A q \in Ranks \ {r} : ~Contains(LocalMetadataRows(q), spot)
<1> DEFINE c == batch.cp  t == Len(TailRows)  w == MaxLocal
           Between(x, q) == PadStart[q] < x /\ x <= PadStart[q + 1]
           spot == LocalMetadataRows(r)[n]
<1>1. c \in Nat \ {0} /\ t \in Nat /\ w \in Nat
  BY BatchTypes, MaxLocalIs, TailIs
<1>2. ASSUME NEW q \in Ranks PROVE q \in Nat /\ q + 1 \in Nat /\ q + 1 <= c /\ q <= c
  BY <1>1 DEF Ranks
<1>3. \A q \in 0..c : PadStart[q] \in Nat
  BY PadStartIs
<1>4. ASSUME NEW x \in Nat, NEW y \in Nat, x <= y, y <= c PROVE PadStart[x] <= PadStart[y]
  <2> DEFINE m == y - x
  <2>1. m \in Nat /\ x + m = y /\ x + m <= c
    BY <1>4
  <2> HIDE DEF m
  <2>2. PadStart[x] <= PadStart[x + m]
    BY <2>1, PadsAscend
  <2> QED BY <2>1, <2>2
<1>5. ASSUME NEW q \in Ranks, NEW m \in 1..w, ~(m <= Counts[q])
      PROVE  LocalMetadataRows(q)[m] \in Nat /\ Between(LocalMetadataRows(q)[m], q)
  <2> DEFINE p == PadStart[q]  k == Counts[q]
  <2>1. LocalMetadataRows(q)[m] = p + (m - k)
    BY <1>5, MetadataIs
  <2>2. PadStart[q + 1] = p + PadRows(q) /\ PadRows(q) = w - k /\ k \in Nat /\ k <= w
    BY PadStartIs, MaxLocalIs
  <2>3. p \in Nat
    <3>1. q \in 0..c
      BY <1>1, <1>2
    <3> QED BY <1>3, <3>1
  <2> HIDE DEF p, k, w
  <2>4. p + (m - k) \in Nat /\ p < p + (m - k) /\ p + (m - k) <= p + (w - k)
    BY <1>1, <1>5, <2>2, <2>3 DEF k
  <2> QED BY <2>1, <2>2, <2>4 DEF p
<1>6. spot \in Nat /\ Between(spot, r)
  BY <1>5
<1> HIDE DEF spot, w, t
<1>7. /\ r \in 0..c /\ r + 1 \in 0..c /\ 0 \in 0..c /\ c \in 0..c
      /\ PadStart[0] = t /\ PadStart[c] = c * w
  BY <1>1, <1>2, PadStartIs DEF t, w
<1>8. spot \in t + 1..c * w
  <2>1. PadStart[0] <= PadStart[r] /\ PadStart[r + 1] <= PadStart[c]
    BY <1>1, <1>2, <1>4
  <2> DEFINE a == PadStart[r]  b == PadStart[r + 1]  e == c * w
  <2>2. a \in Nat /\ b \in Nat /\ e \in Nat /\ t <= a /\ b <= e /\ a < spot /\ spot <= b
    BY <1>3, <1>6, <1>7, <2>1
  <2> HIDE DEF a, b, e
  <2>3. spot \in t + 1..e
    BY <1>1, <1>6, <2>2
  <2> QED BY <2>3 DEF e
<1>9. ASSUME NEW q \in Ranks \ {r}, NEW m \in 1..w PROVE LocalMetadataRows(q)[m] # spot
  <2>1. CASE m <= Counts[q]
    <3>1. m \in 1..Counts[q]
      BY <1>1, <2>1, MaxLocalIs
    <3>2. LocalMetadataRows(q)[m] = LocalTailRows(q)[m]
      BY <2>1, MetadataIs DEF w
    <3>3. LocalTailRows(q)[m] \in 1..t
      <4>1. LocalTailRows(q)[m] \in LocalOf(q) /\ LocalOf(q) \in SUBSET (1..Len(TokenIndices))
        BY <3>1, LocalIs
      <4> QED BY <4>1, TailIs DEF t
    <3> QED BY <1>1, <1>8, <3>2, <3>3
  <2>2. CASE ~(m <= Counts[q])
    <3> DEFINE v == LocalMetadataRows(q)[m]
    <3>1. v \in Nat /\ Between(v, q)
      BY <1>5, <2>2 DEF w
    <3>2. q \in Nat /\ r \in Nat /\ q # r /\ q + 1 <= c /\ r + 1 <= c
      BY <1>2
    <3>3. /\ PadStart[q] \in Nat /\ PadStart[q + 1] \in Nat
          /\ PadStart[r] \in Nat /\ PadStart[r + 1] \in Nat
      <4>1. q \in 0..c /\ q + 1 \in 0..c
        BY <1>1, <3>2
      <4> QED BY <1>3, <1>7, <4>1
    <3> HIDE DEF v
    <3>4. CASE q < r
      <4>1. q + 1 \in Nat /\ q + 1 <= r /\ r <= c
        BY <3>2, <3>4, <1>1
      <4>2. PadStart[q + 1] <= PadStart[r]
        BY <1>4, <3>2, <4>1
      <4>3. v < spot
        BY <1>6, <3>1, <3>3, <4>2
      <4> QED BY <1>6, <3>1, <4>3 DEF v
    <3>5. CASE r < q
      <4>1. r + 1 \in Nat /\ r + 1 <= q /\ q <= c
        BY <3>2, <3>5, <1>1
      <4>2. PadStart[r + 1] <= PadStart[q]
        BY <1>4, <3>2, <4>1
      <4>3. spot < v
        BY <1>6, <3>1, <3>3, <4>2
      <4> QED BY <1>6, <3>1, <4>3 DEF v
    <3> QED BY <3>2, <3>4, <3>5
  <2> QED BY <2>1, <2>2
<1>10. ASSUME NEW q \in Ranks \ {r} PROVE ~Contains(LocalMetadataRows(q), spot)
  <2>1. Len(LocalMetadataRows(q)) = w
    BY MetadataIs DEF w
  <2> QED BY <1>9, <2>1 DEF Contains
<1> QED BY <1>8, <1>10 DEF spot, t, w

\* What a rank's tail buffers take over.
Carried(r) ==
    Pick(FullRows(r), LocalTokenIndices(r)) \o SubSeq(Untouched(MaxLocal), Counts[r] + 1, MaxLocal)

\* Between the steps, masks and selections are those of the rows they are used for.
TailInv ==
    /\ BatchOK
    /\ layer = "first" => selected = Buffers
    /\ layer = "scored" =>
          /\ masks = [r \in Ranks |-> Published(r)]
          /\ selected = [r \in Ranks |-> [full |-> FullRows(r), tail |-> Untouched(MaxLocal)]]
    /\ layer = "tail" =>
          /\ masks = [r \in Ranks |-> [b \in Requests |-> Cut(Published(r)[b], LocalLens(r)[b])]]
          /\ selected = [r \in Ranks |-> [full |-> FullRows(r), tail |-> Carried(r)]]

(* On the tail every mask, slot and index is of the row it is used for.     *)
LEMMA TailServed == ASSUME TailInv PROVE TailServedWithItsOwn
<1> SUFFICES ASSUME layer = "tail" PROVE TailServedWithItsOwn
  BY DEF TailServedWithItsOwn
<1>1. /\ BatchOK
      /\ masks = [r \in Ranks |-> [b \in Requests |-> Cut(Published(r)[b], LocalLens(r)[b])]]
      /\ selected = [r \in Ranks |-> [full |-> FullRows(r), tail |-> Carried(r)]]
  BY DEF TailInv
<1>2. ASSUME NEW r \in Ranks, NEW b \in Requests, SeesGroups(b)
      PROVE  b \in DOMAIN masks[r] /\ masks[r][b] = OfRequest(TailOf(r), b)
  <2>1. Published(r)[b] = OfRequest(FullRows(r), b)
    BY <1>2 DEF Published, Scored
  <2>2. b \in DOMAIN masks[r] /\ masks[r][b] = Cut(Published(r)[b], LocalLens(r)[b])
    BY <1>1
  <2>3. Cut(OfRequest(FullRows(r), b), LocalLens(r)[b]) = OfRequest(TailOf(r), b)
    BY <1>1, CutIsTail
  <2> QED BY <2>1, <2>2, <2>3
<1>3. ASSUME NEW r \in Ranks PROVE selected[r].tail = TailOf(r)
  <2> DEFINE c == Counts[r]  w == MaxLocal  rest == SubSeq(Untouched(w), c + 1, w)
             pad == [n \in 1..w - c |-> NoRow]
  <2>1. c \in Nat /\ w \in Nat /\ c <= w /\ PadRows(r) = w - c
    BY <1>1, MaxLocalIs
  <2>2. selected[r].tail = Pick(FullRows(r), LocalTokenIndices(r)) \o rest
    BY <1>1 DEF Carried
  <2>3. TailOf(r) = Pick(FullRows(r), LocalTokenIndices(r)) \o pad
    BY <2>1 DEF TailOf
  <2> HIDE DEF c, w
  <2>4. rest = pad
    <3> DEFINE un == Untouched(w)
    <3>1. un = [n \in 1..w |-> NoRow]
      BY DEF Untouched
    <3>2. un \in Seq({NoRow}) /\ Len(un) = w /\ \A n \in 1..w : un[n] = NoRow
      BY <2>1, <3>1
    <3> HIDE DEF un
    <3>3. SubSeq(un, c + 1, w) = [n \in 1..w - c |-> un[c + n]]
      <4>1. SubSeq(un, c + 1, w) = [n \in 1..(1 + w - (c + 1)) |-> un[n + (c + 1) - 1]]
        BY <2>1, <3>2
      <4>2. 1 + w - (c + 1) = w - c /\ \A n \in 1..w - c : n + (c + 1) - 1 = c + n
        BY <2>1
      <4> QED BY <4>1, <4>2
    <3>4. \A n \in 1..w - c : c + n \in 1..w
      BY <2>1
    <3> QED BY <3>2, <3>3, <3>4 DEF un
  <2> QED BY <2>2, <2>3, <2>4
<1>4. Gathered = TailRows
  BY <1>1, GatheredIsTail
<1>5. ASSUME NEW r \in Ranks, NEW n \in 1..MaxLocal, n <= Counts[r]
      PROVE  TailRows[LocalMetadataRows(r)[n]] = TailOf(r)[n]
  BY <1>1, <1>5, MetadataIs, TailOfIs
<1>6. ASSUME NEW r \in Ranks, NEW n \in 1..MaxLocal, ~(n <= Counts[r])
      PROVE  /\ LocalMetadataRows(r)[n] \in Len(TailRows) + 1..batch.cp * MaxLocal
             /\ \A q \in Ranks \ {r} : ~Contains(LocalMetadataRows(q), LocalMetadataRows(r)[n])
  BY <1>1, <1>6, PadsApart
<1>7. \A r \in Ranks : \A n \in 1..MaxLocal :
         LET spot == LocalMetadataRows(r)[n]
         IN  IF n <= Counts[r] THEN TailRows[spot] = TailOf(r)[n]
             ELSE /\ spot \in Len(TailRows) + 1..batch.cp * MaxLocal
                  /\ \A q \in Ranks \ {r} : ~Contains(LocalMetadataRows(q), spot)
  BY <1>5, <1>6
<1> QED BY <1>2, <1>3, <1>4, <1>7, Zenon DEF TailServedWithItsOwn

(* The layout is of the batch: a step that keeps the batch keeps it.        *)
LEMMA SameLayout ==
    ASSUME batch' = batch
    PROVE  /\ Ranks' = Ranks /\ MaxLocal' = MaxLocal /\ Counts' = Counts
           /\ \A r : /\ FullRows(r)' = FullRows(r) /\ Published(r)' = Published(r)
                     /\ LocalTokenIndices(r)' = LocalTokenIndices(r) /\ LocalLens(r)' = LocalLens(r)
                     /\ Carried(r)' = Carried(r)
<1>1. Ranks' = Ranks
  BY DEF Ranks
<1>2. \A i : Owner(i)' = Owner(i)
  BY DEF Owner
<1>3. \A b : RowsOfRequest(b)' = RowsOfRequest(b)
  BY DEF RowsOfRequest
<1>4. AllRows' = AllRows
  <2>1. [b \in Requests |-> RowsOfRequest(b)'] = [b \in Requests |-> RowsOfRequest(b)]
    BY <1>3
  <2> QED BY <2>1 DEF AllRows
<1>5. ASSUME NEW r PROVE OnRank(r)' = OnRank(r) /\ FullRows(r)' = FullRows(r)
  <2>1. {i \in DOMAIN AllRows' : Owner(i)' = r} = {i \in DOMAIN AllRows : Owner(i) = r}
    BY <1>2, <1>4
  <2>2. OnRank(r)' = OnRank(r)
    BY <2>1 DEF OnRank
  <2> QED BY <1>4, <2>2 DEF FullRows
<1>6. TokenIndices' = TokenIndices /\ TailRows' = TailRows
  <2>1. {i \in DOMAIN AllRows' : AllRows'[i][2] > batch'.lens[AllRows'[i][1]] - TailLen}
        = {i \in DOMAIN AllRows : AllRows[i][2] > batch.lens[AllRows[i][1]] - TailLen}
    BY <1>4
  <2>2. TokenIndices' = TokenIndices
    BY <2>1 DEF TokenIndices
  <2> QED BY <1>4, <2>2 DEF TailRows
<1>7. ASSUME NEW r PROVE LocalTailRows(r)' = LocalTailRows(r)
  <2>1. {i \in DOMAIN TokenIndices' : (TokenIndices'[i] - 1) % batch'.cp = r}
        = {i \in DOMAIN TokenIndices : (TokenIndices[i] - 1) % batch.cp = r}
    BY <1>6
  <2> QED BY <2>1 DEF LocalTailRows, Owner
<1>8. Counts' = Counts
  <2>1. \A r : {i \in DOMAIN TokenIndices' : (TokenIndices'[i] - 1) % batch'.cp = r}
               = {i \in DOMAIN TokenIndices : (TokenIndices[i] - 1) % batch.cp = r}
    BY <1>6
  <2> QED BY <1>1, <2>1 DEF Counts, Owner
<1>9. MaxLocal' = MaxLocal
  <2>1. {Counts'[r] : r \in Ranks'} = {Counts[r] : r \in Ranks}
    BY <1>1, <1>8
  <2> QED BY <2>1 DEF MaxLocal
<1>10. ASSUME NEW r PROVE LocalTokenIndices(r)' = LocalTokenIndices(r)
  BY <1>6, <1>7 DEF LocalTokenIndices
<1>11. ASSUME NEW r PROVE LocalLens(r)' = LocalLens(r)
  BY <1>6, <1>7 DEF LocalLens
<1>12. ASSUME NEW r PROVE Published(r)' = Published(r)
  <2>1. \A b : SeesGroups(b)' = SeesGroups(b)
    BY DEF SeesGroups
  <2>2. \A b : Scored(r, b)' = Scored(r, b)
    BY <1>5, <2>1 DEF Scored
  <2> QED BY <2>2 DEF Published
<1>13. ASSUME NEW r PROVE Carried(r)' = Carried(r)
  BY <1>5, <1>8, <1>9, <1>10 DEF Carried
<1> QED BY <1>1, <1>5, <1>8, <1>9, <1>10, <1>11, <1>12, <1>13

\* A forward begins with its own metadata.
LEMMA TailInitInv == ASSUME TailInit PROVE TailInv
<1> QED BY DEF TailInit, TailInv, BatchOK

\* A forward begins with fresh buffers.
LEMMA NewForwardKeeps ==
    ASSUME TailInv, NEW lens \in BatchLens, NewForward(lens) PROVE TailInv'
<1>1. batch \in [lens : BatchLens, cp : CpSizes]
  BY DEF TailInv, BatchOK
<1>2. batch' \in [lens : BatchLens, cp : CpSizes]
  BY <1>1 DEF NewForward
<1>3. BatchOK'
  BY <1>2 DEF BatchOK, BatchLens
<1>4. selected' = Buffers' /\ layer' = "first"
  BY DEF NewForward
<1> QED BY <1>3, <1>4 DEF TailInv

\* A batch that stays is a batch.
LEMMA BatchStays == ASSUME BatchOK, batch' = batch PROVE BatchOK'
<1> QED BY DEF BatchOK, BatchLens, Requests

\* The source layer fills masks and selections.
LEMMA SourceLayerKeeps == ASSUME TailInv, SourceLayer PROVE TailInv'
<1> DEFINE un == Untouched(MaxLocal)
<1>1. layer = "first" /\ layer' = "scored" /\ batch' = batch
  BY DEF SourceLayer
<1>2. BatchOK'
  BY <1>1, BatchStays DEF TailInv
<1>3. masks' = [r \in Ranks |-> Published(r)]
  BY DEF SourceLayer
<1>4. selected' = [r \in Ranks |-> [full |-> FullRows(r), tail |-> un]]
  <2>1. selected = [r \in Ranks |-> [full |-> Untouched(Len(FullRows(r))), tail |-> un]]
    BY <1>1 DEF TailInv, Buffers
  <2>2. selected' = [r \in Ranks |-> [selected[r] EXCEPT !.full = FullRows(r)]]
    BY DEF SourceLayer
  <2> HIDE DEF un
  <2>3. \A r \in Ranks : [selected[r] EXCEPT !.full = FullRows(r)] = [full |-> FullRows(r), tail |-> un]
    BY <2>1
  <2> QED BY <2>2, <2>3
<1>5. /\ Ranks' = Ranks /\ un' = un
      /\ \A r : FullRows(r)' = FullRows(r) /\ Published(r)' = Published(r)
  BY <1>1, SameLayout DEF Untouched
<1> HIDE DEF un
<1>6. masks' = [r \in Ranks' |-> Published(r)']
  BY <1>3, <1>5
<1>7. selected' = [r \in Ranks' |-> [full |-> FullRows(r)', tail |-> un']]
  BY <1>4, <1>5
<1> QED BY <1>1, <1>2, <1>6, <1>7 DEF TailInv, un

\* The switch cuts the masks and carries the selections over.
LEMMA EnterTailKeeps == ASSUME TailInv, EnterTail PROVE TailInv'
<1> DEFINE un == Untouched(MaxLocal)
<1>1. layer = "scored" /\ layer' = "tail" /\ batch' = batch
  BY DEF EnterTail
<1>2. BatchOK'
  BY <1>1, BatchStays DEF TailInv
<1>3. masks' = [r \in Ranks |-> [b \in Requests |-> Cut(Published(r)[b], LocalLens(r)[b])]]
  <2>1. masks = [r \in Ranks |-> Published(r)]
    BY <1>1 DEF TailInv
  <2>2. masks' = [r \in Ranks |-> [b \in DOMAIN masks[r] |-> Cut(masks[r][b], LocalLens(r)[b])]]
    BY DEF EnterTail
  <2>3. \A r \in Ranks : masks[r] = Published(r) /\ DOMAIN Published(r) = Requests
    BY <2>1 DEF Published
  <2>4. \A r \in Ranks : [b \in DOMAIN masks[r] |-> Cut(masks[r][b], LocalLens(r)[b])]
                         = [b \in Requests |-> Cut(Published(r)[b], LocalLens(r)[b])]
    BY <2>3
  <2> QED BY <2>2, <2>4
<1>4. selected' = [r \in Ranks |-> [full |-> FullRows(r), tail |-> Carried(r)]]
  <2>1. selected = [r \in Ranks |-> [full |-> FullRows(r), tail |-> un]]
    BY <1>1 DEF TailInv
  <2>2. selected' = [r \in Ranks |->
           [selected[r] EXCEPT
               !.tail = Pick(selected[r].full, LocalTokenIndices(r))
                        \o SubSeq(selected[r].tail, Counts[r] + 1, MaxLocal)]]
    BY DEF EnterTail
  <2>3. \A r : Carried(r) = Pick(FullRows(r), LocalTokenIndices(r))
                            \o SubSeq(un, Counts[r] + 1, MaxLocal)
    BY DEF Carried
  <2> HIDE DEF un
  <2>4. ASSUME NEW r \in Ranks
        PROVE  [selected[r] EXCEPT
                  !.tail = Pick(selected[r].full, LocalTokenIndices(r))
                           \o SubSeq(selected[r].tail, Counts[r] + 1, MaxLocal)]
               = [full |-> FullRows(r), tail |-> Carried(r)]
    <3>1. selected[r] = [full |-> FullRows(r), tail |-> un]
      BY <2>1
    <3>2. selected[r].full = FullRows(r) /\ selected[r].tail = un
      BY <3>1
    <3>3. Pick(selected[r].full, LocalTokenIndices(r))
          \o SubSeq(selected[r].tail, Counts[r] + 1, MaxLocal) = Carried(r)
      BY <2>3, <3>2
    <3> DEFINE new == Pick(selected[r].full, LocalTokenIndices(r))
                      \o SubSeq(selected[r].tail, Counts[r] + 1, MaxLocal)
    <3>4. new = Carried(r)
      BY <3>3
    <3> HIDE DEF new
    <3>5. [selected[r] EXCEPT !.tail = new] = [full |-> FullRows(r), tail |-> Carried(r)]
      BY <3>1, <3>4
    <3> QED BY <3>5 DEF new
  <2> QED BY <2>2, <2>4
<1>5. /\ Ranks' = Ranks
      /\ \A r : /\ FullRows(r)' = FullRows(r) /\ Published(r)' = Published(r)
                /\ Carried(r)' = Carried(r) /\ LocalLens(r)' = LocalLens(r)
  BY <1>1, SameLayout
<1>6. masks' = [r \in Ranks' |-> [b \in Requests |-> Cut(Published(r)'[b], LocalLens(r)'[b])]]
  BY <1>3, <1>5
<1>7. selected' = [r \in Ranks' |-> [full |-> FullRows(r)', tail |-> Carried(r)']]
  BY <1>4, <1>5
<1> QED BY <1>1, <1>2, <1>6, <1>7 DEF TailInv

\* A step that changes nothing keeps it.
LEMMA TailStutters == ASSUME TailInv, UNCHANGED tailVars PROVE TailInv'
<1>1. batch' = batch /\ layer' = layer /\ masks' = masks /\ selected' = selected
  BY DEF tailVars
<1>2. BatchOK'
  BY <1>1, BatchStays DEF TailInv
<1>3. /\ Ranks' = Ranks /\ MaxLocal' = MaxLocal
      /\ \A r : /\ FullRows(r)' = FullRows(r) /\ Published(r)' = Published(r)
                /\ Carried(r)' = Carried(r) /\ LocalLens(r)' = LocalLens(r)
  BY <1>1, SameLayout
<1>4. Buffers' = Buffers
  BY <1>3 DEF Buffers
<1>5. layer' = "first" => selected' = Buffers'
  BY <1>1, <1>4 DEF TailInv
<1>6. layer' = "scored" =>
         /\ masks' = [r \in Ranks' |-> Published(r)']
         /\ selected' = [r \in Ranks' |-> [full |-> FullRows(r)', tail |-> Untouched(MaxLocal')]]
  BY <1>1, <1>3 DEF TailInv
<1>7. layer' = "tail" =>
         /\ masks' = [r \in Ranks' |-> [b \in Requests |-> Cut(Published(r)'[b], LocalLens(r)'[b])]]
         /\ selected' = [r \in Ranks' |-> [full |-> FullRows(r)', tail |-> Carried(r)']]
  BY <1>1, <1>3 DEF TailInv
<1> QED BY <1>2, <1>5, <1>6, <1>7 DEF TailInv, Requests

\* Every step keeps it.
LEMMA TailNextInv == ASSUME TailInv, [TailNext]_tailVars PROVE TailInv'
<1>1. ASSUME NEW lens \in BatchLens, NewForward(lens) PROVE TailInv'
  BY <1>1, NewForwardKeeps
<1>2. CASE SourceLayer
  BY <1>2, SourceLayerKeeps
<1>3. CASE EnterTail
  BY <1>3, EnterTailKeeps
<1>4. CASE ExitTail
  <2>1. batch' = batch /\ layer' = "done"
    BY <1>4 DEF ExitTail
  <2>2. BatchOK'
    BY <2>1, BatchStays DEF TailInv
  <2> QED BY <2>1, <2>2 DEF TailInv
<1>5. CASE UNCHANGED tailVars
  BY <1>5, TailStutters
<1> QED BY <1>1, <1>2, <1>3, <1>4, <1>5 DEF TailNext

(* The invariant of the tail holds.                                         *)
THEOREM TailInvHolds == TailSpec => []TailInv
<1>1. TailInit => TailInv
  BY TailInitInv
<1>2. TailInv /\ [TailNext]_tailVars => TailInv'
  BY TailNextInv
<1> QED BY <1>1, <1>2, PTL DEF TailSpec

\* No row of the tail is served with another row's data (enter_late_layer_tail).
THEOREM TailServedWithItsOwnHolds == TailSpec => []TailServedWithItsOwn
<1>1. TailInv => TailServedWithItsOwn
  BY TailServed
<1> QED BY <1>1, TailInvHolds, PTL
=============================================================================
