----------------------------- MODULE GraphReplay -----------------------------
(***************************************************************************)
(* A CUDA graph is recorded once and replayed for every batch: its kernels *)
(* read the addresses they were recorded with, whatever objects Python     *)
(* holds by then.  deepseek_v4_backend.py prepares each replay outside of  *)
(* the graph, by copying into captured tensors, by replacing objects, or   *)
(* by recording the preparation itself.  Warm-up runs, idle batches, the   *)
(* backends of several draft steps and eager forwards lie in between.      *)
(* This module asks whether a replay ever reads what an earlier batch, or  *)
(* the capture, left behind.                                               *)
(*                                                                         *)
(* A value is the batch it was computed from.  The runner is external: it  *)
(* fills its input buffers before every replay, and resets lengths and     *)
(* locations, but not request indices, when a batch is idle.  The          *)
(* ratio-128 online compressor (online_c128_mtp) is taken to be off.       *)
(***************************************************************************)
EXTENDS Integers, Sequences, FiniteSets

CONSTANTS
    GraphSizes,  \* batch sizes graphs are captured for
    DraftSteps,  \* speculative_num_steps
    LiveBatches, \* names of batches; two suffice to tell a batch from the one before
    MaxWarmups   \* bound on the warm-up runs of a capture

ASSUME GraphAssumption ==
    /\ {"capture", "idle", "unset"} \cap LiveBatches = {}
    /\ DraftSteps \in Nat \ {0}

Buckets == [target |-> {"decode", "verify"}, draft |-> {"decode"},
            block |-> {"verify"}, extend |-> {"draft_extend"}, prefill |-> {"prefill"}]
Inputs == {"req", "seq", "loc"}

\* What captured prefill kernels read by address, what the breaks between them read of
\* the object, and what the kernels leave for the breaks.
Kernel == {"raw_out_loc", "lens", "indexer", "low_ratio_pos"}
Break == {"page_table", "swa_page_indices"}
Produced == {"sparse_page_indices"}
PrefillFields == Kernel \cup Break \cup Produced

VARIABLES
    runner,   \* the graph runner at work: it decides which metadata it deals with
    aliased,  \* whether captured metadata holds the runner's own input buffers
    inputs,   \* the runner's input buffers
    captured, \* cuda_graph_metadata_of_bucket_and_bs of every backend
    graph,    \* how the kernels of a key were recorded
    current,  \* forward_metadata of every backend
    restore,  \* _current_capture_raw of every backend
    turn,     \* the capture or batch under way
    ran       \* what the kernels of the last replay read

graphVars == <<runner, aliased, inputs, captured, graph, current, restore, turn, ran>>

\* A backend per draft step; every other runner has one.
Backends == IF runner = "draft" THEN 0..DraftSteps - 1 ELSE {0}
Keys == [bucket : Buckets[runner], size : GraphSizes]
Nowhere == [bucket |-> "none", size |-> 0]
Resting == [at |-> "rest", key |-> Nowhere, batch |-> "unset", runs |-> 0]

(* Decode and verify metadata starts raw and is made full inside the graph. *)
IsRaw(key) == runner \in {"target", "draft"} /\ key # Nowhere
Made(key, value) ==
    IF key.bucket = "prefill"
    THEN [held |-> [f \in PrefillFields |-> value], shown |-> [f \in PrefillFields |-> value]]
    ELSE [f \in Inputs \cup {"swa"} |-> value]

\* A tensor of captured raw metadata: the runner's buffer itself, or a copy.
Cell(i, key, f) ==
    IF aliased /\ IsRaw(key) /\ f \in {"req", "seq"} THEN inputs[f] ELSE captured[i][key][f]

-----------------------------------------------------------------------------
GraphInit ==
    /\ runner \in DOMAIN Buckets
    /\ aliased \in (IF runner \in {"target", "draft"} THEN BOOLEAN ELSE {FALSE})
    /\ inputs = [f \in Inputs |-> "capture"]
    /\ captured = [i \in Backends |-> [key \in Keys |-> <<>>]]
    /\ graph = [i \in Backends |-> [key \in Keys |-> "none"]]
    /\ current = [i \in Backends |-> [key |-> Nowhere, full |-> TRUE]]
    /\ restore = [i \in Backends |-> Nowhere]
    /\ turn = Resting
    /\ ran = [i \in Backends |-> <<>>]

AllCaptured == \A key \in Keys : graph[0][key] # "none"

(***************************************************************************)
(* A capture: metadata is stored for the key, the model runs a few times   *)
(* to warm up, and runs once more while it is recorded.                    *)
(***************************************************************************)
CaptureOutGraph(key) ==
    /\ turn = Resting /\ graph[0][key] = "none" /\ runner # "prefill"
    /\ captured' = [i \in Backends |-> [captured[i] EXCEPT ![key] = Made(key, "capture")]]
    /\ current' = [i \in Backends |-> [key |-> key, full |-> ~IsRaw(key)]]
    /\ restore' = [i \in Backends |-> IF IsRaw(key) THEN key ELSE Nowhere]
    /\ turn' = [Resting EXCEPT !.at = "warm", !.key = key]
    /\ UNCHANGED <<runner, aliased, inputs, graph, ran>>

\* A run outside of the graph makes raw metadata full there and then.
WarmUp ==
    /\ turn.at = "warm" /\ turn.runs < MaxWarmups
    /\ current' = [i \in Backends |-> [current[i] EXCEPT !.full = TRUE]]
    /\ turn' = [turn EXCEPT !.runs = @ + 1]
    /\ UNCHANGED <<runner, aliased, inputs, captured, graph, restore, ran>>

(* Mutant: what warm-up has made full stays so.                             *)
LeftFull(i) == current[i]

Restored(i) ==
    IF restore[i] # Nowhere THEN [key |-> restore[i], full |-> FALSE] ELSE current[i]

AfterWarmUp ==
    /\ turn.at = "warm"
    /\ current' = [i \in Backends |-> Restored(i)]
    /\ turn' = [turn EXCEPT !.at = "record"]
    /\ UNCHANGED <<runner, aliased, inputs, captured, graph, restore, ran>>

(* Metadata that is still raw is made full by recorded operations; full     *)
(* metadata is read at the addresses it has.                                *)
Record ==
    /\ turn.at = "record"
    /\ graph' = [i \in Backends |->
          [graph[i] EXCEPT ![turn.key] =
              IF ~IsRaw(turn.key) THEN "stored" ELSE IF current[i].full THEN "frozen" ELSE "made"]]
    /\ current' = [i \in Backends |-> [current[i] EXCEPT !.full = TRUE]]
    /\ turn' = Resting
    /\ UNCHANGED <<runner, aliased, inputs, captured, restore, ran>>

\* Breakable prefill graphs are recorded over metadata that is built full.
CapturePrefill(key) ==
    /\ turn = Resting /\ runner = "prefill" /\ graph[0][key] = "none"
    /\ captured' = [captured EXCEPT ![0][key] = Made(key, "capture")]
    /\ graph' = [graph EXCEPT ![0][key] = "stored"]
    /\ current' = [current EXCEPT ![0] = [key |-> key, full |-> TRUE]]
    /\ UNCHANGED <<runner, aliased, inputs, restore, turn, ran>>

(***************************************************************************)
(* A replay: the runner fills its buffers, the metadata is prepared, the   *)
(* kernels run.                                                            *)
(***************************************************************************)
Fill(key, b) ==
    /\ turn = Resting /\ AllCaptured
    /\ b = "idle" => runner # "prefill"
    /\ inputs' = [f \in Inputs |-> IF b = "idle" /\ f = "req" THEN inputs[f] ELSE b]
    /\ turn' = [at |-> "filled", key |-> key, batch |-> b, runs |-> 0]
    /\ ran' = [i \in Backends |-> <<>>]
    /\ UNCHANGED <<runner, aliased, captured, graph, current, restore>>

(* Of an idle batch nothing is taken from the buffers.                      *)
Temporary(f) == IF turn.batch = "idle" THEN "idle" ELSE inputs[f]

(* Captured raw metadata takes the contents.  A copy into a buffer of the   *)
(* runner writes the runner's buffer.                                       *)
CopyRaw(old) == [f \in DOMAIN old |-> IF f \in Inputs THEN Temporary(f) ELSE old[f]]
InputsAfterCopy ==
    [f \in Inputs |-> IF aliased /\ IsRaw(turn.key) /\ f \in {"req", "seq"}
                      THEN Temporary(f) ELSE inputs[f]]

(* Full metadata of a draft block reuses the captured window tensors, which *)
(* the recorded operations rebuild; that of a draft extend is copied whole. *)
CopyFull(old) ==
    [f \in DOMAIN old |-> IF f = "swa" /\ runner = "block" THEN old[f]
                          ELSE IF f = "swa" THEN Temporary("seq") ELSE Temporary(f)]

\* The last draft step is captured with the others and never runs.
Replayed == IF runner = "draft" THEN 0..DraftSteps - 2 ELSE {0}

(* Every later draft step copies from the first.                            *)
OutGraph ==
    /\ turn.at = "filled" /\ runner # "prefill"
    /\ captured' = [i \in Backends |->
          IF i \notin Replayed THEN captured[i]
          ELSE [captured[i] EXCEPT ![turn.key] =
                   IF IsRaw(turn.key) THEN CopyRaw(@) ELSE CopyFull(@)]]
    /\ inputs' = InputsAfterCopy
    /\ current' = [i \in Backends |->
          IF i \in Replayed THEN [key |-> turn.key, full |-> ~IsRaw(turn.key)] ELSE current[i]]
    /\ turn' = [turn EXCEPT !.at = "ready"]
    /\ UNCHANGED <<runner, aliased, graph, restore, ran>>

\* Kernels read captured tensors by address; breaks read the object.
CopiedFields == Kernel
AssignedFields == Break

RefreshPrefill(old) ==
    [held |-> [f \in PrefillFields |-> IF f \in CopiedFields THEN turn.batch ELSE old.held[f]],
     shown |-> [f \in PrefillFields |-> IF f \in CopiedFields \cup AssignedFields
                                        THEN turn.batch ELSE old.shown[f]]]

PreparePrefill ==
    /\ turn.at = "filled" /\ runner = "prefill"
    /\ captured' = [captured EXCEPT ![0][turn.key] = RefreshPrefill(@)]
    /\ current' = [current EXCEPT ![0] = [key |-> turn.key, full |-> TRUE]]
    /\ turn' = [turn EXCEPT !.at = "ready"]
    /\ UNCHANGED <<runner, aliased, inputs, graph, restore, ran>>

(* Speculative decoding and data-parallel padding may fill the locations of *)
(* a draft anew once the metadata is prepared.                              *)
Rebind(b) ==
    /\ turn.at = "ready" /\ turn.batch \in LiveBatches /\ runner \in {"draft", "extend"}
    /\ inputs' = [inputs EXCEPT !.loc = b]
    /\ UNCHANGED <<runner, aliased, captured, graph, current, restore, turn, ran>>

(* What the kernels of a key read.  Recorded operations make raw metadata   *)
(* full from its cells, translate the live locations, a slice per draft     *)
(* step, and rebuild the window of a draft block.                           *)
Reads(i, key) ==
    LET cell(f) == IF graph[i][key] = "frozen" THEN "capture" ELSE Cell(i, key, f)
    IN  [req |-> cell("req"), seq |-> cell("seq"), loc |-> cell("loc"),
         swa |-> IF runner = "block" \/ IsRaw(key) THEN inputs["seq"] ELSE cell("swa"),
         swa_loc |-> <<inputs["loc"], i>>]

Replay ==
    /\ turn.at = "ready" /\ runner # "prefill"
    /\ ran' = [i \in Backends |->
          IF i \in Replayed
          THEN [batch |-> turn.batch, loc |-> inputs["loc"], reads |-> Reads(i, turn.key)]
          ELSE <<>>]
    /\ turn' = Resting
    /\ UNCHANGED <<runner, aliased, inputs, captured, graph, current, restore>>

\* Kernels produce the selected slots at their address; a break reads the current object.
ReplayPrefill ==
    /\ turn.at = "ready" /\ runner = "prefill"
    /\ LET old == captured[0][turn.key]
           run == [held |-> [f \in PrefillFields |-> IF f \in Produced THEN turn.batch ELSE old.held[f]],
                   shown |-> [f \in PrefillFields |-> IF f \in Produced THEN turn.batch ELSE old.shown[f]]]
       IN  /\ captured' = [captured EXCEPT ![0][turn.key] = run]
           /\ ran' = [ran EXCEPT ![0] =
                [batch |-> turn.batch,
                 reads |-> [f \in PrefillFields |->
                    IF f \in Kernel THEN run.held[f]
                    ELSE IF current[0].key = turn.key THEN run.shown[f] ELSE "unset"]]]
    /\ turn' = Resting
    /\ UNCHANGED <<runner, aliased, inputs, graph, current, restore>>

\* A batch that fits no graph runs eagerly on metadata of its own.
Eager ==
    /\ turn = Resting /\ AllCaptured
    /\ current' = [i \in Backends |->
          IF i \in Replayed THEN [key |-> Nowhere, full |-> TRUE] ELSE current[i]]
    /\ UNCHANGED <<runner, aliased, inputs, captured, graph, restore, turn, ran>>

GraphNext ==
    \/ \E key \in Keys : CaptureOutGraph(key) \/ CapturePrefill(key)
    \/ WarmUp \/ AfterWarmUp \/ Record
    \/ \E key \in Keys, b \in LiveBatches \cup {"idle"} : Fill(key, b)
    \/ OutGraph \/ PreparePrefill
    \/ \E b \in LiveBatches : Rebind(b)
    \/ Replay \/ ReplayPrefill \/ Eager

GraphSpec == GraphInit /\ [][GraphNext]_graphVars

(* A replay works on its own batch: the requests, lengths and windows its   *)
(* kernels read are of the batch it was prepared for, and what they write   *)
(* goes to that batch's locations, as they are when the kernels run, or to  *)
(* the dummy slot when the batch is idle (init_forward_metadata_out_graph,  *)
(* init_forward_metadata_in_graph, refresh_for_breakable_cuda_graph_replay_). *)
ReplayReadsItsBatch ==
    \A i \in Backends : ran[i] # <<>> =>
        LET reads == ran[i].reads IN
        IF runner = "prefill" THEN \A f \in PrefillFields : reads[f] = ran[i].batch
        ELSE /\ \A f \in {"req", "seq", "loc"} : reads[f] = ran[i].batch
             /\ reads.swa = ran[i].batch
             /\ reads.swa_loc = <<ran[i].loc, i>>
             /\ ran[i].batch = "idle" => ran[i].loc = "idle"
=============================================================================
