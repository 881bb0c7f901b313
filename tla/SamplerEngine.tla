---------------------------- MODULE SamplerEngine ----------------------------
(***************************************************************************)
(* The native sampler of one device after Setup: the worker thread that    *)
(* rotates the counter passes and publishes windows into a ring, the poll  *)
(* that empties the ring, and Cleanup.  The counter data image, and a      *)
(* window made from it, is the set of <<rotation, pass>> pairs decoded     *)
(* into it.  Perf SDK calls may fail; a decode takes all that is unread.   *)
(***************************************************************************)
EXTENDS Integers, Sequences

CONSTANTS
  NumPasses,         \* passes of a full rotation
  TriggersPerPass,   \* UTLZ_PERF_TRIGGERS_PER_PASS
  StartPass,         \* the pass this device's rotations start with
  WarmupRotations,   \* UTLZ_PERF_PUBLISH_WARMUP_ROTATIONS
  MaxRingRecords,    \* State::maxRingRecords
  MaxRotations       \* bound on the rotations of a behaviour

ASSUME EngineAssumption ==
  /\ NumPasses \in Nat \ {0} /\ TriggersPerPass \in Nat \ {0}
  /\ StartPass \in 0 .. NumPasses - 1
  /\ WarmupRotations \in Nat
  /\ MaxRingRecords \in Nat \ {0}
  /\ MaxRotations \in Nat

VARIABLES
  pc,           \* where the worker thread stands
  rotation,     \* rotations begun
  offset,       \* passOffset
  triggers,     \* triggers sent in this pass
  image,        \* counterDataImage
  warmup,       \* warmupRotationsRemaining
  lastTime,     \* lastPublishedTsEnd, as a number of merged passes
  merged,       \* passes decoded so far: the time stamp of the latest one
  active,       \* perf.active: sampling
  inSession,    \* perf.inSession
  stopFailed,   \* StopSampling has failed once
  ring,         \* windows not polled yet
  caller,       \* "open", or where Cleanup stands
  stopWorker,   \* State::stopWorker
  published,    \* history: every window ever emitted
  taken         \* history: how many were emitted when the ring was last emptied

progress == <<rotation, offset, triggers>>
output == <<ring, warmup, lastTime, published>>
engineVars == <<pc, progress, image, merged, active, inSession, stopFailed, output,
          caller, stopWorker, taken>>

EngineInit ==
  /\ pc = "delay"
  /\ rotation = 0 /\ offset = 0 /\ triggers = 0
  /\ image = {} /\ merged = 0
  /\ warmup = WarmupRotations /\ lastTime = 0
  /\ active = FALSE /\ inSession = TRUE /\ stopFailed = FALSE
  /\ ring = <<>> /\ published = <<>> /\ taken = 0
  /\ caller = "open" /\ stopWorker = FALSE
-----------------------------------------------------------------------------
(***************************************************************************)
(* The worker thread.                                                      *)
(***************************************************************************)

PassIndex == (StartPass + offset) % NumPasses

\* Devices start staggered; the delay does not look at stopWorker.
DelayEnds ==
  /\ pc = "delay"
  /\ pc' = "rotation"
  /\ UNCHANGED <<progress, image, merged, active, inSession, stopFailed, output,
                 caller, stopWorker, taken>>

\* Mutant: the image is not reset.
BeginRotation_KeepsImage ==
  /\ pc = "rotation" /\ ~stopWorker
  /\ rotation < MaxRotations
  /\ rotation' = rotation + 1
  /\ offset' = 0
  /\ pc' = "pass"
  /\ UNCHANGED <<triggers, image, merged, active, inSession, stopFailed, output, caller,
                 stopWorker, taken>>

\* Every rotation starts from the pristine image.
BeginRotation ==
  /\ pc = "rotation" /\ ~stopWorker
  /\ rotation < MaxRotations
  /\ rotation' = rotation + 1
  /\ offset' = 0
  /\ image' = {}
  /\ pc' = "pass"
  /\ UNCHANGED <<triggers, merged, active, inSession, stopFailed, output, caller,
                 stopWorker, taken>>

\* SetConfig and StartSampling; if one fails the loop ends.
StartPassOK ==
  /\ pc = "pass" /\ ~stopWorker /\ offset < NumPasses
  /\ active' = TRUE
  /\ triggers' = 0
  /\ pc' = "sampling"
  /\ UNCHANGED <<rotation, offset, image, merged, inSession, stopFailed, output, caller,
                 stopWorker, taken>>

StartPassFails ==
  /\ pc = "pass" /\ ~stopWorker /\ offset < NumPasses
  /\ pc' = "final"
  /\ UNCHANGED <<progress, image, merged, active, inSession, stopFailed, output, caller,
                 stopWorker, taken>>

Trigger ==
  /\ pc = "sampling" /\ ~stopWorker /\ triggers < TriggersPerPass
  /\ triggers' = triggers + 1
  /\ UNCHANGED <<pc, rotation, offset, image, merged, active, inSession, stopFailed,
                 output, caller, stopWorker, taken>>

\* CpuTrigger fails: the pass is stopped, undecoded, and the loop ends.
TriggerFails ==
  /\ pc = "sampling" /\ ~stopWorker /\ triggers < TriggersPerPass
  /\ pc' = "final"
  /\ \/ active' = FALSE /\ UNCHANGED stopFailed
     \/ stopFailed' = TRUE /\ UNCHANGED active
  /\ UNCHANGED <<progress, image, merged, inSession, output, caller, stopWorker, taken>>

StopPass ==
  /\ pc = "sampling" /\ (stopWorker \/ triggers = TriggersPerPass)
  /\ \/ active' = FALSE /\ pc' = "decode" /\ UNCHANGED stopFailed
     \/ stopFailed' = TRUE /\ pc' = "final" /\ UNCHANGED active
  /\ UNCHANGED <<progress, image, merged, inSession, output, caller, stopWorker, taken>>

\* DecodeCounters merges what the triggers recorded into the image.
MergePass ==
  /\ image' = image \union {<<rotation, PassIndex>>}
  /\ merged' = merged + 1

\* Without a trigger there is nothing unread.
Decode ==
  /\ pc = "decode"
  /\ IF triggers > 0 THEN MergePass ELSE UNCHANGED <<image, merged>>
  /\ offset' = offset + 1
  /\ pc' = "pass"
  /\ UNCHANGED <<rotation, triggers, active, inSession, stopFailed, output, caller,
                 stopWorker, taken>>

\* The record buffer overflowed, or an SDK call failed, before the image was
\* written or after.
DecodeFails ==
  /\ pc = "decode"
  /\ pc' = "final"
  /\ \/ triggers > 0 /\ MergePass
     \/ UNCHANGED <<image, merged>>
  /\ UNCHANGED <<progress, active, inSession, stopFailed, output, caller,
                 stopWorker, taken>>

\* All passes are done, and the loop goes on to publish; or it is told to stop.
RotationEnds ==
  /\ pc = "pass" /\ (offset = NumPasses \/ stopWorker)
  /\ pc' = IF stopWorker THEN "final" ELSE "publish"
  /\ UNCHANGED <<progress, image, merged, active, inSession, stopFailed, output, caller,
                 stopWorker, taken>>

StopSeen ==
  /\ pc = "rotation" /\ stopWorker
  /\ pc' = "final"
  /\ UNCHANGED <<progress, image, merged, active, inSession, stopFailed, output, caller,
                 stopWorker, taken>>
-----------------------------------------------------------------------------
(***************************************************************************)
(* Publishing.                                                             *)
(***************************************************************************)

\* Mutant: nothing is dropped.
Emit_Unbounded(window) ==
  /\ ring' = Append(ring, window)
  /\ published' = Append(published, window)

\* EmitMetricSnapshot: the ring keeps the newest windows.
Emit(window) ==
  /\ ring' = IF Len(ring) < MaxRingRecords THEN Append(ring, window)
             ELSE Append(Tail(ring), window)
  /\ published' = Append(published, window)

\* The image shows a valid sample, with the time stamp of the latest pass.
PublishLatest ==
  IF merged = lastTime THEN UNCHANGED output
  ELSE IF warmup > 0
  THEN /\ warmup' = warmup - 1
       /\ lastTime' = merged
       /\ UNCHANGED <<ring, published>>
  ELSE /\ Emit(image)
       /\ lastTime' = merged
       /\ UNCHANGED warmup

\* MaybePublishFullRotationSnapshot: no completed range is valid, or the image
\* cannot be read, or its latest sample is published.
MaybePublish == UNCHANGED output \/ (image # {} /\ PublishLatest)

Publish ==
  /\ pc = "publish"
  /\ pc' = "rotation"
  /\ MaybePublish
  /\ UNCHANGED <<progress, image, merged, active, inSession, stopFailed, caller,
                 stopWorker, taken>>

\* ReadCompletedFullRotationSamples fails: the loop ends.
PublishFails ==
  /\ pc = "publish"
  /\ pc' = "final"
  /\ UNCHANGED <<progress, image, merged, active, inSession, stopFailed, output, caller,
                 stopWorker, taken>>

\* After the loop: stop a pass left sampling, publish once more, and end.
FinalStop ==
  /\ pc = "final"
  /\ \/ active' = FALSE /\ UNCHANGED stopFailed
     \/ active /\ stopFailed' = TRUE /\ UNCHANGED active
  /\ pc' = "last publish"
  /\ UNCHANGED <<progress, image, merged, inSession, output, caller, stopWorker, taken>>

FinalPublish ==
  /\ pc = "last publish"
  /\ pc' = "ended"
  /\ MaybePublish
  /\ UNCHANGED <<progress, image, merged, active, inSession, stopFailed, caller,
                 stopWorker, taken>>

Worker ==
  \/ DelayEnds \/ BeginRotation \/ StartPassOK \/ StartPassFails \/ Trigger \/ TriggerFails
  \/ StopPass \/ Decode \/ DecodeFails \/ RotationEnds \/ StopSeen
  \/ Publish \/ PublishFails \/ FinalStop \/ FinalPublish
-----------------------------------------------------------------------------
(***************************************************************************)
(* Calls from Go.                                                          *)
(***************************************************************************)

\* state_poll: the ring is swapped for an empty one; an empty ring is "no data".
Poll ==
  /\ caller = "open" /\ ring # <<>>
  /\ ring' = <<>>
  /\ taken' = Len(published)
  /\ UNCHANGED <<pc, progress, image, merged, active, inSession, stopFailed, warmup,
                 lastTime, published, caller, stopWorker>>

\* Mutant: Cleanup joins the worker without telling it to stop.
BeginCleanup_NoStop ==
  /\ caller = "open"
  /\ caller' = "joining"
  /\ UNCHANGED <<pc, progress, image, merged, active, inSession, stopFailed, output,
                 stopWorker, taken>>

BeginCleanup ==
  /\ caller = "open"
  /\ stopWorker' = TRUE
  /\ caller' = "joining"
  /\ UNCHANGED <<pc, progress, image, merged, active, inSession, stopFailed, output, taken>>

\* Mutant: Cleanup does not join.
EndSession_NoJoin ==
  /\ caller = "joining"
  /\ inSession' = FALSE
  /\ \/ active' = FALSE /\ UNCHANGED stopFailed
     \/ active /\ stopFailed' = TRUE /\ UNCHANGED active
  /\ caller' = "clearing"
  /\ UNCHANGED <<pc, progress, image, merged, output, stopWorker, taken>>

\* Cleanup joins the worker, stops a pass left sampling, ends the session.
EndSession ==
  /\ caller = "joining" /\ pc = "ended"
  /\ inSession' = FALSE
  /\ \/ active' = FALSE /\ UNCHANGED stopFailed
     \/ active /\ stopFailed' = TRUE /\ UNCHANGED active
  /\ caller' = "clearing"
  /\ UNCHANGED <<pc, progress, image, merged, output, stopWorker, taken>>

\* What was published and never polled is thrown away.
ClearAll ==
  /\ caller = "clearing"
  /\ image' = {} /\ warmup' = 0 /\ lastTime' = 0
  /\ ring' = <<>>
  /\ taken' = Len(published)
  /\ caller' = "closed"
  /\ UNCHANGED <<pc, progress, merged, active, inSession, stopFailed, published, stopWorker>>

Cleanup == EndSession \/ ClearAll
EngineNext == Worker \/ Poll \/ BeginCleanup \/ Cleanup
EngineSpec == EngineInit /\ [][EngineNext]_engineVars

\* The worker thread and the thread in Cleanup are scheduled.
EngineFairSpec == EngineSpec /\ WF_engineVars(Worker) /\ WF_engineVars(Cleanup)
-----------------------------------------------------------------------------
Pass == 0 .. NumPasses - 1
Window == SUBSET (Nat \X Pass)

EngineTypeOK ==
  /\ pc \in {"delay", "rotation", "pass", "sampling", "decode", "publish", "final",
             "last publish", "ended"}
  /\ rotation \in Nat /\ offset \in 0 .. NumPasses /\ triggers \in 0 .. TriggersPerPass
  /\ image \in Window /\ merged \in Nat
  /\ warmup \in 0 .. WarmupRotations /\ lastTime \in Nat
  /\ active \in BOOLEAN /\ inSession \in BOOLEAN /\ stopFailed \in BOOLEAN
  /\ ring \in Seq(Window) /\ Len(ring) <= MaxRingRecords
  /\ published \in Seq(Window) /\ taken \in 0 .. Len(published)
  /\ caller \in {"open", "joining", "clearing", "closed"} /\ stopWorker \in BOOLEAN

\* No window mixes counters of two rotations, the accumulation the comment on
\* the reset of the image warns of.
OneRotationEach ==
  \A i \in DOMAIN published : \A x, y \in published[i] : x[1] = y[1]

\* A window published while the worker lives has every pass; only the last
\* one, published as the worker ends, may be of a rotation cut short.
WholeRotations ==
  \A i \in DOMAIN published :
    {x[2] : x \in published[i]} = Pass \/ (i = Len(published) /\ pc = "ended")

\* The first WarmupRotations rotations are never shown, not even by the
\* publish after the loop.
WarmupHidden ==
  \A i \in DOMAIN published : \A x \in published[i] : x[1] > WarmupRotations

\* No rotation is published twice, or after a later one, though the publish
\* after the loop sees again the image the loop has published.
EachOnce ==
  \A i, j \in DOMAIN published : i < j =>
    \A x \in published[i], y \in published[j] : x[1] < y[1]

\* The ring holds exactly the windows emitted since it was last emptied, up to
\* its limit the newest of them: a poll returns each once, none out of order.
RingIsRecent ==
  LET first == IF Len(published) - taken > MaxRingRecords
               THEN Len(published) - MaxRingRecords ELSE taken
  IN ring = SubSeq(published, first + 1, Len(published))

\* What was ever published: whole rotations past the warm-up, each once, in
\* order; and the ring holds the newest of them that no poll has taken.
Windows == OneRotationEach /\ WholeRotations /\ WarmupHidden /\ EachOnce /\ RingIsRecent

\* The worker never runs without a session, and the session is ended with
\* sampling stopped unless StopSampling itself failed.
SessionOutlivesWorker ==
  /\ pc # "ended" => inSession
  /\ ~inSession /\ active => stopFailed

\* Cleanup returns, wherever in its rotation the worker is told to stop.
CleanupReturns == caller = "joining" ~> caller = "closed"
=============================================================================
