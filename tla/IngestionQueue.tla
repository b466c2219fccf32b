---------------------------- MODULE IngestionQueue ----------------------------
(***************************************************************************)
(* The ingestion queue in front of the workers of Ingestion.tla: S3 sends a *)
(* message for every object it stores, a Lambda invocation receives a batch *)
(* of them, lambda_handler runs process_record on each in turn and reports  *)
(* the ones that raised, and SQS deletes, redelivers or dead-letters.       *)
(*                                                                          *)
(* A worker of Ingestion.tla is an invocation here.  The queue's visibility *)
(* timeout (6 minutes) exceeds the worker's timeout (5 minutes), so an      *)
(* invocation is over before its messages can be seen again.                *)
(***************************************************************************)
EXTENDS Ingestion

CONSTANTS
    Messages,     \* bound on the messages ever sent
    TestMessage,  \* the message that is S3's own test event
    TestEvent,    \* what that message is about
    BatchSize,    \* records of one invocation: 5 in the code
    MaxReceives   \* max_receive_count of the queue: 3 in the code

ASSUME QueueAssumption ==
    /\ TestMessage \in Messages
    /\ TestEvent \notin Docs
    /\ BatchSize \in Nat \ {0}
    /\ MaxReceives \in Nat \ {0}

VARIABLES
    queue,   \* every message: what it is about, where it is, times received
             \* (0 again once it has left the queue)
    batch    \* of each invocation: records to do, current one, failed ones

qvars == <<vars, queue, batch>>

-----------------------------------------------------------------------------

Places == {"unsent", "visible", "inflight", "deleted", "dead"}

\* The messages of an invocation: all of them, those process_record has not
\* begun, and those that are in batchItemFailures so far.
NoBatch == [all |-> {}, todo |-> {}, current |-> {}, failures |-> {}]

\* A batch and the job of its current record, if it has one, agree.
BatchOK(w) ==
    LET b == batch[w] IN
    /\ b.todo \cup b.current \cup b.failures \subseteq b.all
    /\ Cardinality(b.current) <= 1 /\ Cardinality(b.all) <= BatchSize
    /\ job[w].pc = "idle" <=> b.current = {}
    /\ \A m \in b.current : queue[m].about = job[w].doc

QueueTypeOK ==
    /\ TypeOK
    /\ queue \in [Messages -> [about : Docs \cup {TestEvent}, place : Places,
                               receives : 0..MaxReceives]]
    /\ batch \in [Workers -> [all : SUBSET Messages, todo : SUBSET Messages,
                              current : SUBSET Messages, failures : SUBSET Messages]]
    /\ \A w \in Workers : BatchOK(w)

\* The invocations that hold a message.
Holder(m) == {w \in Workers : m \in batch[w].all}

InPlace(m, p) == queue[m].place = p

\* The test event is sent when the bucket's notification is configured, before
\* any document exists.
QueueInit ==
    /\ Init
    /\ queue = [m \in Messages |->
                   [about    |-> TestEvent,
                    place    |-> IF m = TestMessage THEN "visible" ELSE "unsent",
                    receives |-> 0]]
    /\ batch = [w \in Workers |-> NoBatch]

-----------------------------------------------------------------------------
(* S3 and SQS *)

\* The browser's PUT stores the object and S3 sends a message, each time.
PutObject(d) ==
    /\ Upload(d)
    /\ \E m \in Messages :
        /\ InPlace(m, "unsent")
        /\ queue' = [queue EXCEPT ![m].about = d, ![m].place = "visible"]
    /\ UNCHANGED batch

\* Mutant of Receive: the event source ignores the batch size.
ReceiveAll(w) ==
    /\ batch[w] = NoBatch
    /\ \E some \in SUBSET {m \in Messages : InPlace(m, "visible")
                                            /\ queue[m].receives < MaxReceives} :
        /\ some # {}
        /\ queue' = [m \in Messages |->
                        IF m \in some
                        THEN [queue[m] EXCEPT !.place = "inflight", !.receives = @ + 1]
                        ELSE queue[m]]
        /\ batch' = [batch EXCEPT ![w] = [NoBatch EXCEPT !.all = some, !.todo = some]]
    /\ UNCHANGED vars

\* The event source hands an idle invocation a batch of visible messages.
Receive(w) ==
    /\ batch[w] = NoBatch
    /\ \E some \in SUBSET {m \in Messages : InPlace(m, "visible")
                                            /\ queue[m].receives < MaxReceives} :
        /\ some # {} /\ Cardinality(some) <= BatchSize
        /\ queue' = [m \in Messages |->
                        IF m \in some
                        THEN [queue[m] EXCEPT !.place = "inflight", !.receives = @ + 1]
                        ELSE queue[m]]
        /\ batch' = [batch EXCEPT ![w] = [NoBatch EXCEPT !.all = some, !.todo = some]]
    /\ UNCHANGED vars

\* The messages of an invocation that is gone become visible again.
VisibilityTimeout(m) ==
    /\ InPlace(m, "inflight")
    /\ Holder(m) = {}
    /\ queue' = [queue EXCEPT ![m].place = "visible"]
    /\ UNCHANGED <<vars, batch>>

DeadLetter(m) ==
    /\ InPlace(m, "visible")
    /\ queue[m].receives = MaxReceives
    /\ queue' = [queue EXCEPT ![m].place = "dead", ![m].receives = 0]
    /\ UNCHANGED <<vars, batch>>

-----------------------------------------------------------------------------
(* lambda_handler *)

\* The next record of the batch: process_record begins with _event_document,
\* which finds no document in S3's test event and raises.
NextRecord(w) ==
    /\ batch[w].current = {}
    /\ \E m \in batch[w].todo :
        \/ /\ queue[m].about \in Docs
           /\ Deliver(w, queue[m].about)
           /\ batch' = [batch EXCEPT ![w].todo = @ \ {m}, ![w].current = {m}]
        \/ /\ queue[m].about = TestEvent
           /\ batch' = [batch EXCEPT ![w].todo = @ \ {m}, ![w].failures = @ \cup {m}]
           /\ UNCHANGED vars
    /\ UNCHANGED queue

\* Mutant of FinishRecord: the failures of the batch are not collected.
FinishRecordSilently(w) ==
    /\ Finish(w)
    /\ batch' = [batch EXCEPT ![w].current = {}]
    /\ UNCHANGED queue

\* process_record is over: a record that raised joins batchItemFailures.
FinishRecord(w) ==
    /\ Finish(w)
    /\ batch' = [batch EXCEPT
                    ![w].current  = {},
                    ![w].failures = IF job[w].pc = "raised" THEN @ \cup batch[w].current
                                    ELSE @]
    /\ UNCHANGED queue

\* Mutant of ReturnBatch: one failure keeps the whole batch for a retry without
\* counting, so a poisonous message comes back for ever.
ReturnBatchUncounted(w) ==
    /\ batch[w] # NoBatch
    /\ batch[w].todo = {} /\ batch[w].current = {}
    /\ queue' = [m \in Messages |->
                    IF m \notin batch[w].all THEN queue[m]
                    ELSE IF m \in batch[w].failures
                    THEN [queue[m] EXCEPT !.place = "visible", !.receives = @ - 1]
                    ELSE [queue[m] EXCEPT !.place = "deleted"]]
    /\ batch' = [batch EXCEPT ![w] = NoBatch]
    /\ UNCHANGED vars

\* The handler returns: SQS deletes what is not listed in batchItemFailures and
\* makes the rest visible again.
ReturnBatch(w) ==
    /\ batch[w] # NoBatch
    /\ batch[w].todo = {} /\ batch[w].current = {}
    /\ queue' = [m \in Messages |->
                    IF m \notin batch[w].all THEN queue[m]
                    ELSE IF m \in batch[w].failures
                    THEN [queue[m] EXCEPT !.place = "visible"]
                    ELSE [queue[m] EXCEPT !.place = "deleted", !.receives = 0]]
    /\ batch' = [batch EXCEPT ![w] = NoBatch]
    /\ UNCHANGED vars

\* The invocation times out or is killed: nothing is returned, so every message
\* of the batch, finished or not, stays in flight.
CrashInvocation(w) ==
    /\ batch[w] # NoBatch
    /\ Crash(w) \/ (job[w].pc = "idle" /\ UNCHANGED vars)
    /\ batch' = [batch EXCEPT ![w] = NoBatch]
    /\ UNCHANGED queue

\* The steps of process_record, but for its end.
RecordStep(w) ==
    /\ \/ Load(w) \/ Claim(w) \/ ReportProgress(w) \/ CheckCanceled(w)
       \/ ExtractText(w) \/ ChunkText(w) \/ EmbedChunk(w) \/ StoreChunk(w)
       \/ MarkReady(w) \/ Raise(w) \/ RecordFailure(w)
    /\ UNCHANGED <<queue, batch>>

RecordFault(w) ==
    /\ \/ Reject(w) \/ ClaimAnswerLost(w) \/ StoreAnswerLost(w)
       \/ ReadyAnswerLost(w) \/ FailureUnrecorded(w)
    /\ UNCHANGED <<queue, batch>>

TableOnly(d) ==
    /\ CreateDocument(d) \/ CancelDocument(d) \/ Replicate(d)
    /\ UNCHANGED <<queue, batch>>

-----------------------------------------------------------------------------

InvocationStep(w) ==
    NextRecord(w) \/ RecordStep(w) \/ FinishRecord(w) \/ ReturnBatch(w)

QueueNext ==
    \/ \E d \in Docs : TableOnly(d) \/ PutObject(d)
    \/ \E m \in Messages : VisibilityTimeout(m) \/ DeadLetter(m)
    \/ \E w \in Workers : \/ Receive(w) \/ InvocationStep(w)
                          \/ RecordFault(w) \/ CrashInvocation(w)

\* An invocation that runs goes on (or is killed), the event source polls, and
\* SQS's own timers run.
QueueFairness ==
    /\ \A w \in Workers : WF_qvars(Receive(w)) /\ WF_qvars(InvocationStep(w))
    /\ \A m \in Messages : WF_qvars(VisibilityTimeout(m) \/ DeadLetter(m))

QueueSpec == QueueInit /\ [][QueueNext]_qvars /\ QueueFairness

-----------------------------------------------------------------------------
(* Properties *)

\* No upload is forgotten before a worker has claimed its document: a message
\* for it is in the queue, in an invocation or in the dead-letter queue.
PendingIsQueued ==
    \A d \in objects :
        docs[d].status = "pending" =>
            \E m \in Messages : queue[m].about = d /\ ~InPlace(m, "deleted")

\* How far a message has come: received and visible again up to MaxReceives
\* times, then deleted or dead-lettered.
Advance(msg) ==
    CASE msg.place = "unsent"   -> 0
      [] msg.place = "inflight" -> 2 * msg.receives
      [] msg.place = "visible"  -> 2 * msg.receives + 1
      [] OTHER                  -> 2 * MaxReceives + 2

\* A message only ever moves forward and stays about the object it was sent for:
\* whatever fails, times out or is redelivered, no message is received more than
\* max_receive_count times, and none comes back that was deleted or dead-lettered.
DeliveriesAdvance ==
    [][\A m \in Messages : queue'[m] # queue[m] =>
           /\ Advance(queue[m]) < Advance(queue'[m])
           /\ InPlace(m, "unsent") \/ queue'[m].about = queue[m].about]_qvars

\* Every message leaves the queue, deleted or dead-lettered, whatever fails and
\* however often invocations are killed; S3's test event too.
EveryMessageLeaves ==
    \A m \in Messages :
        InPlace(m, "visible") ~> (InPlace(m, "deleted") \/ InPlace(m, "dead"))

\* BUILD_SPEC.md:93: on error raise, and exhausted messages reach the DLQ.  A
\* document that failed to ingest still has a message to retry or to inspect.
FailureIsRetriedOrDead ==
    \A d \in Docs :
        docs[d].status = "failed" /\ docs[d].error = "ingestion_failed" =>
            \E m \in Messages : queue[m].about = d /\ ~InPlace(m, "deleted")
=============================================================================
