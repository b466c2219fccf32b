------------------------ MODULE IngestionQueueProofs ------------------------
(***************************************************************************)
(* Proofs about IngestionQueue.tla, for any number of messages, invocations *)
(* and documents.  Every step of the queue is a step of Ingestion.tla or     *)
(* leaves its variables alone, so the pipeline's theorems hold behind the    *)
(* queue.  A message stays accounted for until its document is claimed.      *)
(***************************************************************************)
EXTENDS IngestionQueue, IngestionProofs, FiniteSetTheorems

-----------------------------------------------------------------------------
(* The queue is a part of the pipeline *)

\* Every step of the queue is a step of the pipeline or changes nothing of it.
LEMMA QueueStepRefines == [QueueNext]_qvars => [Next]_vars
<1> SUFFICES ASSUME [QueueNext]_qvars PROVE [Next]_vars
    OBVIOUS
<1>1. ASSUME NEW d \in Docs, TableOnly(d) \/ PutObject(d) PROVE [Next]_vars
    BY <1>1 DEF TableOnly, PutObject, Next, FaultFreeNext, TableStep
<1>2. ASSUME NEW m \in Messages, VisibilityTimeout(m) \/ DeadLetter(m) PROVE [Next]_vars
    BY <1>2 DEF VisibilityTimeout, DeadLetter
<1>3. ASSUME NEW w \in Workers, Receive(w) \/ ReturnBatch(w) PROVE [Next]_vars
    BY <1>3 DEF Receive, ReturnBatch
<1>4. ASSUME NEW w \in Workers, NextRecord(w) PROVE [Next]_vars
    BY <1>4 DEF NextRecord, Next, FaultFreeNext
<1>5. ASSUME NEW w \in Workers, RecordStep(w) \/ FinishRecord(w) PROVE [Next]_vars
    BY <1>5 DEF RecordStep, FinishRecord, WorkerStep, Next, FaultFreeNext
<1>6. ASSUME NEW w \in Workers, RecordFault(w) \/ CrashInvocation(w) PROVE [Next]_vars
    BY <1>6 DEF RecordFault, CrashInvocation, Fault, Next
<1>7. CASE UNCHANGED qvars
    BY <1>7 DEF qvars
<1>8. QED
    BY <1>1, <1>2, <1>3, <1>4, <1>5, <1>6, <1>7 DEF QueueNext, InvocationStep

\* Behind the queue the pipeline does what Ingestion.tla lets it do: every theorem
\* about Spec holds of QueueSpec too (worker.py:284-298).
THEOREM QueueImplementsPipeline == QueueSpec => Spec
<1>1. QueueInit => Init
    BY DEF QueueInit
<1>2. QED
    BY <1>1, QueueStepRefines, PTL DEF QueueSpec, Spec

-----------------------------------------------------------------------------
(* The inductive invariant *)

\* A copy that says ready was made after the claim, and what is stored in the
\* bucket has an item.
TablesAgree ==
    \A d \in Docs :
        /\ replica[d].status = "ready" => docs[d].status \notin {"absent", "pending"}
        /\ d \in objects => docs[d].status # "absent"

\* An invocation holds its messages alone, and they are in flight.
Held ==
    \A w \in Workers : \A m \in batch[w].all :
        InPlace(m, "inflight") /\ \A v \in Workers : m \in batch[v].all => v = w

\* Message m will bring document d to a worker, or its failure to the queue.
Carries(m, d) ==
    /\ queue[m].about = d /\ queue[m].place \notin {"unsent", "deleted"}
    /\ \A w \in Workers : m \in batch[w].all =>
        \/ m \in batch[w].todo \cup batch[w].failures
        \/ m \in batch[w].current /\ job[w].pc # "returned"

Tracked ==
    \A d \in objects : docs[d].status = "pending" => \E m \in Messages : Carries(m, d)

QInv == IInv /\ TablesAgree /\ QueueTypeOK /\ Held /\ Tracked

-----------------------------------------------------------------------------
(* What a step of the pipeline does to documents that no worker has claimed *)

\* A document becomes pending only when it is created.
LEMMA BecomesPending ==
    ASSUME IInv, [Next]_vars, NEW d \in Docs, docs'[d].status \in {"absent", "pending"}
    PROVE  \/ docs[d].status = docs'[d].status
           \/ docs[d].status = "absent" /\ docs'[d].status = "pending"
<1>1. docs \in [Docs -> Item]
    BY DEF IInv, TypeOK
<1>2. CASE UNCHANGED docs
    BY <1>2
<1>3. ASSUME NEW e \in Docs, Effect(e)
      PROVE  \/ docs[d].status = docs'[d].status
             \/ docs[d].status = "absent" /\ docs'[d].status = "pending"
    <2>1. CASE Creates(e)
        BY <1>1, <2>1 DEF Creates, SetsItem, Item
    <2>2. CASE Cancels(e) \/ Claims(e) \/ Fails(e)
        BY <1>1, <2>2 DEF Cancels, Claims, Fails, SetsItem, Item
    <2>3. CASE Progresses(e)
        BY <1>1, <2>3 DEF Progresses, SetsItem, Item
    <2>4. CASE Stores(e)
        BY <2>4 DEF Stores
    <2>5. CASE Publishes(e)
        BY <1>1, <2>5 DEF Publishes, SetsItem, ReadyItem, Item
    <2>6. QED
        BY <1>3, <2>1, <2>2, <2>3, <2>4, <2>5 DEF Effect
<1>4. QED
    BY <1>2, <1>3, StepEffect

\* The tables go on agreeing.
LEMMA TablesAgreeStep ==
    ASSUME IInv, TablesAgree, [Next]_vars
    PROVE  TablesAgree'
<1>1. /\ docs \in [Docs -> Item] /\ replica \in [Docs -> Seen] /\ objects \subseteq Docs
    BY DEF IInv, TypeOK
<1>2. ASSUME NEW d \in Docs, docs'[d].status \in {"absent", "pending"}
      PROVE  docs[d].status \in {"absent", "pending"}
    BY <1>2, BecomesPending
<1>3. ASSUME NEW d \in Docs, docs'[d].status = "absent"
      PROVE  docs[d].status = "absent"
    BY <1>3, BecomesPending
<1>4. CASE UNCHANGED <<replica, objects>>
    BY <1>2, <1>3, <1>4 DEF TablesAgree
<1>5. ASSUME NEW e \in Docs, TableStep(e) PROVE TablesAgree'
    <2>1. CASE CreateDocument(e) \/ CancelDocument(e)
        BY <1>4, <2>1 DEF CreateDocument, CancelDocument
    <2>2. CASE Upload(e)
        BY <1>1, <2>2 DEF Upload, TablesAgree
    <2>3. CASE Replicate(e)
        BY <1>1, <2>3 DEF Replicate, TablesAgree, View
    <2>4. QED
        BY <1>5, <2>1, <2>2, <2>3 DEF TableStep
<1>6. ASSUME NEW w \in Workers, WorkerStep(w) \/ Fault(w) PROVE UNCHANGED <<replica, objects>>
    <2>1. replica' = replica
        BY <1>6, WorkerFrame
    <2>2. objects' = objects
        BY <1>6
        DEF WorkerStep, Fault, Load, Claim, ReportProgress, CheckCanceled, ExtractText,
            ChunkText, EmbedChunk, StoreChunk, MarkReady, Raise, RecordFailure, Finish,
            Reject, ClaimAnswerLost, StoreAnswerLost, ReadyAnswerLost,
            FailureUnrecorded, Crash
    <2>3. QED
        BY <2>1, <2>2
<1>7. ASSUME NEW w \in Workers, NEW d \in Docs, Deliver(w, d) PROVE UNCHANGED <<replica, objects>>
    BY <1>7 DEF Deliver
<1>8. CASE UNCHANGED vars
    BY <1>4, <1>8 DEF vars
<1>9. QED
    BY <1>4, <1>5, <1>6, <1>7, <1>8 DEF Next, FaultFreeNext

\* process_record does not return while its document is pending: it raises.
LEMMA PendingIsNotReturned ==
    ASSUME IInv, TablesAgree, NEW w \in Workers, MovesOn(w),
           docs'[job[w].doc].status = "pending"
    PROVE  job'[w].pc # "returned"
<1>1. /\ job \in [Workers -> Job] /\ job[w] \in Job /\ JobOK(job[w])
      /\ docs \in [Docs -> Item] /\ replica \in [Docs -> Seen]
    BY DEF IInv, TypeOK
<1>. DEFINE d == job[w].doc
<1>2. job[w].pc # "idle" /\ d \in Docs
    <2>1. job[w].pc # "idle"
        BY DEF MovesOn, Load, Claim, ReportProgress, CheckCanceled, ExtractText,
            ChunkText, EmbedChunk, StoreChunk, MarkReady, Raise, RecordFailure,
            Reject, ClaimAnswerLost, StoreAnswerLost, ReadyAnswerLost, FailureUnrecorded
    <2>2. QED
        BY <1>1, <2>1 DEF JobOK
<1>3. docs[d].status \in {"absent", "pending"}
    <2>1. [Next]_vars
        BY DEF MovesOn, WorkerStep, Fault, Next, FaultFreeNext
    <2>2. QED
        BY <1>2, <2>1, BecomesPending
<1>4. ~Active(w)
    BY <1>2, <1>3 DEF IInv, JobInv, DocInv, DocOK
<1>5. Load(w) \/ Claim(w) \/ Reject(w) \/ ClaimAnswerLost(w)
    BY <1>4
    DEF MovesOn, Active, Working, ReportProgress, CheckCanceled, ExtractText,
        ChunkText, EmbedChunk, StoreChunk, MarkReady, Raise, RecordFailure,
        StoreAnswerLost, ReadyAnswerLost, FailureUnrecorded
<1>6. CASE Load(w)
    <2>1. \A seen \in Reads(d) : seen.status # "ready"
        BY <1>1, <1>2, <1>3 DEF Reads, View, TablesAgree
    <2>2. PICK seen \in Reads(d) :
            job' = [job EXCEPT ![w].pc = IF seen.status = "absent" THEN "raised"
                                         ELSE IF seen.status = "ready" THEN "returned"
                                         ELSE "claim"]
        BY <1>6 DEF Load
    <2>3. QED
        BY <1>1, <2>1, <2>2 DEF Job
<1>7. CASE Claim(w)
    <2>1. docs[d].status = "pending"
        BY <1>3, <1>7 DEF Claim
    <2>2. QED
        BY <1>1, <1>7, <2>1 DEF Claim, Job
<1>8. CASE Reject(w)
    BY <1>1, <1>8 DEF Reject, Job
<1>9. CASE ClaimAnswerLost(w)
    BY <1>1, <1>2, <1>9 DEF ClaimAnswerLost, Item
<1>10. QED
    BY <1>5, <1>6, <1>7, <1>8, <1>9

-----------------------------------------------------------------------------
(* What kinds of step there are *)

Message == [about : Docs \cup {TestEvent}, place : Places, receives : 0..MaxReceives]
Batch   == [all : SUBSET Messages, todo : SUBSET Messages, current : SUBSET Messages,
            failures : SUBSET Messages]

\* A document still pending after a step was pending before, or has just been
\* created and is not in the bucket.
LEMMA StillPending ==
    ASSUME IInv, TablesAgree, [Next]_vars, objects' = objects,
           NEW d \in objects', docs'[d].status = "pending"
    PROVE  d \in objects /\ docs[d].status = "pending"
<1>1. d \in Docs
    BY DEF IInv, TypeOK
<1>2. QED
    BY <1>1, BecomesPending DEF TablesAgree

\* A step that leaves the queue and the batches alone: whoever was busy stays busy
\* with the same document, and returns only when it is not pending.
LEMMA QueueUntouched ==
    ASSUME QInv, [Next]_vars, UNCHANGED <<queue, batch>>, objects' = objects,
           \A w \in Workers : /\ job'[w].doc = job[w].doc
                              /\ job'[w].pc = "idle" <=> job[w].pc = "idle"
                              /\ job'[w].pc = "returned" =>
                                    \/ job[w].pc = "returned"
                                    \/ docs'[job[w].doc].status # "pending"
    PROVE  QInv'
<1>1. IInv' /\ TablesAgree'
    BY StepInvariant, TablesAgreeStep DEF QInv
<1>2. ASSUME NEW w \in Workers PROVE BatchOK(w)'
    BY DEF QInv, QueueTypeOK, BatchOK
<1>3. QueueTypeOK'
    BY <1>1, <1>2 DEF QInv, QueueTypeOK, IInv
<1>4. Held'
    BY DEF QInv, Held, InPlace
<1>5. Tracked'
    <2>1. SUFFICES ASSUME NEW d \in objects', docs'[d].status = "pending"
          PROVE  \E m \in Messages : Carries(m, d)'
        BY DEF Tracked
    <2>2. d \in objects /\ docs[d].status = "pending"
        BY <2>1, StillPending DEF QInv
    <2>3. PICK m \in Messages : Carries(m, d)
        BY <2>2 DEF QInv, Tracked
    <2>4. ASSUME NEW w \in Workers, m \in batch[w].current, job[w].pc # "returned"
          PROVE  job'[w].pc # "returned"
        <3>1. job[w].doc = d
            BY <2>3, <2>4 DEF QInv, QueueTypeOK, BatchOK, Carries
        <3>2. QED
            BY <2>1, <2>4, <3>1
    <2>5. Carries(m, d)'
        BY <2>3, <2>4 DEF Carries
    <2>6. QED
        BY <2>5
<1>6. QED
    BY <1>1, <1>3, <1>4, <1>5 DEF QInv

\* Calls to the table from outside.
LEMMA TableOnlyKeeps ==
    ASSUME QInv, NEW d \in Docs, TableOnly(d)
    PROVE  QInv'
<1>1. [Next]_vars
    BY DEF TableOnly, Next, FaultFreeNext, TableStep
<1>2. UNCHANGED <<queue, batch, job, objects>>
    BY DEF TableOnly, CreateDocument, CancelDocument, Replicate
<1>3. QED
    BY <1>1, <1>2, QueueUntouched

\* The steps of process_record, and what may go wrong in them.
LEMMA RecordKeeps ==
    ASSUME QInv, NEW w \in Workers, RecordStep(w) \/ RecordFault(w)
    PROVE  QInv'
<1>1. MovesOn(w) /\ UNCHANGED <<queue, batch>>
    BY DEF RecordStep, RecordFault, MovesOn
<1>2. WorkerStep(w) \/ Fault(w)
    BY <1>1 DEF MovesOn, WorkerStep, Fault
<1>3. job[w].pc # "idle"
    BY <1>1
    DEF MovesOn, Load, Claim, ReportProgress, CheckCanceled, ExtractText, ChunkText,
        EmbedChunk, StoreChunk, MarkReady, Raise, RecordFailure, Reject, ClaimAnswerLost,
        StoreAnswerLost, ReadyAnswerLost, FailureUnrecorded
<1>4. job'[w].pc # "idle" /\ job'[w].doc = job[w].doc
    BY <1>1, JobMoves DEF QInv
<1>5. \A v \in Workers : v # w => job'[v] = job[v]
    BY <1>2, JobFrame DEF QInv
<1>6. job'[w].pc = "returned" => docs'[job[w].doc].status # "pending"
    BY <1>1, PendingIsNotReturned DEF QInv
<1>7. objects' = objects
    BY <1>1
    DEF MovesOn, Load, Claim, ReportProgress, CheckCanceled, ExtractText, ChunkText,
        EmbedChunk, StoreChunk, MarkReady, Raise, RecordFailure, Reject, ClaimAnswerLost,
        StoreAnswerLost, ReadyAnswerLost, FailureUnrecorded
<1>8. \A v \in Workers : /\ job'[v].doc = job[v].doc
                         /\ job'[v].pc = "idle" <=> job[v].pc = "idle"
                         /\ job'[v].pc = "returned" =>
                               \/ job[v].pc = "returned"
                               \/ docs'[job[v].doc].status # "pending"
    BY <1>3, <1>4, <1>5, <1>6
<1>9. [Next]_vars
    BY <1>2 DEF Next, FaultFreeNext
<1>10. QED
    BY <1>1, <1>7, <1>8, <1>9, QueueUntouched

-----------------------------------------------------------------------------
(* SQS *)

\* A step of the queue that leaves documents, jobs and batches alone.
LEMMA QueueMoves ==
    ASSUME QInv, UNCHANGED <<vars, batch>>, queue' \in [Messages -> Message],
           \A m \in Messages :
               \/ queue'[m] = queue[m]
               \/ /\ queue'[m].about = queue[m].about
                  /\ queue'[m].place \notin {"unsent", "deleted"}
                  /\ \A w \in Workers : m \notin batch[w].all
    PROVE  QInv'
<1>1. IInv'
    BY StepInvariant DEF QInv
<1>2. TablesAgree'
    BY TablesAgreeStep DEF QInv
<1>3. UNCHANGED <<docs, objects, job, batch>>
    BY DEF vars
<1>4. ASSUME NEW w \in Workers PROVE BatchOK(w)'
    <2>1. BatchOK(w) /\ batch[w].current \subseteq Messages
        BY DEF QInv, QueueTypeOK
    <2>2. \A m \in batch[w].current : queue'[m].about = queue[m].about
        BY <2>1
    <2>3. QED
        BY <1>3, <2>1, <2>2 DEF BatchOK
<1>5. QueueTypeOK'
    BY <1>1, <1>3, <1>4 DEF QInv, QueueTypeOK, IInv, Message
<1>6. Held'
    <2>1. \A w \in Workers : batch[w].all \subseteq Messages
        BY DEF QInv, QueueTypeOK
    <2>2. QED
        BY <1>3, <2>1 DEF QInv, Held, InPlace
<1>7. Tracked'
    <2>1. ASSUME NEW m \in Messages, NEW d \in Docs, Carries(m, d) PROVE Carries(m, d)'
        BY <1>3, <2>1 DEF Carries
    <2>2. objects \subseteq Docs
        BY DEF QInv, IInv, TypeOK
    <2>3. QED
        BY <1>3, <2>1, <2>2 DEF QInv, Tracked
<1>8. QED
    BY <1>1, <1>2, <1>5, <1>6, <1>7 DEF QInv

\* A message becomes visible again or is dead-lettered.
LEMMA TimersKeep ==
    ASSUME QInv, NEW m \in Messages, VisibilityTimeout(m) \/ DeadLetter(m)
    PROVE  QInv'
<1>1. queue \in [Messages -> Message]
    BY DEF QInv, QueueTypeOK, Message
<1>2. \A w \in Workers : m \notin batch[w].all
    BY DEF VisibilityTimeout, DeadLetter, Holder, InPlace, QInv, Held
<1>3. 0 \in 0..MaxReceives
    BY QueueAssumption
<1>4. CASE VisibilityTimeout(m)
    <2>1. queue' = [queue EXCEPT ![m].place = "visible"] /\ UNCHANGED <<vars, batch>>
        BY <1>4 DEF VisibilityTimeout
    <2>2. queue' \in [Messages -> Message]
        BY <1>1, <2>1 DEF Message, Places
    <2>3. \A n \in Messages : \/ queue'[n] = queue[n]
                              \/ /\ n = m /\ queue'[n].about = queue[n].about
                                 /\ queue'[n].place = "visible"
        BY <1>1, <2>1 DEF Message
    <2>4. QED
        BY <1>2, <2>1, <2>2, <2>3, QueueMoves
<1>5. CASE DeadLetter(m)
    <2>1. queue' = [queue EXCEPT ![m].place = "dead", ![m].receives = 0]
          /\ UNCHANGED <<vars, batch>>
        BY <1>5 DEF DeadLetter
    <2>2. queue' \in [Messages -> Message]
        BY <1>1, <1>3, <2>1 DEF Message, Places
    <2>3. \A n \in Messages : \/ queue'[n] = queue[n]
                              \/ /\ n = m /\ queue'[n].about = queue[n].about
                                 /\ queue'[n].place = "dead"
        BY <1>1, <2>1 DEF Message
    <2>4. QED
        BY <1>2, <2>1, <2>2, <2>3, QueueMoves
<1>6. QED
    BY <1>4, <1>5

\* The object is stored and a message about it becomes visible.
LEMMA PutObjectKeeps ==
    ASSUME QInv, NEW d \in Docs, PutObject(d)
    PROVE  QInv'
<1>1. /\ [Next]_vars /\ UNCHANGED <<docs, job, batch>> /\ objects' = objects \cup {d}
    BY DEF PutObject, Upload, Next, FaultFreeNext, TableStep
<1>2. IInv' /\ TablesAgree'
    BY <1>1, StepInvariant, TablesAgreeStep DEF QInv
<1>3. PICK m \in Messages :
        /\ queue[m].place = "unsent"
        /\ queue' = [queue EXCEPT ![m].about = d, ![m].place = "visible"]
    BY DEF PutObject, InPlace
<1>4. queue \in [Messages -> Message]
    BY DEF QInv, QueueTypeOK, Message
<1>5. queue' \in [Messages -> Message]
    BY <1>3, <1>4 DEF Message, Places
<1>6. /\ queue'[m].about = d /\ queue'[m].place = "visible"
      /\ \A n \in Messages : n # m => queue'[n] = queue[n]
    BY <1>3, <1>4 DEF Message
<1>7. \A w \in Workers : m \notin batch[w].all /\ m \notin batch[w].current
    BY <1>3 DEF QInv, Held, InPlace, QueueTypeOK, BatchOK
<1>8. \A w \in Workers : batch[w].all \subseteq Messages /\ batch[w].current \subseteq Messages
    BY DEF QInv, QueueTypeOK
<1>9. ASSUME NEW w \in Workers PROVE BatchOK(w)'
    <2>1. BatchOK(w)
        BY DEF QInv, QueueTypeOK
    <2>2. \A n \in batch[w].current : queue'[n].about = queue[n].about
        BY <1>6, <1>7, <1>8
    <2>3. QED
        BY <1>1, <2>1, <2>2 DEF BatchOK
<1>10. QueueTypeOK'
    BY <1>1, <1>2, <1>5, <1>9 DEF QInv, QueueTypeOK, IInv, Message
<1>11. Held'
    BY <1>1, <1>6, <1>7, <1>8 DEF QInv, Held, InPlace
<1>12. Tracked'
    <2>1. SUFFICES ASSUME NEW e \in objects', docs[e].status = "pending"
          PROVE  \E n \in Messages : Carries(n, e)'
        BY <1>1 DEF Tracked
    <2>2. CASE e = d
        <3>1. Carries(m, e)'
            BY <1>1, <1>6, <1>7, <2>2 DEF Carries
        <3>2. QED
            BY <3>1
    <2>3. CASE e # d
        <3>1. PICK n \in Messages : Carries(n, e)
            BY <1>1, <2>1, <2>3 DEF QInv, Tracked
        <3>2. n # m
            BY <1>3, <3>1 DEF Carries
        <3>3. Carries(n, e)'
            BY <1>1, <1>6, <3>1, <3>2 DEF Carries
        <3>4. QED
            BY <3>3
    <2>4. QED
        BY <2>2, <2>3
<1>13. QED
    BY <1>2, <1>10, <1>11, <1>12 DEF QInv

-----------------------------------------------------------------------------
(* lambda_handler *)

\* Invocation w takes, works off or gives back messages, its batch becoming b: it
\* takes visible ones only and loses none it has not finished.
LEMMA InvocationMoves ==
    ASSUME QInv, NEW w \in Workers, NEW b \in Batch,
           [Next]_vars, UNCHANGED <<docs, objects>>,
           batch' = [batch EXCEPT ![w] = b], BatchOK(w)',
           \A v \in Workers \ {w} : job'[v] = job[v],
           queue' \in [Messages -> Message],
           \A m \in Messages :
               /\ queue'[m].about = queue[m].about
               /\ m \notin batch[w].all \cup b.all => queue'[m] = queue[m]
               /\ m \in b.all => /\ queue'[m].place = "inflight"
                                 /\ m \in batch[w].all \/ queue[m].place = "visible"
               /\ m \in b.all \ batch[w].all => m \in b.todo
               /\ /\ m \in batch[w].all
                  /\ \/ m \in batch[w].todo \cup batch[w].failures
                     \/ m \in batch[w].current /\ job[w].pc # "returned"
                  => /\ queue'[m].place \notin {"unsent", "deleted"}
                     /\ m \in b.all => \/ m \in b.todo \cup b.failures
                                       \/ m \in b.current /\ job'[w].pc # "returned"
    PROVE  QInv'
<1>1. IInv' /\ TablesAgree'
    BY StepInvariant, TablesAgreeStep DEF QInv
<1>2. batch \in [Workers -> Batch]
    BY DEF QInv, QueueTypeOK, Batch
<1>3. batch' \in [Workers -> Batch] /\ batch'[w] = b
      /\ \A v \in Workers \ {w} : batch'[v] = batch[v]
    BY <1>2
<1>4. ASSUME NEW v \in Workers, v # w PROVE BatchOK(v)'
    <2>1. BatchOK(v) /\ batch[v].current \subseteq Messages
        BY DEF QInv, QueueTypeOK
    <2>2. \A m \in batch[v].current : queue'[m].about = queue[m].about
        BY <2>1
    <2>3. batch'[v] = batch[v] /\ job'[v] = job[v]
        BY <1>3, <1>4
    <2>4. QED
        BY <2>1, <2>2, <2>3 DEF BatchOK
<1>5. QueueTypeOK'
    BY <1>1, <1>3, <1>4 DEF QueueTypeOK, IInv, Message, Batch
<1>6. \A v \in Workers : batch[v].all \subseteq Messages
    BY DEF QInv, QueueTypeOK
<1>7. ASSUME NEW v \in Workers, v # w, NEW m \in batch[v].all
      PROVE  /\ m \notin batch[w].all /\ m \notin b.all
             /\ queue'[m] = queue[m] /\ queue[m].place = "inflight"
    BY <1>6, <1>7 DEF QInv, Held, InPlace
<1>8. Held'
    <2>1. ASSUME NEW v \in Workers, NEW m \in batch'[v].all
          PROVE  InPlace(m, "inflight")' /\ \A u \in Workers : m \in batch'[u].all => u = v
        <3>1. CASE v = w
            <4>1. m \in b.all /\ m \in Messages
                BY <1>3, <2>1, <3>1 DEF Batch
            <4>2. \A u \in Workers : u # w => m \notin batch'[u].all
                BY <1>3, <1>7, <4>1
            <4>3. QED
                BY <3>1, <4>1, <4>2 DEF InPlace
        <3>2. CASE v # w
            <4>1. m \in batch[v].all
                BY <1>3, <2>1, <3>2
            <4>2. m \notin b.all /\ queue'[m].place = "inflight"
                BY <1>7, <3>2, <4>1
            <4>3. \A u \in Workers : m \in batch'[u].all => u = v
                <5>1. SUFFICES ASSUME NEW u \in Workers, m \in batch'[u].all PROVE u = v
                    OBVIOUS
                <5>2. u # w
                    BY <1>3, <4>2, <5>1
                <5>3. m \in batch[u].all
                    BY <1>3, <5>1, <5>2
                <5>4. QED
                    BY <4>1, <5>3 DEF QInv, Held
            <4>4. QED
                BY <4>2, <4>3 DEF InPlace
        <3>3. QED
            BY <3>1, <3>2
    <2>2. QED
        BY <2>1 DEF Held
<1>9. Tracked'
    <2>1. SUFFICES ASSUME NEW d \in objects, docs[d].status = "pending"
          PROVE  \E m \in Messages : Carries(m, d)'
        BY DEF Tracked
    <2>2. PICK m \in Messages : Carries(m, d)
        BY <2>1 DEF QInv, Tracked
    <2>3. queue'[m].about = d /\ queue'[m].place \notin {"unsent", "deleted"}
        <3>1. CASE m \in batch[w].all
            BY <2>2, <3>1 DEF Carries
        <3>2. CASE m \notin batch[w].all /\ m \in b.all
            BY <2>2, <3>2 DEF Carries
        <3>3. CASE m \notin batch[w].all \cup b.all
            BY <2>2, <3>3 DEF Carries
        <3>4. QED
            BY <3>1, <3>2, <3>3
    <2>4. ASSUME NEW v \in Workers, m \in batch'[v].all
          PROVE  \/ m \in batch'[v].todo \cup batch'[v].failures
                 \/ m \in batch'[v].current /\ job'[v].pc # "returned"
        <3>1. CASE v = w
            <4>1. m \in b.all /\ batch'[w] = b
                BY <1>3, <2>4, <3>1
            <4>2. CASE m \in batch[w].all
                BY <2>2, <3>1, <4>1, <4>2 DEF Carries
            <4>3. CASE m \notin batch[w].all
                BY <3>1, <4>1, <4>3
            <4>4. QED
                BY <4>2, <4>3
        <3>2. CASE v # w
            BY <1>3, <2>2, <2>4, <3>2 DEF Carries
        <3>3. QED
            BY <3>1, <3>2
    <2>5. QED
        BY <2>3, <2>4 DEF Carries
<1>10. QED
    BY <1>1, <1>5, <1>8, <1>9 DEF QInv

\* What a batch is.
LEMMA BatchFacts ==
    ASSUME QInv, NEW w \in Workers
    PROVE  /\ batch \in [Workers -> Batch] /\ queue \in [Messages -> Message]
           /\ batch[w] \in Batch /\ BatchOK(w) /\ batch[w].all \subseteq Messages
           /\ batch[w].todo \cup batch[w].current \cup batch[w].failures \subseteq batch[w].all
           /\ \A m \in batch[w].all : queue[m].place = "inflight"
    BY DEF QInv, QueueTypeOK, Batch, Message, BatchOK, Held, InPlace

\* Visible messages are received, at most BatchSize of them.
LEMMA ReceiveKeeps ==
    ASSUME QInv, NEW w \in Workers, Receive(w)
    PROVE  QInv'
<1>1. PICK some \in SUBSET {m \in Messages : InPlace(m, "visible")
                                             /\ queue[m].receives < MaxReceives} :
        /\ Cardinality(some) <= BatchSize
        /\ queue' = [m \in Messages |->
                        IF m \in some
                        THEN [queue[m] EXCEPT !.place = "inflight", !.receives = @ + 1]
                        ELSE queue[m]]
        /\ batch' = [batch EXCEPT ![w] = [NoBatch EXCEPT !.all = some, !.todo = some]]
    BY DEF Receive
<1>. DEFINE b == [NoBatch EXCEPT !.all = some, !.todo = some]
<1>2. /\ batch' = [batch EXCEPT ![w] = b] /\ b \in Batch
      /\ b.all = some /\ b.todo = some /\ b.current = {} /\ b.failures = {}
    <2>1. some \subseteq Messages
        BY <1>1
    <2>2. NoBatch \in Batch
        BY DEF NoBatch, Batch
    <2>3. b \in Batch
        BY <2>1, <2>2 DEF Batch
    <2>4. b.all = some /\ b.todo = some /\ b.current = {} /\ b.failures = {}
        BY DEF NoBatch
    <2>5. QED
        BY <1>1, <2>3, <2>4
<1>3. batch[w] = NoBatch /\ UNCHANGED vars
    BY DEF Receive
<1>4. UNCHANGED <<docs, objects, job>> /\ [Next]_vars
    BY <1>3 DEF vars
<1>5. queue \in [Messages -> Message] /\ batch \in [Workers -> Batch] /\ BatchOK(w)
    BY BatchFacts
<1>6. ASSUME NEW m \in some
      PROVE  /\ m \in Messages /\ queue[m].place = "visible"
             /\ queue'[m].about = queue[m].about /\ queue'[m].place = "inflight"
             /\ queue'[m] \in Message
    <2>1. m \in Messages /\ queue[m].place = "visible" /\ queue[m].receives < MaxReceives
        BY <1>1 DEF InPlace
    <2>2. queue[m] \in Message /\ queue[m].receives + 1 \in 0..MaxReceives
        BY <1>5, <2>1, QueueAssumption DEF Message
    <2>3. queue'[m] = [queue[m] EXCEPT !.place = "inflight", !.receives = queue[m].receives + 1]
        BY <1>1, <2>1
    <2>4. QED
        BY <2>1, <2>2, <2>3 DEF Message, Places
<1>7. \A m \in Messages : m \notin some => queue'[m] = queue[m]
    BY <1>1
<1>8. queue' \in [Messages -> Message]
    BY <1>1, <1>5, <1>6, <1>7
<1>9. BatchOK(w)'
    <2>1. batch'[w] = b
        BY <1>2, <1>5
    <2>2. job[w].pc = "idle"
        BY <1>3, <1>5 DEF BatchOK, NoBatch
    <2>3. Cardinality({}) = 0
        BY FS_EmptySet
    <2>4. batch'[w].all = some /\ batch'[w].todo = some /\ batch'[w].current = {}
          /\ batch'[w].failures = {} /\ job'[w] = job[w]
        BY <1>2, <1>4, <2>1
    <2>5. Cardinality(some) <= BatchSize
        BY <1>1
    <2>6. QED
        BY <2>2, <2>3, <2>4, <2>5 DEF BatchOK
<1>10. batch[w].all = {}
    BY <1>3 DEF NoBatch
<1>11. \A v \in Workers \ {w} : job'[v] = job[v]
    BY <1>4
<1>12. \A m \in Messages :
           /\ queue'[m].about = queue[m].about
           /\ m \notin batch[w].all \cup b.all => queue'[m] = queue[m]
           /\ m \in b.all => queue'[m].place = "inflight" /\ queue[m].place = "visible"
           /\ m \in b.all => m \in b.todo
    BY <1>6, <1>7
<1>. HIDE DEF b
<1>13. QED
    BY <1>2, <1>4, <1>8, <1>9, <1>10, <1>11, <1>12, InvocationMoves

\* The next record begins: its document goes to process_record, or it is S3's test
\* event and fails.
LEMMA NextRecordKeeps ==
    ASSUME QInv, NEW w \in Workers, NextRecord(w)
    PROVE  QInv'
<1>1. /\ queue \in [Messages -> Message] /\ batch \in [Workers -> Batch] /\ BatchOK(w)
      /\ batch[w] \in Batch /\ batch[w].all \subseteq Messages
      /\ batch[w].todo \cup batch[w].current \cup batch[w].failures \subseteq batch[w].all
      /\ \A m \in batch[w].all : queue[m].place = "inflight"
    BY BatchFacts
<1>2. batch[w].current = {} /\ queue' = queue
    BY DEF NextRecord
<1>3. PICK m \in batch[w].todo :
        \/ /\ queue[m].about \in Docs
           /\ Deliver(w, queue[m].about)
           /\ batch' = [batch EXCEPT ![w].todo = @ \ {m}, ![w].current = {m}]
        \/ /\ queue[m].about = TestEvent
           /\ batch' = [batch EXCEPT ![w].todo = @ \ {m}, ![w].failures = @ \cup {m}]
           /\ UNCHANGED vars
    BY DEF NextRecord
<1>4. m \in batch[w].all /\ m \in Messages
    BY <1>1
<1>5. CASE /\ queue[m].about \in Docs
           /\ Deliver(w, queue[m].about)
           /\ batch' = [batch EXCEPT ![w].todo = @ \ {m}, ![w].current = {m}]
    <2>. DEFINE b == [batch[w] EXCEPT !.todo = batch[w].todo \ {m}, !.current = {m}]
    <2>1. /\ batch' = [batch EXCEPT ![w] = b] /\ b \in Batch
          /\ b.all = batch[w].all /\ b.todo = batch[w].todo \ {m}
          /\ b.current = {m} /\ b.failures = batch[w].failures
        <3>1. batch' = [batch EXCEPT ![w] = b]
            BY <1>1, <1>5
        <3>2. b \in Batch
            BY <1>1, <1>4 DEF Batch
        <3>3. /\ b.all = batch[w].all /\ b.todo = batch[w].todo \ {m}
              /\ b.current = {m} /\ b.failures = batch[w].failures
            BY <1>1 DEF Batch
        <3>4. QED
            BY <3>1, <3>2, <3>3
    <2>2. UNCHANGED <<docs, objects>> /\ [Next]_vars
        BY <1>5 DEF Deliver, Next, FaultFreeNext
    <2>3. job' = [job EXCEPT ![w] = StartJob(queue[m].about)] /\ job \in [Workers -> Job]
        BY <1>5 DEF Deliver, QInv, IInv, TypeOK
    <2>4. job'[w].pc = "load" /\ job'[w].doc = queue[m].about
          /\ \A v \in Workers \ {w} : job'[v] = job[v]
        BY <2>3 DEF StartJob
    <2>5. BatchOK(w)'
        <3>1. batch'[w] = b
            BY <1>1, <2>1
        <3>2. Cardinality({m}) = 1
            BY FS_Singleton
        <3>3. b.todo \cup b.current \cup b.failures \subseteq b.all
            BY <1>1, <1>4, <2>1
        <3>4. Cardinality(b.all) <= BatchSize
            BY <1>1, <2>1 DEF BatchOK
        <3>5. job'[w].pc # "idle" /\ b.current # {} /\ \A n \in b.current :
                    queue'[n].about = job'[w].doc
            BY <1>2, <2>1, <2>4
        <3>6. Cardinality(b.current) <= 1
            BY <2>1, <3>2
        <3>. HIDE DEF b
        <3>7. QED
            BY <3>1, <3>3, <3>4, <3>5, <3>6 DEF BatchOK
    <2>6. \A n \in Messages :
               /\ n \in b.all => n \in batch[w].all /\ queue[n].place = "inflight"
               /\ n \in batch[w].todo \cup batch[w].failures =>
                    n \in b.todo \cup b.failures \/ n \in b.current
        BY <1>1, <2>1
    <2>7. b.all = batch[w].all
        BY <2>1
    <2>. HIDE DEF b
    <2>8. QED
        BY <1>1, <1>2, <2>1, <2>2, <2>4, <2>5, <2>6, <2>7, InvocationMoves
<1>6. CASE /\ queue[m].about = TestEvent
           /\ batch' = [batch EXCEPT ![w].todo = @ \ {m}, ![w].failures = @ \cup {m}]
           /\ UNCHANGED vars
    <2>. DEFINE b == [batch[w] EXCEPT !.todo = batch[w].todo \ {m},
                                      !.failures = batch[w].failures \cup {m}]
    <2>1. /\ batch' = [batch EXCEPT ![w] = b] /\ b \in Batch
          /\ b.all = batch[w].all /\ b.todo = batch[w].todo \ {m}
          /\ b.current = {} /\ b.failures = batch[w].failures \cup {m}
        <3>1. batch' = [batch EXCEPT ![w] = b]
            BY <1>1, <1>6
        <3>2. b \in Batch
            BY <1>1, <1>4 DEF Batch
        <3>3. /\ b.all = batch[w].all /\ b.todo = batch[w].todo \ {m}
              /\ b.current = {} /\ b.failures = batch[w].failures \cup {m}
            BY <1>1, <1>2 DEF Batch
        <3>4. QED
            BY <3>1, <3>2, <3>3
    <2>2. UNCHANGED <<docs, objects, job>> /\ [Next]_vars
        BY <1>6 DEF vars
    <2>3. BatchOK(w)'
        <3>1. batch'[w] = b
            BY <1>1, <2>1
        <3>2. b.todo \cup b.current \cup b.failures \subseteq b.all
            BY <1>1, <1>4, <2>1
        <3>3. b.current = batch[w].current /\ b.all = batch[w].all
            BY <1>2, <2>1
        <3>4. QED
            BY <1>1, <1>2, <2>2, <3>1, <3>2, <3>3 DEF BatchOK
    <2>4. \A n \in Messages :
               /\ n \in b.all => n \in batch[w].all /\ queue[n].place = "inflight"
               /\ n \in batch[w].todo \cup batch[w].failures => n \in b.todo \cup b.failures
        BY <1>1, <2>1
    <2>5. b.all = batch[w].all
        BY <2>1
    <2>. HIDE DEF b
    <2>6. QED
        BY <1>1, <1>2, <2>1, <2>2, <2>3, <2>4, <2>5, InvocationMoves
<1>7. QED
    BY <1>3, <1>5, <1>6

\* A record is over: if it raised, it joins the failures; if it returned, nobody
\* needs its message any more.
LEMMA FinishRecordKeeps ==
    ASSUME QInv, NEW w \in Workers, FinishRecord(w)
    PROVE  QInv'
<1>1. /\ queue \in [Messages -> Message] /\ batch \in [Workers -> Batch] /\ BatchOK(w)
      /\ batch[w] \in Batch /\ batch[w].all \subseteq Messages
      /\ batch[w].todo \cup batch[w].current \cup batch[w].failures \subseteq batch[w].all
      /\ \A m \in batch[w].all : queue[m].place = "inflight"
    BY BatchFacts
<1>2. Finish(w) /\ queue' = queue
    BY DEF FinishRecord
<1>3. UNCHANGED <<docs, objects>> /\ [Next]_vars
    BY <1>2 DEF Finish, WorkerStep, Next, FaultFreeNext
<1>4. job'[w].pc = "idle" /\ \A v \in Workers \ {w} : job'[v] = job[v]
    BY <1>2 DEF Finish, IdleJob, QInv, IInv, TypeOK
<1>5. PICK F \in SUBSET batch[w].all :
        /\ batch' = [batch EXCEPT ![w] = [batch[w] EXCEPT !.current = {}, !.failures = F]]
        /\ batch[w].failures \subseteq F
        /\ job[w].pc # "returned" => batch[w].current \subseteq F
    <2>1. batch' = [batch EXCEPT ![w] = [batch[w] EXCEPT !.current = {},
                        !.failures = IF job[w].pc = "raised"
                                     THEN batch[w].failures \cup batch[w].current
                                     ELSE batch[w].failures]]
        BY <1>1 DEF FinishRecord
    <2>2. job[w].pc \in {"returned", "raised"}
        BY <1>2 DEF Finish
    <2>3. QED
        BY <1>1, <2>1, <2>2
<1>. DEFINE b == [batch[w] EXCEPT !.current = {}, !.failures = F]
<1>6. /\ batch' = [batch EXCEPT ![w] = b] /\ b \in Batch
      /\ b.all = batch[w].all /\ b.todo = batch[w].todo /\ b.current = {} /\ b.failures = F
    <2>1. b \in Batch
        BY <1>1, <1>5 DEF Batch
    <2>2. b.all = batch[w].all /\ b.todo = batch[w].todo /\ b.current = {} /\ b.failures = F
        BY <1>1 DEF Batch
    <2>3. QED
        BY <1>5, <2>1, <2>2
<1>. HIDE DEF b
<1>7. BatchOK(w)'
    <2>1. batch'[w] = b
        BY <1>1, <1>6
    <2>2. Cardinality({}) = 0
        BY FS_EmptySet
    <2>3. b.todo \cup b.current \cup b.failures \subseteq b.all
        BY <1>1, <1>5, <1>6
    <2>4. Cardinality(b.all) <= BatchSize
        BY <1>1, <1>6 DEF BatchOK
    <2>5. QED
        BY <1>4, <1>6, <2>1, <2>2, <2>3, <2>4 DEF BatchOK
<1>8. ASSUME NEW m \in Messages
      PROVE  /\ m \in b.all => m \in batch[w].all /\ queue[m].place = "inflight"
             /\ \/ m \in batch[w].todo \cup batch[w].failures
                \/ m \in batch[w].current /\ job[w].pc # "returned"
                => m \in b.todo \cup b.failures
    BY <1>1, <1>5, <1>6
<1>9. QED
    BY <1>1, <1>2, <1>3, <1>4, <1>6, <1>7, <1>8, InvocationMoves

\* An empty batch is a batch of nothing.
LEMMA EmptyBatch ==
    /\ NoBatch \in Batch
    /\ NoBatch.all = {} /\ NoBatch.todo = {} /\ NoBatch.current = {} /\ NoBatch.failures = {}
BY DEF NoBatch, Batch

\* The handler returns: what failed is visible again, the rest is deleted, none of
\* it for a document still pending.
LEMMA ReturnBatchKeeps ==
    ASSUME QInv, NEW w \in Workers, ReturnBatch(w)
    PROVE  QInv'
<1>1. /\ queue \in [Messages -> Message] /\ batch \in [Workers -> Batch] /\ BatchOK(w)
      /\ batch[w] \in Batch /\ batch[w].all \subseteq Messages
      /\ batch[w].todo \cup batch[w].current \cup batch[w].failures \subseteq batch[w].all
      /\ \A m \in batch[w].all : queue[m].place = "inflight"
    BY BatchFacts
<1>2. /\ batch[w].todo = {} /\ batch[w].current = {} /\ UNCHANGED vars
      /\ batch' = [batch EXCEPT ![w] = NoBatch]
      /\ queue' = [m \in Messages |->
                      IF m \notin batch[w].all THEN queue[m]
                      ELSE IF m \in batch[w].failures
                      THEN [queue[m] EXCEPT !.place = "visible"]
                      ELSE [queue[m] EXCEPT !.place = "deleted", !.receives = 0]]
    BY DEF ReturnBatch
<1>3. UNCHANGED <<docs, objects, job>> /\ [Next]_vars
    BY <1>2 DEF vars
<1>4. ASSUME NEW m \in Messages
      PROVE  /\ queue'[m].about = queue[m].about /\ queue'[m] \in Message
             /\ m \notin batch[w].all => queue'[m] = queue[m]
             /\ m \in batch[w].failures => queue'[m].place = "visible"
    <2>1. queue[m] \in Message /\ 0 \in 0..MaxReceives
        BY <1>1, QueueAssumption
    <2>2. CASE m \notin batch[w].all
        <3>1. queue'[m] = queue[m]
            BY <1>2, <2>2
        <3>2. QED
            BY <1>1, <2>1, <2>2, <3>1
    <2>3. CASE m \in batch[w].failures
        <3>1. queue'[m] = [queue[m] EXCEPT !.place = "visible"]
            BY <1>1, <1>2, <2>3
        <3>2. QED
            BY <1>1, <2>1, <2>3, <3>1 DEF Message, Places
    <2>4. CASE m \in batch[w].all \ batch[w].failures
        <3>1. queue'[m] = [queue[m] EXCEPT !.place = "deleted", !.receives = 0]
            BY <1>2, <2>4
        <3>2. QED
            BY <2>1, <2>4, <3>1 DEF Message, Places
    <2>5. QED
        BY <2>2, <2>3, <2>4
<1>5. queue' \in [Messages -> Message]
    BY <1>2, <1>4
<1>6. BatchOK(w)'
    <2>1. batch'[w] = NoBatch /\ job'[w] = job[w]
        BY <1>1, <1>2, <1>3
    <2>2. Cardinality({}) = 0
        BY FS_EmptySet
    <2>3. job[w].pc = "idle"
        BY <1>1, <1>2 DEF BatchOK
    <2>4. QED
        BY <2>1, <2>2, <2>3, EmptyBatch, QueueAssumption DEF BatchOK
<1>7. QED
    BY <1>1, <1>2, <1>3, <1>4, <1>5, <1>6, EmptyBatch, InvocationMoves

\* The invocation dies: its messages stay in flight until they are seen again.
LEMMA CrashInvocationKeeps ==
    ASSUME QInv, NEW w \in Workers, CrashInvocation(w)
    PROVE  QInv'
<1>1. /\ queue \in [Messages -> Message] /\ batch \in [Workers -> Batch] /\ BatchOK(w)
      /\ batch[w].all \subseteq Messages
      /\ \A m \in batch[w].all : queue[m].place = "inflight"
    BY BatchFacts
<1>2. batch' = [batch EXCEPT ![w] = NoBatch] /\ queue' = queue
    BY DEF CrashInvocation
<1>5. /\ UNCHANGED <<docs, objects>> /\ [Next]_vars
      /\ job'[w].pc = "idle" /\ \A v \in Workers \ {w} : job'[v] = job[v]
    <2>1. CASE Crash(w)
        <3>1. UNCHANGED <<docs, objects>> /\ [Next]_vars
            BY <2>1 DEF Crash, Fault, Next
        <3>2. job'[w].pc = "idle" /\ \A v \in Workers \ {w} : job'[v] = job[v]
            BY <2>1 DEF Crash, IdleJob, QInv, IInv, TypeOK
        <3>3. QED
            BY <3>1, <3>2
    <2>2. CASE job[w].pc = "idle" /\ UNCHANGED vars
        BY <2>2 DEF vars
    <2>3. QED
        BY <2>1, <2>2 DEF CrashInvocation
<1>6. BatchOK(w)'
    <2>1. batch'[w] = NoBatch
        BY <1>1, <1>2
    <2>2. Cardinality({}) = 0
        BY FS_EmptySet
    <2>3. QED
        BY <1>5, <2>1, <2>2, EmptyBatch, QueueAssumption DEF BatchOK
<1>7. QED
    BY <1>1, <1>2, <1>5, <1>6, EmptyBatch, InvocationMoves

-----------------------------------------------------------------------------
(* The theorems *)

\* Before the first request there is S3's test event and nothing else.
LEMMA QInvInit == QueueInit => QInv
<1> SUFFICES ASSUME QueueInit PROVE QInv
    OBVIOUS
<1>1. IInv
    BY InitInvariant DEF QueueInit
<1>2. \A d \in Docs : docs[d].status = "absent" /\ d \notin objects
                      /\ replica[d].status = "absent"
    BY DEF QueueInit, Init, AbsentItem, View
<1>3. objects = {}
    BY DEF QueueInit, Init
<1>4. \A w \in Workers : job[w].pc = "idle"
    BY DEF QueueInit, Init, IdleJob
<1>5. queue \in [Messages -> Message]
    BY QueueAssumption DEF QueueInit, Message, Places
<1>6. batch \in [Workers -> Batch] /\ \A w \in Workers : batch[w] = NoBatch
    BY EmptyBatch DEF QueueInit
<1>7. ASSUME NEW w \in Workers PROVE BatchOK(w)
    <2>1. Cardinality({}) = 0
        BY FS_EmptySet
    <2>2. batch[w].all = {} /\ batch[w].todo = {} /\ batch[w].current = {}
          /\ batch[w].failures = {} /\ job[w].pc = "idle"
        BY <1>4, <1>6, EmptyBatch
    <2>3. 0 <= 1 /\ 0 <= BatchSize
        BY QueueAssumption
    <2>4. QED
        BY <2>1, <2>2, <2>3 DEF BatchOK
<1>8. QueueTypeOK
    BY <1>1, <1>5, <1>6, <1>7 DEF QueueTypeOK, IInv, Message, Batch
<1>9. Held
    BY <1>6, EmptyBatch DEF Held
<1>10. TablesAgree /\ Tracked
    BY <1>2, <1>3 DEF TablesAgree, Tracked
<1>11. QED
    BY <1>1, <1>8, <1>9, <1>10 DEF QInv

\* Every step of the queue keeps the invariant.
LEMMA QNextKeeps == QInv /\ [QueueNext]_qvars => QInv'
<1> SUFFICES ASSUME QInv, [QueueNext]_qvars PROVE QInv'
    OBVIOUS
<1>1. ASSUME NEW d \in Docs, TableOnly(d) \/ PutObject(d) PROVE QInv'
    BY <1>1, TableOnlyKeeps, PutObjectKeeps
<1>2. ASSUME NEW m \in Messages, VisibilityTimeout(m) \/ DeadLetter(m) PROVE QInv'
    BY <1>2, TimersKeep
<1>3. ASSUME NEW w \in Workers, Receive(w) \/ NextRecord(w) PROVE QInv'
    BY <1>3, ReceiveKeeps, NextRecordKeeps
<1>4. ASSUME NEW w \in Workers, RecordStep(w) \/ RecordFault(w) PROVE QInv'
    BY <1>4, RecordKeeps
<1>5. ASSUME NEW w \in Workers,
             FinishRecord(w) \/ ReturnBatch(w) \/ CrashInvocation(w)
      PROVE  QInv'
    BY <1>5, FinishRecordKeeps, ReturnBatchKeeps, CrashInvocationKeeps
<1>6. CASE UNCHANGED qvars
    <2>1. UNCHANGED vars /\ UNCHANGED <<queue, batch, objects, docs, job>>
        BY <1>6 DEF qvars, vars
    <2>2. QED
        BY <2>1, QueueUntouched
<1>7. QED
    BY <1>1, <1>2, <1>3, <1>4, <1>5, <1>6 DEF QueueNext, InvocationStep

\* The invariant holds in every state the queue can reach.
LEMMA QueueInvariance == QueueSpec => []QInv
BY QInvInit, QNextKeeps, PTL DEF QueueSpec

\* Messages, batches and the records in them keep their types, and an invocation
\* works on the document its current message is about (worker.py:284-298).
THEOREM QueueTypeCorrect == QueueSpec => []QueueTypeOK
<1>1. QInv => QueueTypeOK
    BY DEF QInv
<1>2. QED
    BY <1>1, QueueInvariance, PTL

\* No upload is forgotten before a worker has claimed its document, however many
\* invocations run, fail partly, are killed or see a message twice
\* (worker.py:288-298, stacks.py's queue and dead-letter queue).
THEOREM PendingStaysQueued == QueueSpec => []PendingIsQueued
<1>1. QInv => PendingIsQueued
    BY DEF QInv, Tracked, Carries, PendingIsQueued, InPlace
<1>2. QED
    BY <1>1, QueueInvariance, PTL

-----------------------------------------------------------------------------
(* A message only moves forward *)

\* What a step may do to a message.
Forward(m) ==
    queue'[m] # queue[m] =>
        /\ Advance(queue[m]) < Advance(queue'[m])
        /\ InPlace(m, "unsent") \/ queue'[m].about = queue[m].about

\* How far a message of each place has come, and what the step after it adds.
LEMMA PlacesAdvance ==
    ASSUME NEW msg \in Message
    PROVE  /\ msg.receives \in 0..MaxReceives /\ MaxReceives \in Nat
           /\ msg.place = "unsent" => Advance(msg) = 0
           /\ msg.place = "inflight" => Advance(msg) = 2 * msg.receives
           /\ msg.place = "visible" => Advance(msg) = 2 * msg.receives + 1
           /\ msg.place \in {"deleted", "dead"} => Advance(msg) = 2 * MaxReceives + 2
BY QueueAssumption DEF Advance, Message

\* S3 sends a message: it is visible and was never received.
LEMMA SentForward ==
    ASSUME QInv, NEW d \in Docs, PutObject(d), NEW m \in Messages
    PROVE  Forward(m)
<1>1. queue \in [Messages -> Message] /\ queue[m] \in Message
    BY DEF QInv, QueueTypeOK, Message
<1>2. PICK n \in Messages :
        /\ queue[n].place = "unsent"
        /\ queue' = [queue EXCEPT ![n].about = d, ![n].place = "visible"]
    BY DEF PutObject, InPlace
<1>3. CASE m # n
    BY <1>1, <1>2, <1>3 DEF Forward
<1>4. CASE m = n
    <2> DEFINE k == [[queue[n] EXCEPT !.about = d] EXCEPT !.place = "visible"]
    <2>1. queue'[m] = k
        BY <1>1, <1>2, <1>4
    <2>2. k \in Message /\ k.place = "visible" /\ k.receives = queue[n].receives
        BY <1>1, <1>4 DEF Message, Places
    <2> HIDE DEF k
    <2>3. Advance(queue[m]) = 0 /\ Advance(k) = 2 * k.receives + 1 /\ k.receives \in Nat
        BY <1>1, <1>2, <1>4, <2>2, PlacesAdvance
    <2>4. QED
        BY <1>2, <1>4, <2>1, <2>3 DEF Forward, InPlace
<1>5. QED
    BY <1>3, <1>4

\* A message is received once more, and no more than MaxReceives times.
LEMMA ReceivedForward ==
    ASSUME QInv, NEW w \in Workers, Receive(w), NEW m \in Messages
    PROVE  Forward(m)
<1>1. queue \in [Messages -> Message] /\ queue[m] \in Message
    BY DEF QInv, QueueTypeOK, Message
<1>2. PICK some \in SUBSET {n \in Messages : InPlace(n, "visible")
                                            /\ queue[n].receives < MaxReceives} :
        queue' = [n \in Messages |->
                     IF n \in some
                     THEN [queue[n] EXCEPT !.place = "inflight", !.receives = @ + 1]
                     ELSE queue[n]]
    BY DEF Receive
<1>3. CASE m \notin some
    BY <1>2, <1>3 DEF Forward
<1>4. CASE m \in some
    <2> DEFINE k == [queue[m] EXCEPT !.place = "inflight", !.receives = @ + 1]
    <2>1. queue'[m] = k /\ queue[m].place = "visible" /\ queue[m].receives < MaxReceives
        BY <1>2, <1>4 DEF InPlace
    <2>2. queue[m].receives \in 0..MaxReceives /\ MaxReceives \in Nat
          /\ Advance(queue[m]) = 2 * queue[m].receives + 1
        BY <1>1, <2>1, PlacesAdvance
    <2> DEFINE r == queue[m].receives + 1
    <2>3. k \in Message /\ k.place = "inflight" /\ k.receives = r /\ k.about = queue[m].about
        <3>1. r \in 0..MaxReceives
            BY <2>1, <2>2
        <3>2. k = [[queue[m] EXCEPT !.place = "inflight"] EXCEPT !.receives = r]
            BY <1>1 DEF Message
        <3> HIDE DEF k, r
        <3>3. QED
            BY <1>1, <3>1, <3>2 DEF Message, Places
    <2>4. Advance(k) = 2 * k.receives
        BY <2>3, PlacesAdvance
    <2>5. QED
        BY <2>1, <2>2, <2>3, <2>4 DEF Forward
<1>5. QED
    BY <1>3, <1>4

\* SQS's timers: a message in flight is visible again, or one whose receives are
\* used up is dead.
LEMMA TimersForward ==
    ASSUME QInv, NEW n \in Messages, VisibilityTimeout(n) \/ DeadLetter(n), NEW m \in Messages
    PROVE  Forward(m)
<1>1. queue \in [Messages -> Message] /\ queue[m] \in Message
    BY DEF QInv, QueueTypeOK, Message
<1>2. CASE m # n
    BY <1>1, <1>2 DEF VisibilityTimeout, DeadLetter, Forward
<1>3. CASE m = n /\ VisibilityTimeout(n)
    <2> DEFINE k == [queue[m] EXCEPT !.place = "visible"]
    <2>1. queue'[m] = k /\ queue[m].place = "inflight"
        BY <1>1, <1>3 DEF VisibilityTimeout, InPlace
    <2>2. k \in Message /\ k.place = "visible" /\ k.receives = queue[m].receives
          /\ k.about = queue[m].about
        BY <1>1 DEF Message, Places
    <2> HIDE DEF k
    <2>3. /\ k.receives \in Nat /\ Advance(queue[m]) = 2 * k.receives
          /\ Advance(k) = 2 * k.receives + 1
        BY <1>1, <2>1, <2>2, PlacesAdvance
    <2>4. QED
        BY <2>1, <2>2, <2>3 DEF Forward
<1>4. CASE m = n /\ DeadLetter(n)
    <2> DEFINE k == [[queue[m] EXCEPT !.place = "dead"] EXCEPT !.receives = 0]
    <2>1. queue'[m] = k /\ queue[m].place = "visible"
        BY <1>1, <1>4 DEF DeadLetter, InPlace
    <2>2. k \in Message /\ k.place = "dead" /\ k.about = queue[m].about
        <3>1. 0 \in 0..MaxReceives
            BY QueueAssumption
        <3>2. QED
            BY <1>1, <3>1 DEF Message, Places
    <2>3. /\ queue[m].receives \in 0..MaxReceives /\ MaxReceives \in Nat
          /\ Advance(queue[m]) = 2 * queue[m].receives + 1
          /\ Advance(k) = 2 * MaxReceives + 2
        BY <1>1, <2>1, <2>2, PlacesAdvance
    <2>4. QED
        BY <2>1, <2>2, <2>3 DEF Forward
<1>5. QED
    BY <1>2, <1>3, <1>4

\* A batch is returned: what it held was in flight, and is visible again or gone.
LEMMA ReturnedForward ==
    ASSUME QInv, NEW w \in Workers, ReturnBatch(w), NEW m \in Messages
    PROVE  Forward(m)
<1>1. /\ queue \in [Messages -> Message] /\ queue[m] \in Message
      /\ \A n \in batch[w].all : queue[n].place = "inflight"
    BY BatchFacts
<1>2. queue' = [n \in Messages |->
                   IF n \notin batch[w].all THEN queue[n]
                   ELSE IF n \in batch[w].failures
                   THEN [queue[n] EXCEPT !.place = "visible"]
                   ELSE [queue[n] EXCEPT !.place = "deleted", !.receives = 0]]
    BY DEF ReturnBatch
<1>3. CASE m \notin batch[w].all
    BY <1>2, <1>3 DEF Forward
<1>4. CASE m \in batch[w].all
    <2> DEFINE back == [queue[m] EXCEPT !.place = "visible"]
               gone == [queue[m] EXCEPT !.place = "deleted", !.receives = 0]
    <2>1. queue'[m] = (IF m \in batch[w].failures THEN back ELSE gone)
          /\ queue[m].place = "inflight"
        BY <1>1, <1>2, <1>4
    <2>2. /\ back \in Message /\ back.place = "visible" /\ back.about = queue[m].about
          /\ back.receives = queue[m].receives
        BY <1>1 DEF Message, Places
    <2>3. gone \in Message /\ gone.place = "deleted" /\ gone.about = queue[m].about
        <3>1. 0 \in 0..MaxReceives
            BY QueueAssumption
        <3>2. QED
            BY <1>1, <3>1 DEF Message, Places
    <2>4. /\ queue[m].receives \in 0..MaxReceives /\ MaxReceives \in Nat
          /\ Advance(queue[m]) = 2 * queue[m].receives
          /\ Advance(back) = 2 * queue[m].receives + 1
          /\ Advance(gone) = 2 * MaxReceives + 2
        BY <1>1, <2>1, <2>2, <2>3, PlacesAdvance
    <2> HIDE DEF back, gone
    <2>5. QED
        BY <2>1, <2>2, <2>3, <2>4 DEF Forward
<1>5. QED
    BY <1>3, <1>4

\* No other step touches the queue.
LEMMA QueueStepForward ==
    ASSUME QInv, [QueueNext]_qvars, NEW m \in Messages
    PROVE  Forward(m)
<1>1. CASE \E d \in Docs : PutObject(d)
    BY <1>1, SentForward
<1>2. CASE \E n \in Messages : VisibilityTimeout(n) \/ DeadLetter(n)
    BY <1>2, TimersForward
<1>3. CASE \E w \in Workers : Receive(w) \/ ReturnBatch(w)
    BY <1>3, ReceivedForward, ReturnedForward
<1>4. CASE \/ \E d \in Docs : TableOnly(d)
           \/ \E w \in Workers : \/ NextRecord(w) \/ RecordStep(w) \/ FinishRecord(w)
                                 \/ RecordFault(w) \/ CrashInvocation(w)
           \/ UNCHANGED qvars
    BY <1>4 DEF TableOnly, NextRecord, RecordStep, FinishRecord, RecordFault,
                CrashInvocation, qvars, Forward
<1>5. QED
    BY <1>1, <1>2, <1>3, <1>4 DEF QueueNext, InvocationStep

\* However invocations fail, time out or are killed, a message is received at most
\* max_receive_count times and never comes back once deleted or dead-lettered
\* (worker.py:284-298, stacks.py's queue and dead-letter queue).
THEOREM DeliveriesAreBounded == QueueSpec => DeliveriesAdvance
<1>1. QInv /\ [QueueNext]_qvars => [\A m \in Messages : Forward(m)]_qvars
    BY QueueStepForward
<1>2. QED
    BY <1>1, QueueInvariance, PTL DEF QueueSpec, DeliveriesAdvance, Forward

-----------------------------------------------------------------------------
(* The pipeline behind the queue *)

\* Redelivered, duplicated and killed deliveries included, a document behind the
\* queue has one claim, is ready only with all its rows, stays settled, and every
\* execution for it is over after a bounded number of calls (worker.py:98-298).
THEOREM PipelineIsSafeBehindQueue ==
    QueueSpec => /\ [](SingleClaim /\ ReadyIsComplete)
                 /\ SettledStaysSettled /\ ExecutionAdvances
BY QueueImplementsPipeline, ClaimIsExclusive, ReadyMeansComplete, SettledForGood,
   ExecutionsAreBounded, PTL

\* Behind the queue a document lives the life of DocumentLifecycle.tla.
THEOREM QueueImplementsLifecycle == QueueSpec => LifecycleSpec
BY QueueImplementsPipeline, ImplementsLifecycle, PTL
=============================================================================
