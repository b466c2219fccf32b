------------------------------ MODULE Ingestion ------------------------------
(***************************************************************************)
(* The document pipeline: the API's document routes (upload-url, cancel)    *)
(* and any number of concurrent executions of the worker's process_record,  *)
(* against the DynamoDB documents table and the S3 bucket.                  *)
(*                                                                          *)
(* Every call to DynamoDB, S3 or the embedding model is one action, so any  *)
(* call of another worker or of the API may fall between two of them.       *)
(* Deliveries are at least once: any document that exists may be delivered  *)
(* to any free worker at any time (S3 event through SQS, redelivery, or     *)
(* POST /documents/{id}/ingest).  IngestionQueue.tla adds the queue.        *)
(***************************************************************************)
EXTENDS Integers, FiniteSets

CONSTANTS
    Docs,       \* document ids (uuid4: never reused)
    Workers,    \* concurrent executions of process_record
    None,       \* the document of an idle worker
    MaxChunks,  \* bound on the chunks of one text
    Slices      \* progress updates a chunk loop aims at: 50 in the code

ASSUME NoneAssumption == None \notin Docs
ASSUME MaxChunksAssumption == MaxChunks \in Nat
ASSUME SlicesAssumption == Slices \in Nat \ {0}

VARIABLES
    docs,       \* documents table: the DOCUMENT item of each id
    chunks,     \* documents table: the CHUNK row indexes of each id
    objects,    \* S3: the ids whose source object has been uploaded
    replica,    \* what an eventually consistent read may still return
    job,        \* the process_record execution of each worker
    claimed     \* history: ids whose conditional claim has succeeded

vars == <<docs, chunks, objects, replica, job, claimed>>

-----------------------------------------------------------------------------
(* Items, rows and jobs *)

Statuses == {"absent", "pending", "processing", "ready", "failed"}
Errors   == {"none", "canceled", "ingestion_failed"}

\* Stages of a running job, in order; "failed" is only ever written on an item.
JobStages == {"reading", "parsing", "chunking", "embedding", "storing", "done"}
Stages    == JobStages \cup {"none", "failed"}

Item == [status : Statuses, error : Errors, stage : Stages,
         percent : Nat, count : Nat]

AbsentItem == [status |-> "absent", error |-> "none", stage |-> "none",
               percent |-> 0, count |-> 0]

\* The attributes get_document's callers decide on.
Seen      == [status : Statuses, error : Errors]
View(i)   == [status |-> i.status, error |-> i.error]

\* get_item without ConsistentRead: the current item or an older copy of it.
Reads(d) == {View(docs[d]), replica[d]}

\* Where an execution stands: the next call it makes, or how it ended.
PCs == {"idle", "load", "claim", "report", "work", "check", "fail",
        "returned", "raised"}

Job == [pc : PCs, doc : Docs \cup {None}, stage : Stages, total : Nat, done : Nat]

IdleJob     == [pc |-> "idle", doc |-> None, stage |-> "none", total |-> 0, done |-> 0]
StartJob(d) == [pc |-> "load", doc |-> d, stage |-> "none", total |-> 0, done |-> 0]

\* The two stages that make one call per chunk.
Loops == {"embedding", "storing"}

NextStage == [reading |-> "parsing", parsing |-> "chunking",
              chunking |-> "embedding", embedding |-> "storing",
              storing |-> "done"]

AtLeastOne(n) == IF n > 1 THEN n ELSE 1

\* Progress is written for every step-th chunk and for the last one.
StepOf(total)        == AtLeastOne(total \div Slices)
Reports(done, total) == done = total \/ done % StepOf(total) = 0

\* Mutant of Percent: storing starts below the end of embedding.
PercentOverlapping(j) ==
    CASE j.stage = "reading"   -> 5
      [] j.stage = "parsing"   -> 10
      [] j.stage = "chunking"  -> 15
      [] j.stage = "embedding" -> 20 + ((60 * j.done) \div AtLeastOne(j.total))
      [] j.stage = "storing"   -> 75 + ((20 * j.done) \div AtLeastOne(j.total))
      [] OTHER                 -> 100

\* The percentage written with each progress update.
Percent(j) ==
    CASE j.stage = "reading"   -> 5
      [] j.stage = "parsing"   -> 10
      [] j.stage = "chunking"  -> 15
      [] j.stage = "embedding" -> 20 + ((50 * j.done) \div AtLeastOne(j.total))
      [] j.stage = "storing"   -> 75 + ((20 * j.done) \div AtLeastOne(j.total))
      [] OTHER                 -> 100

\* Between a won claim and the end of the execution.
Working(j) == j.pc \in {"report", "work", "check", "fail"}
Active(w)  == Working(job[w])

\* What a job's program counter says of its other fields.
JobOK(j) ==
    /\ j.pc # "idle" => j.doc \in Docs
    /\ Working(j) => j.stage \in JobStages
    /\ j.pc \in {"report", "check"} => j.stage # "done"
    /\ j.total \in 0..MaxChunks

TypeOK ==
    /\ docs \in [Docs -> Item]
    /\ chunks \in [Docs -> SUBSET Nat]
    /\ objects \subseteq Docs
    /\ replica \in [Docs -> Seen]
    /\ job \in [Workers -> Job]
    /\ claimed \subseteq Docs
    /\ \A w \in Workers : JobOK(job[w])

Init ==
    /\ docs = [d \in Docs |-> AbsentItem]
    /\ chunks = [d \in Docs |-> {}]
    /\ objects = {}
    /\ replica = [d \in Docs |-> View(AbsentItem)]
    /\ job = [w \in Workers |-> IdleJob]
    /\ claimed = {}

-----------------------------------------------------------------------------
(* The API, the browser's upload and the table's replication *)

\* put_item under attribute_not_exists.
PutDocument(d) ==
    /\ docs[d].status = "absent"
    /\ docs' = [docs EXCEPT ![d].status = "pending"]

\* update_item, whose only condition is that the item exists.
MarkDocumentFailed(d, why) ==
    /\ docs[d].status # "absent"
    /\ docs' = [docs EXCEPT ![d].status = "failed", ![d].error = why]

\* POST /documents/upload-url.
CreateDocument(d) ==
    /\ PutDocument(d)
    /\ UNCHANGED <<chunks, objects, replica, job, claimed>>

\* The browser PUTs the file to the presigned URL (again and again if it likes).
Upload(d) ==
    /\ docs[d].status # "absent"
    /\ objects' = objects \cup {d}
    /\ UNCHANGED <<docs, chunks, replica, job, claimed>>

\* POST /documents/{id}/cancel: get_document, then mark_document_failed.  The
\* status is not looked at, and an item that exists stays, so the read and the
\* write are one step.
CancelDocument(d) ==
    /\ \E seen \in Reads(d) : seen.status # "absent"
    /\ MarkDocumentFailed(d, "canceled")
    /\ UNCHANGED <<chunks, objects, replica, job, claimed>>

Replicate(d) ==
    /\ replica[d] # View(docs[d])
    /\ replica' = [replica EXCEPT ![d] = View(docs[d])]
    /\ UNCHANGED <<docs, chunks, objects, job, claimed>>

-----------------------------------------------------------------------------
(* process_record *)

\* A record for document d reaches a free worker.
Deliver(w, d) ==
    /\ job[w].pc = "idle"
    /\ docs[d].status # "absent"
    /\ job' = [job EXCEPT ![w] = StartJob(d)]
    /\ UNCHANGED <<docs, chunks, objects, replica, claimed>>

\* get_document: missing raises document_not_found, ready is a duplicate.
Load(w) ==
    /\ job[w].pc = "load"
    /\ \E seen \in Reads(job[w].doc) :
        job' = [job EXCEPT ![w].pc = IF seen.status = "absent" THEN "raised"
                                     ELSE IF seen.status = "ready" THEN "returned"
                                     ELSE "claim"]
    /\ UNCHANGED <<docs, chunks, objects, replica, claimed>>

\* Mutant of Claim: the update without its ConditionExpression.
ClaimUnconditionally(w) ==
    LET d == job[w].doc IN
    /\ job[w].pc = "claim"
    /\ docs' = [docs EXCEPT ![d].status = "processing"]
    /\ claimed' = claimed \cup {d}
    /\ job' = [job EXCEPT ![w].pc = "report", ![w].stage = "reading"]
    /\ UNCHANGED <<chunks, objects, replica>>

\* Mutant of Claim: a failed document may be claimed again, to retry it.
ClaimFailedToo(w) ==
    LET d == job[w].doc IN
    /\ job[w].pc = "claim"
    /\ IF docs[d].status \in {"pending", "failed"}
       THEN /\ docs' = [docs EXCEPT ![d].status = "processing"]
            /\ claimed' = claimed \cup {d}
            /\ job' = [job EXCEPT ![w].pc = "report", ![w].stage = "reading"]
       ELSE /\ job' = [job EXCEPT ![w].pc = "returned"]
            /\ UNCHANGED <<docs, claimed>>
    /\ UNCHANGED <<chunks, objects, replica>>

\* Mutant of Claim: it is made inside the try block, whose except clause then
\* takes a duplicate for a failure.
ClaimRefusedFails(w) ==
    LET d == job[w].doc IN
    /\ job[w].pc = "claim"
    /\ IF docs[d].status = "pending"
       THEN /\ docs' = [docs EXCEPT ![d].status = "processing"]
            /\ claimed' = claimed \cup {d}
            /\ job' = [job EXCEPT ![w].pc = "report", ![w].stage = "reading"]
       ELSE /\ job' = [job EXCEPT ![w].pc = "fail", ![w].stage = "reading"]
            /\ UNCHANGED <<docs, claimed>>
    /\ UNCHANGED <<chunks, objects, replica>>

\* The conditional claim: pending becomes processing, or the record is a
\* duplicate and process_record returns.
Claim(w) ==
    LET d == job[w].doc IN
    /\ job[w].pc = "claim"
    /\ IF docs[d].status = "pending"
       THEN /\ docs' = [docs EXCEPT ![d].status = "processing"]
            /\ claimed' = claimed \cup {d}
            /\ job' = [job EXCEPT ![w].pc = "report", ![w].stage = "reading"]
       ELSE /\ job' = [job EXCEPT ![w].pc = "returned"]
            /\ UNCHANGED <<docs, claimed>>
    /\ UNCHANGED <<chunks, objects, replica>>

\* _progress_update: best effort and unconditional, so it may leave no trace
\* and it does not look at the status it writes beside.
ReportProgress(w) ==
    LET d == job[w].doc IN
    /\ job[w].pc = "report"
    /\ \/ docs' = [docs EXCEPT ![d].stage = job[w].stage,
                               ![d].percent = Percent(job[w])]
       \/ UNCHANGED docs
    /\ job' = [job EXCEPT ![w].pc = IF job[w].stage \in Loops THEN "check" ELSE "work"]
    /\ UNCHANGED <<chunks, objects, replica, claimed>>

\* Mutant of EnterStage: the final update is preceded by a progress update.
EnterStageReporting(j, s) ==
    [j EXCEPT !.stage = s, !.done = 0, !.pc = "report"]

\* Every stage but the last begins with a progress update.
EnterStage(j, s) ==
    [j EXCEPT !.stage = s, !.done = 0,
              !.pc = IF s = "done" THEN "work" ELSE "report"]

\* Mutant of Resume: the storing loop ends one chunk early.
ResumeOneShort(j) ==
    IF j.stage \in Loops /\ j.done + 1 < j.total
    THEN [j EXCEPT !.pc = "work"]
    ELSE EnterStage(j, NextStage[j.stage])

\* What follows a cancel check that saw no cancel: the loop's next chunk, or
\* the next stage.
Resume(j) ==
    IF j.stage \in Loops /\ j.done < j.total
    THEN [j EXCEPT !.pc = "work"]
    ELSE EnterStage(j, NextStage[j.stage])

\* Mutant of CheckCanceled: one check per stage, none between chunks.
CheckCanceledOncePerStage(w) ==
    /\ job[w].pc = "check"
    /\ \E seen \in Reads(job[w].doc) :
        job' = [job EXCEPT ![w] =
                  IF seen.status = "failed" /\ seen.error = "canceled" /\ job[w].done = 0
                  THEN [job[w] EXCEPT !.pc = "returned"]
                  ELSE Resume(job[w])]
    /\ UNCHANGED <<docs, chunks, objects, replica, claimed>>

\* Mutant of CheckCanceled: anything but processing counts as a cancel.
CheckStillProcessing(w) ==
    /\ job[w].pc = "check"
    /\ \E seen \in Reads(job[w].doc) :
        job' = [job EXCEPT ![w] =
                  IF seen.status # "processing"
                  THEN [job[w] EXCEPT !.pc = "returned"]
                  ELSE Resume(job[w])]
    /\ UNCHANGED <<docs, chunks, objects, replica, claimed>>

\* _is_canceled: an eventually consistent read; a cancel it sees ends the job.
CheckCanceled(w) ==
    /\ job[w].pc = "check"
    /\ \E seen \in Reads(job[w].doc) :
        job' = [job EXCEPT ![w] =
                  IF seen.status = "failed" /\ seen.error = "canceled"
                  THEN [job[w] EXCEPT !.pc = "returned"]
                  ELSE Resume(job[w])]
    /\ UNCHANGED <<docs, chunks, objects, replica, claimed>>

\* get_object (of an object that is there) and parse_document.
ExtractText(w) ==
    /\ job[w].pc = "work"
    /\ job[w].stage \in {"reading", "parsing"}
    /\ job[w].doc \in objects
    /\ job' = [job EXCEPT ![w].pc = "check"]
    /\ UNCHANGED <<docs, chunks, objects, replica, claimed>>

\* chunk_text: the text decides how many chunks there are, none included.
ChunkText(w) ==
    /\ job[w].pc = "work"
    /\ job[w].stage = "chunking"
    /\ \E n \in 0..MaxChunks : job' = [job EXCEPT ![w].pc = "check", ![w].total = n]
    /\ UNCHANGED <<docs, chunks, objects, replica, claimed>>

\* Mutant of AfterChunk: a progress update takes the place of the chunk's end.
AfterChunkRepeating(j) ==
    [j EXCEPT !.done = IF Reports(j.done + 1, j.total) THEN @ ELSE @ + 1,
              !.pc = IF Reports(j.done + 1, j.total) THEN "report" ELSE "check"]

\* What follows the work on one chunk: a progress update when it is due.
AfterChunk(j) ==
    [j EXCEPT !.done = @ + 1,
              !.pc = IF Reports(j.done + 1, j.total) THEN "report" ELSE "check"]

EmbedChunk(w) ==
    /\ job[w].pc = "work"
    /\ job[w].stage = "embedding"
    /\ job' = [job EXCEPT ![w] = AfterChunk(@)]
    /\ UNCHANGED <<docs, chunks, objects, replica, claimed>>

\* Mutant of StoreChunk: rows numbered from one.
StoreChunkFromOne(w) ==
    LET d == job[w].doc  i == job[w].done + 1 IN
    /\ job[w].pc = "work"
    /\ job[w].stage = "storing"
    /\ chunks' = [chunks EXCEPT ![d] = @ \cup {i}]
    /\ job' = [job EXCEPT ![w] = AfterChunk(@)]
    /\ UNCHANGED <<docs, objects, replica, claimed>>

\* put_item under attribute_not_exists: a row that is there raises.
StoreChunk(w) ==
    LET d == job[w].doc  i == job[w].done IN
    /\ job[w].pc = "work"
    /\ job[w].stage = "storing"
    /\ IF i \in chunks[d]
       THEN /\ job' = [job EXCEPT ![w].pc = "fail"]
            /\ UNCHANGED chunks
       ELSE /\ chunks' = [chunks EXCEPT ![d] = @ \cup {i}]
            /\ job' = [job EXCEPT ![w] = AfterChunk(@)]
    /\ UNCHANGED <<docs, objects, replica, claimed>>

\* The item the final update leaves: error_code is not touched.
ReadyItem(i, total) ==
    [i EXCEPT !.status = "ready", !.count = total, !.stage = "done", !.percent = 100]

\* The final update has no condition: whatever the status is becomes ready.
MarkReady(w) ==
    LET d == job[w].doc IN
    /\ job[w].pc = "work"
    /\ job[w].stage = "done"
    /\ docs' = [docs EXCEPT ![d] = ReadyItem(@, job[w].total)]
    /\ job' = [job EXCEPT ![w].pc = "returned"]
    /\ UNCHANGED <<chunks, objects, replica, claimed>>

\* A read, the source, the parser, the chunker, the model, a put or the final
\* update raises and has changed nothing.
Raise(w) ==
    /\ job[w].pc \in {"check", "work"}
    /\ job' = [job EXCEPT ![w].pc = "fail"]
    /\ UNCHANGED <<docs, chunks, objects, replica, claimed>>

\* The except clause: mark failed, then raise IngestionError.
RecordFailure(w) ==
    LET d == job[w].doc IN
    /\ job[w].pc = "fail"
    /\ docs' = [docs EXCEPT ![d].status = "failed",
                            ![d].error = "ingestion_failed",
                            ![d].stage = "failed"]
    /\ job' = [job EXCEPT ![w].pc = "raised"]
    /\ UNCHANGED <<chunks, objects, replica, claimed>>

\* process_record is over and its caller takes note of how it ended.
Finish(w) ==
    /\ job[w].pc \in {"returned", "raised"}
    /\ job' = [job EXCEPT ![w] = IdleJob]
    /\ UNCHANGED <<docs, chunks, objects, replica, claimed>>

-----------------------------------------------------------------------------
(* Faults: what the code meets but does not handle inside the try block *)

\* The record is refused or a call before the claim fails: nothing changed.
Reject(w) ==
    /\ job[w].pc \in {"load", "claim"}
    /\ job' = [job EXCEPT ![w].pc = "raised"]
    /\ UNCHANGED <<docs, chunks, objects, replica, claimed>>

\* The claim is applied but its answer is lost: the SDK's own retry meets the
\* condition (the record looks like a duplicate), or the call gives up.
ClaimAnswerLost(w) ==
    LET d == job[w].doc IN
    /\ job[w].pc = "claim"
    /\ docs[d].status = "pending"
    /\ docs' = [docs EXCEPT ![d].status = "processing"]
    /\ claimed' = claimed \cup {d}
    /\ \E end \in {"returned", "raised"} : job' = [job EXCEPT ![w].pc = end]
    /\ UNCHANGED <<chunks, objects, replica>>

\* A chunk row is stored but the answer is lost: the retry of put_item meets
\* attribute_not_exists, and the job takes the failure path.
StoreAnswerLost(w) ==
    LET d == job[w].doc IN
    /\ job[w].pc = "work"
    /\ job[w].stage = "storing"
    /\ chunks' = [chunks EXCEPT ![d] = @ \cup {job[w].done}]
    /\ job' = [job EXCEPT ![w].pc = "fail"]
    /\ UNCHANGED <<docs, objects, replica, claimed>>

\* The final update is applied but raises: the handler will overwrite it.
ReadyAnswerLost(w) ==
    LET d == job[w].doc IN
    /\ job[w].pc = "work"
    /\ job[w].stage = "done"
    /\ docs' = [docs EXCEPT ![d] = ReadyItem(@, job[w].total)]
    /\ job' = [job EXCEPT ![w].pc = "fail"]
    /\ UNCHANGED <<chunks, objects, replica, claimed>>

\* The update in the except clause raises: the status stays what it was.
FailureUnrecorded(w) ==
    /\ job[w].pc = "fail"
    /\ job' = [job EXCEPT ![w].pc = "raised"]
    /\ UNCHANGED <<docs, chunks, objects, replica, claimed>>

\* The Lambda is killed (timeout, memory) or the local process stops.
Crash(w) ==
    /\ job[w].pc # "idle"
    /\ job' = [job EXCEPT ![w] = IdleJob]
    /\ UNCHANGED <<docs, chunks, objects, replica, claimed>>

-----------------------------------------------------------------------------
(* The specification *)

TableStep(d) ==
    CreateDocument(d) \/ Upload(d) \/ CancelDocument(d) \/ Replicate(d)

WorkerStep(w) ==
    \/ Load(w) \/ Claim(w) \/ ReportProgress(w) \/ CheckCanceled(w)
    \/ ExtractText(w) \/ ChunkText(w) \/ EmbedChunk(w) \/ StoreChunk(w)
    \/ MarkReady(w) \/ Raise(w) \/ RecordFailure(w) \/ Finish(w)

Fault(w) ==
    \/ Reject(w) \/ ClaimAnswerLost(w) \/ StoreAnswerLost(w)
    \/ ReadyAnswerLost(w) \/ FailureUnrecorded(w) \/ Crash(w)

FaultFreeNext ==
    \/ \E d \in Docs : TableStep(d)
    \/ \E w \in Workers, d \in Docs : Deliver(w, d)
    \/ \E w \in Workers : WorkerStep(w)

Next == FaultFreeNext \/ \E w \in Workers : Fault(w)

Spec == Init /\ [][Next]_vars

FaultFreeSpec == Init /\ [][FaultFreeNext]_vars

-----------------------------------------------------------------------------
(* Safety *)

\* At most one execution works on a document between its claim and its end,
\* whatever is delivered twice and whoever lost an answer (worker.py:111-122).
SingleClaim ==
    \A v, w \in Workers :
        Active(v) /\ Active(w) /\ job[v].doc = job[w].doc => v = w

\* A ready document has all its chunk rows, gap-free, and no others
\* (worker.py:219-273): BUILD_SPEC's "ready only after every chunk is committed".
ReadyIsComplete ==
    \A d \in Docs :
        docs[d].status = "ready" => chunks[d] = 0..(docs[d].count - 1)

\* A cancel that reached a document before any worker claimed it is final: the
\* late S3 event finds it failed, claims nothing and stores nothing.
EarlyCancelIsFinal ==
    [][\A d \in Docs :
        docs[d].status = "failed" /\ d \notin claimed =>
            /\ docs'[d].status = "failed" /\ docs'[d].error = "canceled"
            /\ d \notin claimed' /\ chunks'[d] = {}]_vars

\* A document in a terminal status (useDocuments.ts stops polling there) never
\* goes back to pending or processing.  A recorded failure is final, whoever is
\* late; and a ready document fails only by a cancel, or when the final update of
\* its own execution raised although it was applied: no duplicate's failure and
\* no earlier one comes over it (worker.py:257-291, handler.py:179).
SettledStaysSettled ==
    [][\A d \in Docs :
        /\ docs[d].status \in {"ready", "failed"} => docs'[d].status \in {"ready", "failed"}
        /\ docs[d].status = "failed" /\ docs[d].error = "ingestion_failed" =>
            docs'[d].status = "failed"
        /\ docs[d].status = "ready" /\ docs'[d].status = "failed" =>
            \/ docs'[d].error = "canceled"
            \/ \E w \in Workers :
                /\ job[w].doc = d /\ job[w].pc = "fail" /\ job[w].stage = "done"]_vars

\* The percentage the browser polls never goes down, although progress writes
\* are unconditional and may be lost (worker.py:64-96).
ProgressIsMonotone ==
    [][\A d \in Docs : docs'[d].percent >= docs[d].percent]_vars

\* The cancel of document d can no longer be missed: every read returns it and
\* its worker, if one is still at work, is not past its last check.
CancelSeen(d) ==
    /\ docs[d].status = "failed"
    /\ \A w \in Workers :
        Active(w) /\ job[w].doc = d =>
            \/ job[w].pc = "fail"
            \/ /\ docs[d].error = "canceled"
               /\ replica[d] = View(docs[d])
               /\ job[w].pc = "work" => job[w].stage \notin {"storing", "done"}

\* A cancel that can no longer be missed is final: the document stays failed
\* and gains no chunk row, however far its worker had come (worker.py:124-255).
SeenCancelIsFinal ==
    [][\A d \in Docs : CancelSeen(d) => CancelSeen(d)' /\ chunks'[d] = chunks[d]]_vars

\* A bound on the calls a job still makes: three for each chunk of a stage, and
\* three more for a stage without chunks.
StagesLeft == [reading |-> 5, parsing |-> 4, chunking |-> 3,
               embedding |-> 2, storing |-> 1, done |-> 0]
StageSteps == 3 * MaxChunks + 3

StageStepsLeft(j) ==
    IF j.stage \in Loops
    THEN 3 * (MaxChunks - j.done)
           + (CASE j.pc = "report" -> 2 [] j.pc = "check" -> 1 [] OTHER -> 0)
    ELSE CASE j.pc = "report" -> 2 [] j.pc = "work" -> 1 [] OTHER -> 0

StepsLeft(j) ==
    CASE j.pc = "idle"                   -> 0
      [] j.pc \in {"returned", "raised"} -> 1
      [] j.pc = "fail"                   -> 2
      [] j.pc = "claim"                  -> 3 + 6 * StageSteps
      [] j.pc = "load"                   -> 4 + 6 * StageSteps
      [] OTHER -> 3 + StagesLeft[j.stage] * StageSteps + StageStepsLeft(j)

\* Whatever fails, is lost or is canceled, an execution only moves towards its
\* end: no stage, chunk, report or check is ever done again, so process_record
\* makes a bounded number of calls (worker.py:98-303).
ExecutionAdvances ==
    [][\A w \in Workers :
        job[w].pc # "idle" /\ job'[w] # job[w] =>
            StepsLeft(job'[w]) \in 0..(StepsLeft(job[w]) - 1)]_vars

-----------------------------------------------------------------------------
(* Claims of the repository that the code does not keep *)

\* "(supports cancel + progress)", worker.py:217: what was canceled does not
\* become ready.  The final update does not look (worker.py:257).
CanceledIsNeverReady ==
    \A d \in Docs : ~(docs[d].status = "ready" /\ docs[d].error = "canceled")

\* DynamoChunks.retrieve: the rows a search of the owner's index ranks; its only
\* condition is the owner, and all documents here are of one owner.
Searchable == {row \in Docs \X (0..MaxChunks) : row[2] \in chunks[row[1]]}

\* BUILD_SPEC.md:85: retrieval filters by owner and ready document status.
RetrievedOnlyFromReady ==
    \A row \in Searchable : docs[row[1]].status = "ready"

-----------------------------------------------------------------------------
(* Refinement *)

\* The workers and the API together keep the promise of DocumentLifecycle: a
\* document counts as published once its percentage says 100.
Lifecycle ==
    INSTANCE DocumentLifecycle WITH
        status    <- [d \in Docs |-> docs[d].status],
        stored    <- chunks,
        claimed   <- claimed,
        published <- {d \in Docs : docs[d].percent = 100}

LifecycleSpec == Lifecycle!Spec

=============================================================================
