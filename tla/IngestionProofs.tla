--------------------------- MODULE IngestionProofs ---------------------------
(***************************************************************************)
(* Proofs about Ingestion.tla, for any number of documents, workers and     *)
(* chunks.  The inductive invariant IInv says what a worker that holds the  *)
(* claim of a document may rely on, and what is left of a document that     *)
(* nobody works on.                                                         *)
(***************************************************************************)
EXTENDS Ingestion, TLAPS

-----------------------------------------------------------------------------
(* The inductive invariant *)

\* The chunk rows of a document whose worker has come as far as j.
RowsAt(j) ==
    IF j.stage = "storing" THEN 0..(j.done - 1)
    ELSE IF j.stage = "done" THEN 0..(j.total - 1)
    ELSE {}

\* What a working job j knows of its document's item and rows.  Once it has
\* failed it knows nothing any more: a put or the final update may have been
\* applied all the same.
Holds(j, item, rows) ==
    /\ j.stage \in Loops => j.done <= j.total
    /\ j.stage \in Loops /\ j.pc = "work" => j.done < j.total
    /\ j.pc # "fail" => /\ item.status # "ready"
                        /\ item.percent <= 95
                        /\ item.percent <= Percent(j)
                        /\ rows = RowsAt(j)

JobInv(w) ==
    Active(w) => /\ job[w].doc \in claimed
                 /\ Holds(job[w], docs[job[w].doc], chunks[job[w].doc])

\* A document with no claim has no rows and no progress, and its only end is
\* a cancel; one with a claim never waits for another.
DocOK(item, rows, isClaimed) ==
    /\ item.status = "ready" => rows = 0..(item.count - 1) /\ item.percent = 100
    /\ ~isClaimed => /\ item.status \in {"absent", "pending", "failed"}
                     /\ item.status = "failed" => item.error = "canceled"
                     /\ item.percent = 0
                     /\ rows = {}
    /\ isClaimed => item.status \in {"processing", "ready", "failed"}

DocInv(d) == DocOK(docs[d], chunks[d], d \in claimed)

IInv ==
    /\ TypeOK
    /\ SingleClaim
    /\ \A w \in Workers : JobInv(w)
    /\ \A d \in Docs : DocInv(d)

-----------------------------------------------------------------------------
(* What each kind of step must show to keep IInv *)

\* IInv holds before any document exists.
LEMMA InitInvariant == Init => IInv
<1> SUFFICES ASSUME Init PROVE IInv
    OBVIOUS
<1> USE NoneAssumption, MaxChunksAssumption
<1>1. docs \in [Docs -> Item] /\ replica \in [Docs -> Seen]
    BY DEF Init, AbsentItem, View, Seen, Item, Statuses, Errors, Stages
<1>2. job \in [Workers -> Job] /\ \A w \in Workers : JobOK(job[w]) /\ ~Active(w)
    BY DEF Init, IdleJob, Job, PCs, Stages, JobOK, Active, Working
<1>3. TypeOK
    BY <1>1, <1>2 DEF Init, TypeOK
<1>4. \A d \in Docs : DocInv(d)
    BY DEF Init, AbsentItem, DocInv, DocOK
<1>5. QED
    BY <1>2, <1>3, <1>4 DEF IInv, SingleClaim, JobInv

\* A step that only moves the job of one worker, which does not take a claim.
LEMMA JobStep ==
    ASSUME IInv,
           NEW w \in Workers, NEW j \in Job, JobOK(j),
           job' = [job EXCEPT ![w] = j],
           UNCHANGED <<docs, chunks, objects, replica, claimed>>,
           Working(j) => /\ Working(job[w])
                         /\ j.doc = job[w].doc
                         /\ Holds(j, docs[j.doc], chunks[j.doc])
    PROVE  IInv'
<1>1. \A v \in Workers : job'[v] = IF v = w THEN j ELSE job[v]
    BY DEF IInv, TypeOK
<1>2. TypeOK'
    BY <1>1 DEF IInv, TypeOK
<1>3. SingleClaim'
    BY <1>1 DEF IInv, SingleClaim, Active
<1>4. \A v \in Workers : JobInv(v)'
    BY <1>1 DEF IInv, JobInv, Active
<1>5. \A d \in Docs : DocInv(d)'
    BY DEF IInv, DocInv
<1>6. QED
    BY <1>2, <1>3, <1>4, <1>5 DEF IInv

\* A step of the worker that holds, or now takes, the claim of document d.
LEMMA ClaimedStep ==
    ASSUME IInv,
           NEW w \in Workers, NEW j \in Job, JobOK(j),
           NEW d \in Docs, NEW item \in Item, NEW rows \in SUBSET Nat,
           job[w].doc = d, Working(job[w]) \/ d \notin claimed,
           job' = [job EXCEPT ![w] = j],
           docs' = [docs EXCEPT ![d] = item],
           chunks' = [chunks EXCEPT ![d] = rows],
           claimed' = claimed \cup {d},
           UNCHANGED <<objects, replica>>,
           DocOK(item, rows, TRUE),
           Working(j) => j.doc = d /\ Holds(j, item, rows)
    PROVE  IInv'
<1>1. \A v \in Workers : job'[v] = IF v = w THEN j ELSE job[v]
    BY DEF IInv, TypeOK
<1>2. \A e \in Docs : /\ docs'[e] = IF e = d THEN item ELSE docs[e]
                      /\ chunks'[e] = IF e = d THEN rows ELSE chunks[e]
    BY DEF IInv, TypeOK
<1>3. \A v \in Workers : Active(v) /\ v # w => job[v].doc # d
    BY DEF IInv, SingleClaim, JobInv, Active
<1>4. TypeOK'
    <2>1. docs' \in [Docs -> Item] /\ chunks' \in [Docs -> SUBSET Nat]
        BY DEF IInv, TypeOK
    <2>2. QED
        BY <1>1, <2>1 DEF IInv, TypeOK
<1>5. SingleClaim'
    BY <1>1, <1>3 DEF IInv, SingleClaim, Active
<1>6. \A v \in Workers : JobInv(v)'
    <2> SUFFICES ASSUME NEW v \in Workers, Active(v)'
                 PROVE  /\ job'[v].doc \in claimed'
                        /\ Holds(job'[v], docs'[job'[v].doc], chunks'[job'[v].doc])
        BY DEF JobInv
    <2>1. CASE v = w
        BY <1>1, <1>2, <2>1 DEF Active
    <2>2. CASE v # w
        <3>1. job'[v] = job[v] /\ Active(v)
            BY <1>1, <2>2 DEF Active
        <3>2. job[v].doc \in Docs \ {d}
            BY <1>3, <3>1, <2>2 DEF IInv, TypeOK, JobOK, Active, Working
        <3>3. QED
            BY <1>2, <3>1, <3>2 DEF IInv, JobInv
    <2>3. QED
        BY <2>1, <2>2
<1>7. \A e \in Docs : DocInv(e)'
    BY <1>2 DEF IInv, DocInv, DocOK
<1>8. QED
    BY <1>4, <1>5, <1>6, <1>7 DEF IInv

\* A step of the API that gives document d another item and moves nothing else.
LEMMA TableStepKeeps ==
    ASSUME IInv,
           NEW d \in Docs, NEW item \in Item,
           docs' = [docs EXCEPT ![d] = item],
           UNCHANGED <<chunks, objects, replica, job, claimed>>,
           DocOK(item, chunks[d], d \in claimed),
           item.status # "ready", item.percent = docs[d].percent
    PROVE  IInv'
<1>1. \A e \in Docs : docs'[e] = IF e = d THEN item ELSE docs[e]
    BY DEF IInv, TypeOK
<1>2. TypeOK'
    BY DEF IInv, TypeOK
<1>3. SingleClaim'
    BY DEF IInv, SingleClaim, Active
<1>4. \A v \in Workers : JobInv(v)'
    <2> SUFFICES ASSUME NEW v \in Workers, Active(v)
                 PROVE  /\ job[v].doc \in claimed
                        /\ Holds(job[v], docs'[job[v].doc], chunks[job[v].doc])
        BY DEF JobInv, Active
    <2>1. job[v].doc \in Docs
        BY DEF IInv, TypeOK, JobOK, Active, Working
    <2>2. QED
        BY <1>1, <2>1 DEF IInv, JobInv, Holds
<1>5. \A e \in Docs : DocInv(e)'
    BY <1>1 DEF IInv, DocInv
<1>6. QED
    BY <1>2, <1>3, <1>4, <1>5 DEF IInv

-----------------------------------------------------------------------------
(* The percentage *)

\* The share of a stage's percentage for n chunks out of t.
LEMMA Share ==
    ASSUME NEW n \in Nat, NEW t \in Nat \ {0}, n <= t
    PROVE  (50 * n) \div t \in 0..50 /\ (20 * n) \div t \in 0..20
<1>1. ASSUME NEW k \in Nat PROVE (k * n) \div t \in 0..k
    <2>1. k * n \in Nat /\ k * n <= k * t
        OBVIOUS
    <2>2. QED
        BY <2>1
<1>2. 50 \in Nat /\ 20 \in Nat
    OBVIOUS
<1>3. (50 * n) \div t \in 0..50
    BY <1>1, <1>2, Zenon
<1>4. (20 * n) \div t \in 0..20
    BY <1>1, <1>2, Zenon
<1>5. QED
    BY <1>3, <1>4

\* The range of the percentage in each stage.
LEMMA PercentRange ==
    ASSUME NEW j \in Job, j.stage \in Loops => j.done <= j.total
    PROVE  /\ j.stage = "reading" => Percent(j) = 5
           /\ j.stage = "parsing" => Percent(j) = 10
           /\ j.stage = "chunking" => Percent(j) = 15
           /\ j.stage = "embedding" => Percent(j) \in 20..70
           /\ j.stage = "storing" => Percent(j) \in 75..95
           /\ j.stage = "done" => Percent(j) = 100
<1>1. /\ j.done \in Nat /\ AtLeastOne(j.total) \in Nat \ {0}
      /\ j.stage \in Loops => j.done <= AtLeastOne(j.total)
    BY DEF Job, AtLeastOne
<1>2. j.stage \in Loops => /\ (50 * j.done) \div AtLeastOne(j.total) \in 0..50
                           /\ (20 * j.done) \div AtLeastOne(j.total) \in 0..20
    BY <1>1, Share
<1>3. QED
    BY <1>2 DEF Percent, Loops

\* Within a stage the percentage grows with the chunks done.
LEMMA PercentGrows ==
    ASSUME NEW j \in Job, NEW k \in Job,
           k.stage = j.stage, k.total = j.total, j.done <= k.done
    PROVE  Percent(j) <= Percent(k)
<1>1. /\ j.done \in Nat /\ k.done \in Nat
      /\ AtLeastOne(j.total) \in Nat \ {0}
    BY DEF Job, AtLeastOne
<1>2. ASSUME NEW a \in Nat, NEW b \in Nat, NEW t \in Nat \ {0}, a <= b
      PROVE  a \div t <= b \div t /\ a \div t \in Nat /\ b \div t \in Nat
    BY <1>2
<1>3. /\ (50 * j.done) \div AtLeastOne(j.total) <= (50 * k.done) \div AtLeastOne(j.total)
      /\ (50 * j.done) \div AtLeastOne(j.total) \in Nat
      /\ (50 * k.done) \div AtLeastOne(j.total) \in Nat
    BY <1>1, <1>2
<1>4. /\ (20 * j.done) \div AtLeastOne(j.total) <= (20 * k.done) \div AtLeastOne(j.total)
      /\ (20 * j.done) \div AtLeastOne(j.total) \in Nat
      /\ (20 * k.done) \div AtLeastOne(j.total) \in Nat
    BY <1>1, <1>2
<1>5. QED
    BY <1>3, <1>4 DEF Percent

-----------------------------------------------------------------------------
(* Every action keeps IInv: the API and the table *)

\* What IInv says of a job that is not idle.
LEMMA BusyJob ==
    ASSUME IInv, NEW w \in Workers, job[w].pc # "idle"
    PROVE  /\ job[w] \in Job /\ JobOK(job[w])
           /\ job[w].doc \in Docs
           /\ docs[job[w].doc] \in Item
           /\ chunks[job[w].doc] \in SUBSET Nat
           /\ DocOK(docs[job[w].doc], chunks[job[w].doc], job[w].doc \in claimed)
           /\ Working(job[w]) => /\ job[w].doc \in claimed
                                 /\ Holds(job[w], docs[job[w].doc], chunks[job[w].doc])
    BY DEF IInv, TypeOK, JobOK, JobInv, DocInv, Active

\* POST /documents/upload-url: a new item, unclaimed and without rows.
LEMMA CreateDocumentKeeps ==
    ASSUME IInv, NEW d \in Docs, CreateDocument(d) PROVE IInv'
<1> DEFINE item == [docs[d] EXCEPT !.status = "pending"]
<1>1. docs[d] \in Item /\ docs[d].status = "absent"
      /\ DocOK(docs[d], chunks[d], d \in claimed)
    BY DEF CreateDocument, PutDocument, IInv, TypeOK, DocInv
<1>2. item \in Item /\ item.status = "pending" /\ item.percent = docs[d].percent
    BY <1>1 DEF Item, Statuses
<1>3. DocOK(item, chunks[d], d \in claimed)
    BY <1>1, <1>2 DEF DocOK
<1>4. docs' = [docs EXCEPT ![d] = item]
    BY DEF CreateDocument, PutDocument
<1>5. QED
    BY <1>2, <1>3, <1>4, TableStepKeeps DEF CreateDocument, PutDocument

\* POST /documents/{id}/cancel: any existing item becomes failed.
LEMMA CancelDocumentKeeps ==
    ASSUME IInv, NEW d \in Docs, CancelDocument(d) PROVE IInv'
<1> DEFINE item == [docs[d] EXCEPT !.status = "failed", !.error = "canceled"]
<1>1. docs[d] \in Item /\ DocOK(docs[d], chunks[d], d \in claimed)
    BY DEF IInv, TypeOK, DocInv
<1>2. /\ item \in Item /\ item.status = "failed" /\ item.error = "canceled"
      /\ item.percent = docs[d].percent
    BY <1>1 DEF Item, Statuses, Errors
<1>3. DocOK(item, chunks[d], d \in claimed)
    BY <1>1, <1>2 DEF DocOK
<1>4. docs' = [docs EXCEPT ![d] = item]
    BY DEF CancelDocument, MarkDocumentFailed
<1>5. QED
    BY <1>2, <1>3, <1>4, TableStepKeeps DEF CancelDocument, MarkDocumentFailed

\* Uploads and replication touch nothing IInv speaks of but their types.
LEMMA OutsideKeeps ==
    ASSUME IInv, NEW d \in Docs, Upload(d) \/ Replicate(d) PROVE IInv'
<1>1. UNCHANGED <<docs, chunks, job, claimed>>
    BY DEF Upload, Replicate
<1>2. objects' \subseteq Docs /\ replica' \in [Docs -> Seen]
    BY DEF IInv, TypeOK, Upload, Replicate, View, Seen, Item
<1>3. TypeOK'
    BY <1>1, <1>2 DEF IInv, TypeOK
<1>4. SingleClaim' /\ (\A w \in Workers : JobInv(w)') /\ (\A d2 \in Docs : DocInv(d2)')
    BY <1>1 DEF IInv, SingleClaim, JobInv, DocInv, Active
<1>5. QED
    BY <1>3, <1>4 DEF IInv

-----------------------------------------------------------------------------
(* Every action keeps IInv: steps that only move a job *)

\* A delivery only starts a job that has no claim.
LEMMA DeliverKeeps ==
    ASSUME IInv, NEW w \in Workers, NEW d \in Docs, Deliver(w, d) PROVE IInv'
<1>1. StartJob(d) \in Job /\ JobOK(StartJob(d)) /\ ~Working(StartJob(d))
    BY MaxChunksAssumption DEF StartJob, Job, JobOK, Working, PCs, Stages
<1>2. QED
    BY <1>1, JobStep DEF Deliver

\* The steps that end a job, or are still before its claim.
LEMMA IdleStepKeeps ==
    ASSUME IInv, NEW w \in Workers,
           Load(w) \/ Finish(w) \/ Reject(w) \/ FailureUnrecorded(w) \/ Crash(w)
    PROVE  IInv'
<1>1. job[w].pc # "idle" /\ UNCHANGED <<docs, chunks, objects, replica, claimed>>
    BY DEF Load, Finish, Reject, FailureUnrecorded, Crash
<1>2. PICK j : /\ job' = [job EXCEPT ![w] = j]
               /\ \/ j = IdleJob
                  \/ \E pc \in {"returned", "raised", "claim"} : j = [job[w] EXCEPT !.pc = pc]
    <2>1. CASE Load(w)
        BY <2>1 DEF Load
    <2>2. CASE Finish(w) \/ Crash(w)
        BY <2>2 DEF Finish, Crash
    <2>3. CASE Reject(w) \/ FailureUnrecorded(w)
        BY <2>3 DEF Reject, FailureUnrecorded
    <2>4. QED
        BY <2>1, <2>2, <2>3
<1>3. j \in Job /\ JobOK(j) /\ ~Working(j)
    <2>1. CASE j = IdleJob
        BY <2>1, NoneAssumption, MaxChunksAssumption
        DEF IdleJob, Job, JobOK, Working, PCs, Stages
    <2>2. CASE \E pc \in {"returned", "raised", "claim"} : j = [job[w] EXCEPT !.pc = pc]
        BY <1>1, <2>2, BusyJob DEF Job, JobOK, Working, PCs
    <2>3. QED
        BY <1>2, <2>1, <2>2
<1>4. QED
    BY <1>1, <1>2, <1>3, JobStep

\* A failure before the handler has run changes no table.
LEMMA RaiseKeeps ==
    ASSUME IInv, NEW w \in Workers, Raise(w) PROVE IInv'
<1> DEFINE j == [job[w] EXCEPT !.pc = "fail"]
<1>1. job[w].pc \in {"check", "work"}
    BY DEF Raise
<1>2. /\ j \in Job /\ JobOK(j) /\ Working(job[w])
      /\ j.doc = job[w].doc /\ Holds(j, docs[j.doc], chunks[j.doc])
    BY <1>1, BusyJob DEF Job, JobOK, PCs, Working, Holds
<1>3. job' = [job EXCEPT ![w] = j]
    BY DEF Raise
<1>4. QED
    BY <1>2, <1>3, JobStep DEF Raise

\* Reading and parsing lead to the cancel check of the same stage.
LEMMA ExtractTextKeeps ==
    ASSUME IInv, NEW w \in Workers, ExtractText(w) PROVE IInv'
<1> DEFINE j == [job[w] EXCEPT !.pc = "check"]
<1>1. job[w].pc = "work" /\ job[w].stage \in {"reading", "parsing"}
    BY DEF ExtractText
<1>2. /\ j \in Job /\ JobOK(j) /\ Working(job[w])
      /\ j.doc = job[w].doc /\ j.stage = job[w].stage
      /\ j.done = job[w].done /\ j.total = job[w].total
    BY <1>1, BusyJob DEF Job, JobOK, PCs, Working
<1>3. Holds(j, docs[j.doc], chunks[j.doc])
    BY <1>1, <1>2, BusyJob DEF Holds, RowsAt, Percent, Loops
<1>4. job' = [job EXCEPT ![w] = j]
    BY DEF ExtractText
<1>5. QED
    BY <1>2, <1>3, <1>4, JobStep DEF ExtractText

\* chunk_text fixes the job's total within its bound.
LEMMA ChunkTextKeeps ==
    ASSUME IInv, NEW w \in Workers, ChunkText(w) PROVE IInv'
<1>1. job[w].pc = "work" /\ job[w].stage = "chunking"
    BY DEF ChunkText
<1>2. PICK n \in 0..MaxChunks :
        job' = [job EXCEPT ![w].pc = "check", ![w].total = n]
    BY DEF ChunkText
<1>3. n \in Nat
    BY MaxChunksAssumption
<1> DEFINE j == [job[w] EXCEPT !.pc = "check", !.total = n]
<1>4. /\ j \in Job /\ j.doc = job[w].doc
      /\ j.stage = "chunking" /\ j.pc = "check" /\ j.total = n
    BY <1>1, <1>3, BusyJob DEF Job, PCs
<1> HIDE DEF j
<1>5. JobOK(j) /\ Working(job[w])
    BY <1>1, <1>4, BusyJob DEF JobOK, Working, JobStages
<1>6. Holds(j, docs[j.doc], chunks[j.doc])
    BY <1>1, <1>4, BusyJob DEF Holds, RowsAt, Percent, Loops, Working
<1>7. job' = [job EXCEPT ![w] = j]
    BY <1>2 DEF IInv, TypeOK, j
<1>8. QED
    BY <1>4, <1>5, <1>6, <1>7, JobStep DEF ChunkText

\* The job after the work on a chunk, wherever it goes next.
LEMMA AfterChunkTyped ==
    ASSUME NEW j \in Job, JobOK(j), j.pc = "work", j.stage \in Loops, j.done < j.total
    PROVE  LET k == AfterChunk(j) IN
           /\ k \in Job /\ JobOK(k) /\ Working(k)
           /\ k.pc \in {"report", "check"}
           /\ k.doc = j.doc /\ k.stage = j.stage /\ k.total = j.total
           /\ k.done = j.done + 1 /\ k.done <= k.total
<1> DEFINE k == AfterChunk(j)
<1>1. j.done \in Nat /\ j.total \in Nat /\ j.done + 1 \in Nat
    BY DEF Job
<1>2. PICK pc \in {"report", "check"} : k = [j EXCEPT !.done = j.done + 1, !.pc = pc]
    BY DEF AfterChunk
<1>3. /\ k \in Job /\ k.pc = pc
      /\ k.doc = j.doc /\ k.stage = j.stage /\ k.total = j.total
      /\ k.done = j.done + 1
    BY <1>1, <1>2 DEF Job, PCs
<1> HIDE DEF k
<1>4. JobOK(k) /\ Working(k) /\ k.done <= k.total
    BY <1>1, <1>2, <1>3 DEF JobOK, Working, JobStages, Loops
<1>5. QED
    BY <1>2, <1>3, <1>4 DEF k

\* Embedding one chunk advances the job and stores nothing.
LEMMA EmbedChunkKeeps ==
    ASSUME IInv, NEW w \in Workers, EmbedChunk(w) PROVE IInv'
<1> DEFINE j == AfterChunk(job[w])
<1>1. job[w].pc = "work" /\ job[w].stage = "embedding" /\ job[w].stage \in Loops
    BY DEF EmbedChunk, Loops
<1>2. /\ job[w] \in Job /\ JobOK(job[w]) /\ Working(job[w])
      /\ Holds(job[w], docs[job[w].doc], chunks[job[w].doc])
      /\ job[w].done < job[w].total /\ docs[job[w].doc].percent \in Nat
    BY <1>1, BusyJob DEF Working, Holds, Item
<1>3. /\ j \in Job /\ JobOK(j) /\ j.doc = job[w].doc
      /\ j.stage = "embedding" /\ j.pc # "work"
      /\ j.total = job[w].total /\ j.done = job[w].done + 1 /\ j.done <= j.total
    BY <1>1, <1>2, AfterChunkTyped
<1>4. Percent(job[w]) <= Percent(j) /\ Percent(j) \in Nat /\ Percent(job[w]) \in Nat
    BY <1>1, <1>2, <1>3, PercentGrows, PercentRange DEF Job
<1>5. Holds(j, docs[j.doc], chunks[j.doc])
    BY <1>1, <1>2, <1>3, <1>4 DEF Holds, RowsAt
<1>6. job' = [job EXCEPT ![w] = j]
    BY DEF EmbedChunk
<1>7. QED
    BY <1>2, <1>3, <1>5, <1>6, JobStep DEF EmbedChunk

\* Resume goes to the loop's next chunk, to the final update or to the report
\* that opens the next stage.
LEMMA ResumeTyped ==
    ASSUME NEW j \in Job, JobOK(j), j.pc = "check"
    PROVE  LET k == Resume(j) IN
           /\ k \in Job /\ JobOK(k) /\ k.doc = j.doc /\ k.total = j.total
           /\ \/ /\ k.pc = "work" /\ k.stage = j.stage /\ k.done = j.done
                 /\ j.stage \in Loops /\ j.done < j.total
              \/ /\ k.pc = IF k.stage = "done" THEN "work" ELSE "report"
                 /\ k.done = 0
                 /\ j.stage # "done" /\ k.stage = NextStage[j.stage]
                 /\ j.stage \in Loops => ~(j.done < j.total)
<1> DEFINE k == Resume(j)
<1>1. j.stage \in JobStages \ {"done"}
    BY DEF JobOK, Working
<1>2. PICK s \in JobStages : s = NextStage[j.stage]
    BY <1>1 DEF NextStage, JobStages
<1>3. CASE j.stage \in Loops /\ j.done < j.total
    <2>1. k = [j EXCEPT !.pc = "work"]
        BY <1>3 DEF Resume
    <2>2. /\ k \in Job /\ k.pc = "work" /\ k.doc = j.doc /\ k.stage = j.stage
          /\ k.total = j.total /\ k.done = j.done
        BY <2>1 DEF Job, PCs
    <2>3. JobOK(k)
        BY <1>1, <2>2 DEF JobOK, Working
    <2>4. QED
        BY <1>3, <2>2, <2>3
<1>4. CASE ~(j.stage \in Loops /\ j.done < j.total)
    <2>1. PICK pc \in {"work", "report"} :
            /\ pc = IF s = "done" THEN "work" ELSE "report"
            /\ k = [j EXCEPT !.stage = s, !.done = 0, !.pc = pc]
        BY <1>2, <1>4 DEF Resume, EnterStage
    <2>2. s \in Stages /\ pc \in PCs /\ 0 \in Nat
        BY DEF PCs, Stages
    <2>3. k \in Job /\ k.pc = pc /\ k.doc = j.doc /\ k.stage = s
        BY <2>1, <2>2 DEF Job
    <2>4. k.total = j.total /\ k.done = 0
        BY <2>1 DEF Job
    <2>5. JobOK(k)
        BY <2>1, <2>3, <2>4 DEF JobOK, Working
    <2>6. QED
        BY <1>1, <1>2, <1>4, <2>1, <2>3, <2>4, <2>5
<1>5. QED
    BY <1>3, <1>4

\* Going on keeps what the job knows of its document.
LEMMA ResumeHolds ==
    ASSUME NEW j \in Job, JobOK(j), j.pc = "check",
           NEW item \in Item, NEW rows, Holds(j, item, rows)
    PROVE  Holds(Resume(j), item, rows)
<1> DEFINE k == Resume(j)
<1> SUFFICES Holds(k, item, rows)
    OBVIOUS
<1>1. /\ k \in Job /\ JobOK(k) /\ k.doc = j.doc /\ k.total = j.total
      /\ \/ /\ k.pc = "work" /\ k.stage = j.stage /\ k.done = j.done
            /\ j.stage \in Loops /\ j.done < j.total
         \/ /\ k.pc = IF k.stage = "done" THEN "work" ELSE "report"
            /\ k.done = 0
            /\ j.stage # "done" /\ k.stage = NextStage[j.stage]
            /\ j.stage \in Loops => ~(j.done < j.total)
    BY ResumeTyped
<1> HIDE DEF k
<1>2. /\ j.done \in Nat /\ j.total \in Nat /\ k.done \in Nat /\ k.total \in Nat
      /\ j.stage \in JobStages /\ item.percent \in Nat
      /\ item.status # "ready" /\ item.percent <= 95
      /\ item.percent <= Percent(j) /\ rows = RowsAt(j)
    BY <1>1 DEF Job, Item, JobOK, Working, Holds
<1>3. CASE /\ k.pc = "work" /\ k.stage = j.stage /\ k.done = j.done
           /\ j.stage \in Loops /\ j.done < j.total
    <2>1. Percent(k) = Percent(j)
        BY <1>1, <1>3 DEF Percent
    <2>2. RowsAt(k) = RowsAt(j)
        BY <1>1, <1>3 DEF RowsAt
    <2>3. k.done < k.total /\ k.done <= k.total
        BY <1>1, <1>2, <1>3
    <2>4. QED
        BY <1>2, <2>1, <2>2, <2>3 DEF Holds
<1>4. CASE /\ k.pc = IF k.stage = "done" THEN "work" ELSE "report"
           /\ k.done = 0
           /\ j.stage # "done" /\ k.stage = NextStage[j.stage]
           /\ j.stage \in Loops => ~(j.done < j.total)
    <2>1. /\ j.stage \in Loops => j.done = j.total
          /\ k.stage \in Loops => k.done <= k.total
        BY <1>2, <1>4 DEF Holds
    <2>2. \/ j.stage = "reading" /\ k.stage = "parsing"
          \/ j.stage = "parsing" /\ k.stage = "chunking"
          \/ j.stage = "chunking" /\ k.stage = "embedding"
          \/ j.stage = "embedding" /\ k.stage = "storing"
          \/ j.stage = "storing" /\ k.stage = "done"
        BY <1>2, <1>4 DEF NextStage, JobStages
    <2>3. /\ j.stage = "reading" => Percent(j) = 5
          /\ j.stage = "parsing" => Percent(j) = 10
          /\ j.stage = "chunking" => Percent(j) = 15
          /\ j.stage = "embedding" => Percent(j) \in 20..70
          /\ j.stage = "storing" => Percent(j) \in 75..95
        BY <1>2, <2>1, PercentRange
    <2>4. /\ k.stage = "parsing" => Percent(k) = 10
          /\ k.stage = "chunking" => Percent(k) = 15
          /\ k.stage = "embedding" => Percent(k) \in 20..70
          /\ k.stage = "storing" => Percent(k) \in 75..95
          /\ k.stage = "done" => Percent(k) = 100
        BY <1>1, <2>1, PercentRange
    <2>5. item.percent <= Percent(k)
        BY <1>2, <2>2, <2>3, <2>4
    <2>6. RowsAt(k) = RowsAt(j)
        BY <1>1, <1>2, <1>4, <2>1, <2>2 DEF RowsAt, Loops
    <2>7. k.pc = "work" => k.stage \notin Loops
        BY <1>4, <2>2 DEF Loops
    <2>8. QED
        BY <1>2, <2>1, <2>5, <2>6, <2>7 DEF Holds
<1>5. QED
    BY <1>1, <1>3, <1>4

\* A cancel check ends the job or resumes it.
LEMMA CheckCanceledKeeps ==
    ASSUME IInv, NEW w \in Workers, CheckCanceled(w) PROVE IInv'
<1>1. job[w].pc = "check"
    BY DEF CheckCanceled
<1>2. /\ job[w] \in Job /\ JobOK(job[w]) /\ Working(job[w])
      /\ docs[job[w].doc] \in Item
      /\ Holds(job[w], docs[job[w].doc], chunks[job[w].doc])
    BY <1>1, BusyJob DEF Working
<1>3. CASE job' = [job EXCEPT ![w] = Resume(job[w])]
    <2>1. /\ Resume(job[w]) \in Job /\ JobOK(Resume(job[w]))
          /\ Resume(job[w]).doc = job[w].doc
        BY <1>1, <1>2, ResumeTyped
    <2>2. Holds(Resume(job[w]), docs[job[w].doc], chunks[job[w].doc])
        BY <1>1, <1>2, ResumeHolds
    <2>3. QED
        BY <1>2, <1>3, <2>1, <2>2, JobStep DEF CheckCanceled
<1>4. CASE job' = [job EXCEPT ![w] = [job[w] EXCEPT !.pc = "returned"]]
    <2> DEFINE j == [job[w] EXCEPT !.pc = "returned"]
    <2>1. j \in Job /\ JobOK(j) /\ ~Working(j)
        BY <1>2, <1>1 DEF Job, PCs, JobOK, Working
    <2>2. QED
        BY <1>4, <2>1, JobStep DEF CheckCanceled
<1>5. QED
    BY <1>3, <1>4 DEF CheckCanceled

-----------------------------------------------------------------------------
(* Every action keeps IInv: steps of the worker that has the claim *)

\* A claim that is won, whether or not its answer arrives.
LEMMA WonClaimKeeps ==
    ASSUME IInv, NEW w \in Workers, NEW j \in Job, JobOK(j),
           job[w].pc = "claim", docs[job[w].doc].status = "pending",
           docs' = [docs EXCEPT ![job[w].doc].status = "processing"],
           claimed' = claimed \cup {job[w].doc},
           job' = [job EXCEPT ![w] = j],
           UNCHANGED <<chunks, objects, replica>>,
           Working(j) => /\ j.doc = job[w].doc
                         /\ j.pc = "report" /\ j.stage = "reading"
    PROVE  IInv'
<1> DEFINE d == job[w].doc
           item == [docs[d] EXCEPT !.status = "processing"]
<1>1. /\ d \in Docs /\ docs[d] \in Item /\ chunks[d] \in SUBSET Nat
      /\ DocOK(docs[d], chunks[d], d \in claimed)
    BY BusyJob
<1>2. d \notin claimed /\ docs[d].percent = 0 /\ chunks[d] = {}
    BY <1>1 DEF DocOK
<1>3. item \in Item /\ item.status = "processing" /\ item.percent = 0
    BY <1>1, <1>2 DEF Item, Statuses
<1>4. docs' = [docs EXCEPT ![d] = item]
    OBVIOUS
<1>5. chunks' = [chunks EXCEPT ![d] = chunks[d]]
    BY DEF IInv, TypeOK
<1> HIDE DEF item
<1>6. DocOK(item, chunks[d], TRUE)
    BY <1>3 DEF DocOK
<1>7. Working(j) => Holds(j, item, chunks[d])
    BY <1>2, <1>3 DEF Holds, RowsAt, Percent, Loops
<1>8. QED
    BY <1>1, <1>2, <1>3, <1>4, <1>5, <1>6, <1>7, ClaimedStep

\* The claim, won or refused.
LEMMA ClaimKeeps ==
    ASSUME IInv, NEW w \in Workers, Claim(w) \/ ClaimAnswerLost(w) PROVE IInv'
<1>1. job[w].pc = "claim"
    BY DEF Claim, ClaimAnswerLost
<1>2. job[w] \in Job /\ JobOK(job[w]) /\ job[w].doc \in Docs
    BY <1>1, BusyJob
<1>3. CASE /\ Claim(w) /\ docs[job[w].doc].status = "pending"
    <2> DEFINE j == [job[w] EXCEPT !.pc = "report", !.stage = "reading"]
    <2>1. /\ j \in Job /\ JobOK(j)
          /\ j.doc = job[w].doc /\ j.pc = "report" /\ j.stage = "reading"
        BY <1>1, <1>2 DEF Job, JobOK, PCs, Stages, JobStages, Working
    <2>2. job' = [job EXCEPT ![w] = j]
        BY <1>3 DEF Claim, IInv, TypeOK
    <2>3. QED
        BY <1>1, <1>3, <2>1, <2>2, WonClaimKeeps DEF Claim
<1>4. CASE Claim(w) /\ docs[job[w].doc].status # "pending"
    <2> DEFINE j == [job[w] EXCEPT !.pc = "returned"]
    <2>1. j \in Job /\ JobOK(j) /\ ~Working(j)
        BY <1>1, <1>2 DEF Job, JobOK, PCs, Working
    <2>2. job' = [job EXCEPT ![w] = j]
        BY <1>4 DEF Claim
    <2>3. QED
        BY <1>4, <2>1, <2>2, JobStep DEF Claim
<1>5. CASE ClaimAnswerLost(w)
    <2>1. PICK end \in {"returned", "raised"} : job' = [job EXCEPT ![w].pc = end]
        BY <1>5 DEF ClaimAnswerLost
    <2> DEFINE j == [job[w] EXCEPT !.pc = end]
    <2>2. j \in Job /\ JobOK(j) /\ ~Working(j)
        BY <1>1, <1>2 DEF Job, JobOK, PCs, Working
    <2>3. job' = [job EXCEPT ![w] = j]
        BY <2>1
    <2>4. QED
        BY <1>1, <1>5, <2>2, <2>3, WonClaimKeeps DEF ClaimAnswerLost
<1>6. QED
    BY <1>3, <1>4, <1>5

\* A progress update that is applied, or leaves no trace.
LEMMA ReportProgressKeeps ==
    ASSUME IInv, NEW w \in Workers, ReportProgress(w) PROVE IInv'
<1> DEFINE d == job[w].doc
           pc == IF job[w].stage \in Loops THEN "check" ELSE "work"
           j == [job[w] EXCEPT !.pc = pc]
           item == [docs[d] EXCEPT !.stage = job[w].stage, !.percent = Percent(job[w])]
<1>1. job[w].pc = "report"
    BY DEF ReportProgress
<1>2. /\ job[w] \in Job /\ JobOK(job[w]) /\ Working(job[w])
      /\ d \in Docs /\ d \in claimed /\ docs[d] \in Item /\ chunks[d] \in SUBSET Nat
      /\ DocOK(docs[d], chunks[d], TRUE)
      /\ Holds(job[w], docs[d], chunks[d])
    BY <1>1, BusyJob DEF Working, DocOK
<1>3. /\ j \in Job /\ j.pc = pc /\ j.doc = d /\ j.stage = job[w].stage
      /\ j.done = job[w].done /\ j.total = job[w].total
    BY <1>1, <1>2 DEF Job, PCs
<1>4. JobOK(j) /\ Working(j)
    BY <1>1, <1>2, <1>3 DEF JobOK, Working
<1>5. Percent(j) = Percent(job[w]) /\ RowsAt(j) = RowsAt(job[w])
    BY <1>3 DEF Percent, RowsAt
<1>6. job' = [job EXCEPT ![w] = j]
    BY DEF ReportProgress
<1>7. CASE UNCHANGED docs
    <2>1. Holds(j, docs[j.doc], chunks[j.doc])
        BY <1>1, <1>2, <1>3, <1>5 DEF Holds
    <2>2. QED
        BY <1>2, <1>3, <1>4, <1>6, <1>7, <2>1, JobStep DEF ReportProgress
<1>8. CASE docs' = [docs EXCEPT ![d].stage = job[w].stage, ![d].percent = Percent(job[w])]
    <2>1. Percent(job[w]) \in Nat /\ Percent(job[w]) <= 95
        BY <1>1, <1>2, PercentRange DEF Holds, JobOK, Working, JobStages
    <2>2. job[w].stage \in Stages
        BY <1>2 DEF Job
    <2>3. /\ item \in Item /\ item.percent = Percent(job[w])
          /\ item.status = docs[d].status /\ item.count = docs[d].count
        BY <1>2, <2>1, <2>2 DEF Item
    <2>4. docs' = [docs EXCEPT ![d] = item]
        BY <1>2, <1>8 DEF IInv, TypeOK
    <2>5. chunks' = [chunks EXCEPT ![d] = chunks[d]] /\ claimed' = claimed \cup {d}
        BY <1>2 DEF ReportProgress, IInv, TypeOK
    <2> HIDE DEF item, j
    <2>6. DocOK(item, chunks[d], TRUE)
        BY <1>1, <1>2, <2>3 DEF DocOK, Holds
    <2>7. Holds(j, item, chunks[d])
        BY <1>1, <1>2, <1>3, <1>5, <2>1, <2>3 DEF Holds
    <2>8. QED
        BY <1>2, <1>3, <1>4, <1>6, <2>3, <2>4, <2>5, <2>6, <2>7, ClaimedStep
        DEF ReportProgress
<1>9. QED
    BY <1>7, <1>8 DEF ReportProgress

\* At the put of a chunk row, exactly the rows before it are there.
LEMMA RowsBeforeStore ==
    ASSUME IInv, NEW w \in Workers, job[w].pc = "work", job[w].stage = "storing"
    PROVE  LET d == job[w].doc  i == job[w].done IN
           /\ job[w] \in Job /\ JobOK(job[w]) /\ Working(job[w])
           /\ d \in Docs /\ d \in claimed /\ docs[d] \in Item
           /\ Holds(job[w], docs[d], chunks[d]) /\ docs[d].status # "ready"
           /\ i \in Nat /\ i < job[w].total
           /\ chunks[d] = 0..(i - 1) /\ chunks[d] \cup {i} = 0..i
           /\ i \notin chunks[d]
<1> DEFINE d == job[w].doc
           i == job[w].done
<1>1. /\ job[w] \in Job /\ JobOK(job[w]) /\ Working(job[w])
      /\ d \in Docs /\ d \in claimed /\ docs[d] \in Item
      /\ Holds(job[w], docs[d], chunks[d])
    BY BusyJob DEF Working
<1>2. i \in Nat /\ i < job[w].total /\ docs[d].status # "ready" /\ chunks[d] = 0..(i - 1)
    BY <1>1 DEF Holds, RowsAt, Job, Loops
<1>3. chunks[d] \cup {i} = 0..i /\ i \notin chunks[d]
    BY <1>2
<1>4. QED
    BY <1>1, <1>2, <1>3

\* The put of a chunk row: the row was missing, so it is appended.
LEMMA StoreChunkKeeps ==
    ASSUME IInv, NEW w \in Workers, StoreChunk(w) PROVE IInv'
<1> DEFINE d == job[w].doc
           i == job[w].done
           j == AfterChunk(job[w])
<1>1. job[w].pc = "work" /\ job[w].stage = "storing" /\ job[w].stage \in Loops
    BY DEF StoreChunk, Loops
<1>2. /\ job[w] \in Job /\ JobOK(job[w]) /\ Working(job[w])
      /\ d \in Docs /\ d \in claimed /\ docs[d] \in Item
      /\ Holds(job[w], docs[d], chunks[d]) /\ docs[d].status # "ready"
      /\ i \in Nat /\ i < job[w].total
      /\ chunks[d] \cup {i} = 0..i /\ i \notin chunks[d]
    BY <1>1, RowsBeforeStore
<1>3. /\ chunks' = [chunks EXCEPT ![d] = 0..i]
      /\ job' = [job EXCEPT ![w] = j]
    BY <1>2 DEF StoreChunk
<1>4. /\ j \in Job /\ JobOK(j) /\ j.doc = d
      /\ j.stage = "storing" /\ j.pc # "work"
      /\ j.total = job[w].total /\ j.done = i + 1 /\ j.done <= j.total
    BY <1>1, <1>2, AfterChunkTyped
<1>5. /\ Percent(job[w]) <= Percent(j)
      /\ Percent(j) \in Nat /\ Percent(job[w]) \in Nat /\ docs[d].percent \in Nat
    <2>1. job[w].stage \in Loops => job[w].done <= job[w].total
        BY <1>2 DEF Holds
    <2>2. QED
        BY <1>1, <1>2, <1>4, <2>1, PercentGrows, PercentRange DEF Item
<1> HIDE DEF j
<1>6. Holds(j, docs[d], 0..i)
    <2>1. RowsAt(j) = 0..i
        BY <1>2, <1>4 DEF RowsAt
    <2>2. docs[d].percent <= 95 /\ docs[d].percent <= Percent(job[w])
        BY <1>1, <1>2 DEF Holds
    <2>3. docs[d].percent <= Percent(j)
        BY <1>5, <2>2
    <2>4. QED
        BY <1>2, <1>4, <2>1, <2>2, <2>3 DEF Holds
<1>7. DocOK(docs[d], 0..i, TRUE)
    BY <1>1, <1>2, BusyJob DEF DocOK
<1>8. docs' = [docs EXCEPT ![d] = docs[d]] /\ claimed' = claimed \cup {d}
    BY <1>2 DEF StoreChunk, IInv, TypeOK
<1>9. 0..i \in SUBSET Nat
    BY <1>2
<1>10. QED
    BY <1>2, <1>3, <1>4, <1>6, <1>7, <1>8, <1>9, ClaimedStep DEF StoreChunk

\* The put of a chunk row whose answer is lost.
LEMMA StoreAnswerLostKeeps ==
    ASSUME IInv, NEW w \in Workers, StoreAnswerLost(w) PROVE IInv'
<1> DEFINE d == job[w].doc
           i == job[w].done
           j == [job[w] EXCEPT !.pc = "fail"]
<1>1. job[w].pc = "work" /\ job[w].stage = "storing"
    BY DEF StoreAnswerLost
<1>2. /\ job[w] \in Job /\ JobOK(job[w]) /\ Working(job[w])
      /\ d \in Docs /\ d \in claimed /\ docs[d] \in Item
      /\ Holds(job[w], docs[d], chunks[d]) /\ docs[d].status # "ready"
      /\ i \in Nat /\ chunks[d] \cup {i} = 0..i
    BY <1>1, RowsBeforeStore
<1>3. chunks' = [chunks EXCEPT ![d] = 0..i] /\ job' = [job EXCEPT ![w] = j]
    BY <1>2 DEF StoreAnswerLost
<1>4. /\ j \in Job /\ JobOK(j) /\ j.doc = d /\ j.pc = "fail"
      /\ j.stage = job[w].stage /\ j.done = job[w].done /\ j.total = job[w].total
    BY <1>1, <1>2 DEF Job, JobOK, PCs, Working
<1>5. Holds(j, docs[d], 0..i)
    BY <1>2, <1>4 DEF Holds
<1>6. DocOK(docs[d], 0..i, TRUE)
    BY <1>1, <1>2, BusyJob DEF DocOK
<1>7. docs' = [docs EXCEPT ![d] = docs[d]] /\ claimed' = claimed \cup {d}
    BY <1>2 DEF StoreAnswerLost, IInv, TypeOK
<1>8. 0..i \in SUBSET Nat
    BY <1>2
<1>9. QED
    BY <1>2, <1>3, <1>4, <1>5, <1>6, <1>7, <1>8, ClaimedStep DEF StoreAnswerLost

\* The final update, whether or not its answer arrives.
LEMMA MarkReadyKeeps ==
    ASSUME IInv, NEW w \in Workers, MarkReady(w) \/ ReadyAnswerLost(w) PROVE IInv'
<1> DEFINE d == job[w].doc
           item == ReadyItem(docs[d], job[w].total)
<1>1. job[w].pc = "work" /\ job[w].stage = "done"
    BY DEF MarkReady, ReadyAnswerLost
<1>2. /\ job[w] \in Job /\ JobOK(job[w]) /\ Working(job[w])
      /\ d \in Docs /\ d \in claimed /\ docs[d] \in Item /\ chunks[d] \in SUBSET Nat
      /\ job[w].total \in Nat /\ chunks[d] = 0..(job[w].total - 1)
    BY <1>1, BusyJob DEF Working, Holds, RowsAt, Job
<1>3. /\ item \in Item /\ item.status = "ready"
      /\ item.count = job[w].total /\ item.percent = 100
    <2>1. 100 \in Nat /\ "ready" \in Statuses /\ "done" \in Stages
        BY DEF Statuses, Stages, JobStages
    <2>2. QED
        BY <1>2, <2>1 DEF ReadyItem, Item
<1>4. PICK pc \in {"returned", "fail"} : job' = [job EXCEPT ![w].pc = pc]
    BY DEF MarkReady, ReadyAnswerLost
<1> DEFINE j == [job[w] EXCEPT !.pc = pc]
<1>5. /\ j \in Job /\ JobOK(j) /\ j.doc = d /\ j.pc = pc /\ j.stage = "done"
    BY <1>1, <1>2 DEF Job, JobOK, PCs, Working
<1>6. job' = [job EXCEPT ![w] = j]
    BY <1>4
<1>7. docs' = [docs EXCEPT ![d] = item]
    BY DEF MarkReady, ReadyAnswerLost
<1>8. chunks' = [chunks EXCEPT ![d] = chunks[d]] /\ claimed' = claimed \cup {d}
    BY <1>2 DEF MarkReady, ReadyAnswerLost, IInv, TypeOK
<1> HIDE DEF item, j
<1>9. DocOK(item, chunks[d], TRUE)
    BY <1>2, <1>3 DEF DocOK
<1>10. Working(j) => Holds(j, item, chunks[d])
    BY <1>5 DEF Holds, Working, Loops
<1>11. QED
    BY <1>2, <1>3, <1>5, <1>6, <1>7, <1>8, <1>9, <1>10, ClaimedStep
    DEF MarkReady, ReadyAnswerLost

\* The except clause marks the document failed and gives the claim up.
LEMMA RecordFailureKeeps ==
    ASSUME IInv, NEW w \in Workers, RecordFailure(w) PROVE IInv'
<1> DEFINE d == job[w].doc
           item == [docs[d] EXCEPT !.status = "failed", !.error = "ingestion_failed",
                                   !.stage = "failed"]
           j == [job[w] EXCEPT !.pc = "raised"]
<1>1. job[w].pc = "fail"
    BY DEF RecordFailure
<1>2. /\ job[w] \in Job /\ JobOK(job[w]) /\ Working(job[w])
      /\ d \in Docs /\ d \in claimed /\ docs[d] \in Item /\ chunks[d] \in SUBSET Nat
    BY <1>1, BusyJob DEF Working
<1>3. item \in Item /\ item.status = "failed"
    BY <1>2 DEF Item, Statuses, Errors, Stages
<1>4. j \in Job /\ JobOK(j) /\ ~Working(j)
    BY <1>1, <1>2 DEF Job, JobOK, PCs, Working
<1>5. docs' = [docs EXCEPT ![d] = item] /\ job' = [job EXCEPT ![w] = j]
    BY <1>2 DEF RecordFailure, IInv, TypeOK
<1>6. chunks' = [chunks EXCEPT ![d] = chunks[d]] /\ claimed' = claimed \cup {d}
    BY <1>2 DEF RecordFailure, IInv, TypeOK
<1> HIDE DEF item, j
<1>7. DocOK(item, chunks[d], TRUE)
    BY <1>3 DEF DocOK
<1>8. QED
    BY <1>2, <1>3, <1>4, <1>5, <1>6, <1>7, ClaimedStep DEF RecordFailure

-----------------------------------------------------------------------------
(* The invariants *)

\* Every step of Next, faults included, keeps IInv.
LEMMA StepInvariant == IInv /\ [Next]_vars => IInv'
<1> SUFFICES ASSUME IInv, [Next]_vars PROVE IInv'
    OBVIOUS
<1>1. CASE \E d \in Docs : TableStep(d)
    BY <1>1, CreateDocumentKeeps, CancelDocumentKeeps, OutsideKeeps DEF TableStep
<1>2. CASE \E w \in Workers, d \in Docs : Deliver(w, d)
    BY <1>2, DeliverKeeps
<1>3. ASSUME NEW w \in Workers, WorkerStep(w) PROVE IInv'
    BY <1>3, IdleStepKeeps, ClaimKeeps, ReportProgressKeeps, CheckCanceledKeeps,
       ExtractTextKeeps, ChunkTextKeeps, EmbedChunkKeeps, StoreChunkKeeps,
       MarkReadyKeeps, RaiseKeeps, RecordFailureKeeps
    DEF WorkerStep
<1>4. ASSUME NEW w \in Workers, Fault(w) PROVE IInv'
    BY <1>4, IdleStepKeeps, ClaimKeeps, StoreAnswerLostKeeps, MarkReadyKeeps DEF Fault
<1>5. CASE UNCHANGED vars
    BY <1>5 DEF vars, IInv, TypeOK, SingleClaim, JobInv, DocInv, Active
<1>6. QED
    BY <1>1, <1>2, <1>3, <1>4, <1>5 DEF Next, FaultFreeNext

\* The inductive invariant holds in every reachable state of Spec, faults
\* included.
THEOREM Invariance == Spec => []IInv
<1>1. QED
    BY InitInvariant, StepInvariant, PTL DEF Spec

\* Every variable keeps its type (the fields process_record and the API write).
THEOREM TypeCorrect == Spec => []TypeOK
<1>1. IInv => TypeOK
    BY DEF IInv
<1>2. QED
    BY <1>1, Invariance, PTL

\* The conditional claim of worker.py:111-122 is exclusive: any number of
\* deliveries, crashes and lost answers leaves one working execution per document.
THEOREM ClaimIsExclusive == Spec => []SingleClaim
<1>1. IInv => SingleClaim
    BY DEF IInv
<1>2. QED
    BY <1>1, Invariance, PTL

\* BUILD_SPEC's "ready only after every chunk is committed": a ready document
\* has exactly the rows 0..count-1, at the final update and ever after.
THEOREM ReadyMeansComplete == Spec => []ReadyIsComplete
<1>1. IInv => ReadyIsComplete
    BY DEF IInv, DocInv, DocOK, ReadyIsComplete
<1>2. QED
    BY <1>1, Invariance, PTL

-----------------------------------------------------------------------------
(* What a step does to the items, rows and claims *)

\* The item of document d becomes item.
SetsItem(d, item) == docs' = [docs EXCEPT ![d] = item]

\* The seven things a step can do to the tables.
Creates(d) ==
    /\ docs[d].status = "absent"
    /\ SetsItem(d, [docs[d] EXCEPT !.status = "pending"])
    /\ UNCHANGED <<chunks, claimed>>

Cancels(d) ==
    /\ docs[d].status # "absent"
    /\ SetsItem(d, [docs[d] EXCEPT !.status = "failed", !.error = "canceled"])
    /\ UNCHANGED <<chunks, claimed>>

Claims(d) ==
    /\ docs[d].status = "pending" /\ d \notin claimed
    /\ SetsItem(d, [docs[d] EXCEPT !.status = "processing"])
    /\ claimed' = claimed \cup {d}
    /\ UNCHANGED chunks

Progresses(d) ==
    /\ d \in claimed
    /\ \E s \in Stages, p \in Nat :
        /\ docs[d].percent <= p /\ p <= 95
        /\ SetsItem(d, [docs[d] EXCEPT !.stage = s, !.percent = p])
    /\ UNCHANGED <<chunks, claimed>>

\* Its worker is at work in the given stage.
WorkedOn(d, pc, stages) ==
    \E w \in Workers : /\ Active(w) /\ job[w].doc = d
                       /\ job[w].pc = pc /\ job[w].stage \in stages

Stores(d) ==
    /\ d \in claimed /\ docs[d].percent <= 95
    /\ \E i \in 0..(MaxChunks - 1) : /\ chunks[d] = 0..(i - 1)
                                     /\ chunks' = [chunks EXCEPT ![d] = 0..i]
    /\ WorkedOn(d, "work", {"storing"})
    /\ UNCHANGED <<docs, claimed>>

Publishes(d) ==
    /\ d \in claimed /\ docs[d].percent <= 95
    /\ \E n \in 0..MaxChunks : /\ chunks[d] = 0..(n - 1)
                               /\ SetsItem(d, ReadyItem(docs[d], n))
    /\ WorkedOn(d, "work", {"done"})
    /\ UNCHANGED <<chunks, claimed>>

Fails(d) ==
    /\ d \in claimed
    /\ SetsItem(d, [docs[d] EXCEPT !.status = "failed", !.error = "ingestion_failed",
                                   !.stage = "failed"])
    /\ WorkedOn(d, "fail", JobStages)
    /\ UNCHANGED <<chunks, claimed>>

Effect(d) ==
    \/ Creates(d) \/ Cancels(d) \/ Claims(d) \/ Progresses(d)
    \/ Stores(d) \/ Publishes(d) \/ Fails(d)

\* What a step of a worker does to the documents, as one of the effects above.
LEMMA WorkerEffect ==
    ASSUME IInv, NEW w \in Workers, WorkerStep(w) \/ Fault(w)
    PROVE  \/ UNCHANGED <<docs, chunks, claimed>>
           \/ job[w].doc \in Docs /\ Effect(job[w].doc)
<1>1. ASSUME Claim(w) \/ ClaimAnswerLost(w)
      PROVE  UNCHANGED <<docs, chunks, claimed>> \/ Effect(job[w].doc)
    <2> DEFINE d == job[w].doc
    <2>1. d \in Docs /\ DocOK(docs[d], chunks[d], d \in claimed)
        BY <1>1, BusyJob DEF Claim, ClaimAnswerLost
    <2>2. CASE docs[d].status = "pending"
        BY <1>1, <2>1, <2>2 DEF Claim, ClaimAnswerLost, Effect, Claims, SetsItem, DocOK
    <2>3. CASE docs[d].status # "pending"
        BY <1>1, <2>3 DEF Claim, ClaimAnswerLost
    <2>4. QED
        BY <2>2, <2>3
<1>2. ASSUME ReportProgress(w)
      PROVE  UNCHANGED <<docs, chunks, claimed>> \/ Effect(job[w].doc)
    <2> DEFINE d == job[w].doc
    <2>1. job[w].pc = "report"
        BY <1>2 DEF ReportProgress
    <2>2. /\ job[w] \in Job /\ JobOK(job[w]) /\ Working(job[w])
          /\ d \in Docs /\ d \in claimed /\ docs[d] \in Item
          /\ Holds(job[w], docs[d], chunks[d])
        BY <2>1, BusyJob DEF Working
    <2>3. /\ Percent(job[w]) \in Nat /\ Percent(job[w]) <= 95
          /\ docs[d].percent <= Percent(job[w]) /\ job[w].stage \in Stages
        BY <2>1, <2>2, PercentRange DEF Holds, JobOK, Working, JobStages, Job
    <2>4. \/ UNCHANGED docs
          \/ docs' = [docs EXCEPT ![d] = [docs[d] EXCEPT !.stage = job[w].stage,
                                                         !.percent = Percent(job[w])]]
        BY <1>2, <2>2 DEF ReportProgress, IInv, TypeOK
    <2>5. QED
        BY <1>2, <2>2, <2>3, <2>4 DEF ReportProgress, Effect, Progresses, SetsItem
<1>3. ASSUME StoreChunk(w) \/ StoreAnswerLost(w)
      PROVE  UNCHANGED <<docs, chunks, claimed>> \/ Effect(job[w].doc)
    <2> DEFINE d == job[w].doc
               i == job[w].done
    <2>1. job[w].pc = "work" /\ job[w].stage = "storing"
        BY <1>3 DEF StoreChunk, StoreAnswerLost
    <2>2. /\ JobOK(job[w]) /\ Working(job[w]) /\ d \in Docs /\ d \in claimed
          /\ Holds(job[w], docs[d], chunks[d])
          /\ i \in Nat /\ i < job[w].total /\ i \notin chunks[d]
          /\ chunks[d] = 0..(i - 1) /\ chunks[d] \cup {i} = 0..i
        BY <2>1, RowsBeforeStore
    <2>3. i \in 0..(MaxChunks - 1) /\ docs[d].percent <= 95 /\ Active(w)
        BY <2>1, <2>2, MaxChunksAssumption DEF JobOK, Holds, Active
    <2>4. chunks' = [chunks EXCEPT ![d] = 0..i] /\ UNCHANGED <<docs, claimed>>
        BY <1>3, <2>2 DEF StoreChunk, StoreAnswerLost
    <2>5. QED
        BY <2>1, <2>2, <2>3, <2>4 DEF Effect, Stores, WorkedOn
<1>4. ASSUME MarkReady(w) \/ ReadyAnswerLost(w)
      PROVE  Effect(job[w].doc)
    <2> DEFINE d == job[w].doc
               n == job[w].total
    <2>1. job[w].pc = "work" /\ job[w].stage = "done"
        BY <1>4 DEF MarkReady, ReadyAnswerLost
    <2>2. /\ d \in Docs /\ d \in claimed /\ Active(w)
          /\ n \in 0..MaxChunks /\ chunks[d] = 0..(n - 1) /\ docs[d].percent <= 95
        BY <2>1, BusyJob DEF Working, Active, Holds, RowsAt, JobOK
    <2>3. docs' = [docs EXCEPT ![d] = ReadyItem(docs[d], n)] /\ UNCHANGED <<chunks, claimed>>
        BY <1>4, <2>2 DEF MarkReady, ReadyAnswerLost
    <2>4. QED
        BY <2>1, <2>2, <2>3 DEF Effect, Publishes, SetsItem, WorkedOn
<1>5. ASSUME RecordFailure(w)
      PROVE  Effect(job[w].doc)
    <2> DEFINE d == job[w].doc
    <2>1. /\ d \in Docs /\ d \in claimed /\ Active(w) /\ job[w].pc = "fail"
          /\ job[w].stage \in JobStages
        BY <1>5, BusyJob DEF RecordFailure, Working, Active, JobOK
    <2>2. docs' = [docs EXCEPT ![d] = [docs[d] EXCEPT !.status = "failed",
                                            !.error = "ingestion_failed",
                                            !.stage = "failed"]]
        BY <1>5, <2>1 DEF RecordFailure, IInv, TypeOK
    <2>3. QED
        BY <1>5, <2>1, <2>2 DEF RecordFailure, Effect, Fails, SetsItem, WorkedOn
<1>6. ASSUME \/ Load(w) \/ CheckCanceled(w) \/ ExtractText(w) \/ ChunkText(w)
             \/ EmbedChunk(w) \/ Raise(w) \/ Finish(w) \/ Reject(w)
             \/ FailureUnrecorded(w) \/ Crash(w)
      PROVE  UNCHANGED <<docs, chunks, claimed>>
    BY <1>6 DEF Load, CheckCanceled, ExtractText, ChunkText, EmbedChunk, Raise,
                Finish, Reject, FailureUnrecorded, Crash
<1>7. CASE job[w].pc = "idle"
    BY <1>7
    DEF WorkerStep, Fault, Load, Claim, ReportProgress, CheckCanceled, ExtractText,
        ChunkText, EmbedChunk, StoreChunk, MarkReady, Raise, RecordFailure, Finish,
        Reject, ClaimAnswerLost, StoreAnswerLost, ReadyAnswerLost,
        FailureUnrecorded, Crash
<1>8. CASE job[w].pc # "idle"
    BY <1>1, <1>2, <1>3, <1>4, <1>5, <1>6, <1>8, BusyJob DEF WorkerStep, Fault
<1>9. QED
    BY <1>7, <1>8

\* What any step does to the documents, as one of the effects above.
LEMMA StepEffect ==
    ASSUME IInv, [Next]_vars
    PROVE  UNCHANGED <<docs, chunks, claimed>> \/ \E d \in Docs : Effect(d)
<1>1. CASE \E d \in Docs : TableStep(d)
    <2> SUFFICES ASSUME NEW d \in Docs, TableStep(d)
                 PROVE  UNCHANGED <<docs, chunks, claimed>> \/ Effect(d)
        BY <1>1
    <2>1. CASE CreateDocument(d)
        BY <2>1 DEF CreateDocument, PutDocument, Effect, Creates, SetsItem
    <2>2. CASE CancelDocument(d)
        BY <2>2 DEF CancelDocument, MarkDocumentFailed, Effect, Cancels, SetsItem, IInv, TypeOK
    <2>3. CASE Upload(d) \/ Replicate(d)
        BY <2>3 DEF Upload, Replicate
    <2>4. QED
        BY <2>1, <2>2, <2>3 DEF TableStep
<1>2. CASE \E w \in Workers, d \in Docs : Deliver(w, d)
    BY <1>2 DEF Deliver
<1>3. QED
    BY <1>1, <1>2, WorkerEffect DEF Next, FaultFreeNext, vars

-----------------------------------------------------------------------------
(* The action properties *)

\* What every step leaves of document e: no progress is lost, no end is undone,
\* and a cancel before any claim stands.
Advances(e) ==
    /\ docs'[e].percent >= docs[e].percent
    /\ docs[e].status \in {"ready", "failed"} => docs'[e].status \in {"ready", "failed"}
    /\ docs[e].status = "failed" /\ e \notin claimed =>
        /\ docs'[e].status = "failed" /\ docs'[e].error = "canceled"
        /\ e \notin claimed' /\ chunks'[e] = {}

\* A document a step leaves alone has advanced, trivially.
LEMMA UntouchedAdvances ==
    ASSUME IInv, NEW e \in Docs, docs'[e] = docs[e], chunks'[e] = chunks[e],
           e \notin claimed => e \notin claimed'
    PROVE  Advances(e)
<1>1. docs[e].percent \in Nat /\ DocOK(docs[e], chunks[e], e \in claimed)
    BY DEF IInv, TypeOK, DocInv, Item
<1>2. QED
    BY <1>1 DEF Advances, DocOK

\* Each effect on a document lets every document advance.
LEMMA EffectAdvances ==
    ASSUME IInv, NEW d \in Docs, Effect(d), NEW e \in Docs PROVE Advances(e)
<1>1. /\ docs \in [Docs -> Item] /\ chunks \in [Docs -> SUBSET Nat]
      /\ docs[e] \in Item /\ docs[e].percent \in Nat
      /\ e \notin claimed => chunks[e] = {}
    BY DEF IInv, TypeOK, DocInv, DocOK, Item
<1>2. CASE e # d
    <2>1. /\ docs'[e] = docs[e] /\ chunks'[e] = chunks[e]
          /\ e \notin claimed => e \notin claimed'
        BY <1>1, <1>2 DEF Effect, Creates, Cancels, Claims, Progresses, Stores,
                          Publishes, Fails, SetsItem
    <2>2. QED
        BY <2>1, UntouchedAdvances
<1>3. CASE e = d /\ (Creates(d) \/ Cancels(d) \/ Fails(d))
    <2>1. docs'[d].percent = docs[d].percent
        BY <1>1, <1>3 DEF Creates, Cancels, Fails, SetsItem, Item
    <2>2. docs[d].status # "absent" => docs'[d].status = "failed"
        BY <1>1, <1>3 DEF Creates, Cancels, Fails, SetsItem, Item
    <2>3. docs[d].status # "absent" /\ d \notin claimed =>
            /\ docs'[d].error = "canceled"
            /\ d \notin claimed' /\ chunks'[d] = {}
        BY <1>1, <1>3 DEF Creates, Cancels, Fails, SetsItem, Item
    <2>4. QED
        BY <1>1, <1>3, <2>1, <2>2, <2>3 DEF Advances
<1>4. CASE e = d /\ Claims(d)
    BY <1>1, <1>4 DEF Claims, SetsItem, Advances, Item
<1>5. CASE e = d /\ Progresses(d)
    BY <1>1, <1>5 DEF Progresses, SetsItem, Advances, Item
<1>6. CASE e = d /\ Stores(d)
    BY <1>1, <1>6 DEF Stores, Advances
<1>7. CASE e = d /\ Publishes(d)
    BY <1>1, <1>7 DEF Publishes, SetsItem, ReadyItem, Advances, Item
<1>8. QED
    BY <1>2, <1>3, <1>4, <1>5, <1>6, <1>7 DEF Effect

\* Every step lets every document advance.
LEMMA StepAdvances ==
    ASSUME IInv, [Next]_vars, NEW e \in Docs PROVE Advances(e)
<1>1. CASE UNCHANGED <<docs, chunks, claimed>>
    BY <1>1, UntouchedAdvances
<1>2. CASE \E d \in Docs : Effect(d)
    BY <1>2, EffectAdvances
<1>3. QED
    BY <1>1, <1>2, StepEffect

\* The percentage the browser shows never goes down.
THEOREM ProgressNeverDrops == Spec => ProgressIsMonotone
<1>1. IInv /\ [Next]_vars => [\A d \in Docs : docs'[d].percent >= docs[d].percent]_vars
    BY StepAdvances DEF Advances
<1>2. QED
    BY <1>1, Invariance, PTL DEF Spec, ProgressIsMonotone

\* What an execution at work knows of a document that has been settled: a failure
\* is not one of its kind, and a ready document is its own, whose final update
\* raised.
KnowsEnd(j, item) ==
    Working(j) =>
        /\ item.status = "ready" => j.pc = "fail" /\ j.stage = "done"
        /\ ~(item.status = "failed" /\ item.error = "ingestion_failed")

EndsKnown == \A w \in Workers : KnowsEnd(job[w], docs[job[w].doc])

\* A step of execution w: it is at work on an unsettled document afterwards, has
\* just made it ready, or has gone on with its status as it was.
LEMMA StepKnowsEnd ==
    ASSUME IInv, NEW w \in Workers, WorkerStep(w) \/ Fault(w),
           KnowsEnd(job[w], docs[job[w].doc])
    PROVE  KnowsEnd(job'[w], docs'[job'[w].doc])
<1> DEFINE d == job[w].doc
<1>1. /\ docs \in [Docs -> Item] /\ job \in [Workers -> Job]
      /\ job[w].pc # "idle" => d \in Docs
    BY BusyJob DEF IInv, TypeOK
<1>2. CASE \/ MarkReady(w) \/ RecordFailure(w) \/ Finish(w) \/ Load(w)
           \/ Reject(w) \/ ClaimAnswerLost(w) \/ FailureUnrecorded(w) \/ Crash(w)
    <2>1. \/ job'[w] = IdleJob
          \/ \E pc \in {"returned", "raised", "claim"} : job'[w] = [job[w] EXCEPT !.pc = pc]
        BY <1>1, <1>2 DEF MarkReady, RecordFailure, Finish, Load, Reject, ClaimAnswerLost,
                          FailureUnrecorded, Crash
    <2>2. ~Working(job'[w])
        BY <1>1, <2>1 DEF Working, IdleJob, Job
    <2>3. QED
        BY <2>2 DEF KnowsEnd
<1>3. CASE Claim(w)
    <2>1. CASE docs[d].status = "pending"
        <3>1. job'[w].doc = d /\ docs'[d].status = "processing"
            BY <1>1, <1>3, <2>1 DEF Claim, Job, Item
        <3>2. QED
            BY <3>1 DEF KnowsEnd
    <2>2. CASE docs[d].status # "pending"
        BY <1>1, <1>3, <2>2 DEF Claim, Job, KnowsEnd, Working
    <2>3. QED
        BY <2>1, <2>2
<1>4. CASE \/ ReportProgress(w) \/ CheckCanceled(w) \/ ExtractText(w) \/ ChunkText(w)
           \/ EmbedChunk(w) \/ StoreChunk(w) \/ Raise(w) \/ StoreAnswerLost(w)
    <2>1. job[w].pc \in {"report", "check", "work"} /\ d \in Docs /\ Working(job[w])
        BY <1>1, <1>4 DEF ReportProgress, CheckCanceled, ExtractText, ChunkText, EmbedChunk,
                          StoreChunk, Raise, StoreAnswerLost, Working
    <2>2. docs'[d].status = docs[d].status /\ docs'[d].error = docs[d].error
        <3>1. CASE ReportProgress(w)
            BY <1>1, <2>1, <3>1 DEF ReportProgress, Item
        <3>2. CASE ~ReportProgress(w)
            BY <1>4, <3>2 DEF CheckCanceled, ExtractText, ChunkText, EmbedChunk, StoreChunk,
                              Raise, StoreAnswerLost
        <3>3. QED
            BY <3>1, <3>2
    <2>3. job'[w].doc = d
        <3>1. CASE CheckCanceled(w)
            <4>1. job'[w] \in {Resume(job[w]), [job[w] EXCEPT !.pc = "returned"]}
                BY <1>1, <3>1 DEF CheckCanceled
            <4>2. QED
                BY <1>1, <4>1 DEF Resume, EnterStage, Job
        <3>2. CASE EmbedChunk(w) \/ StoreChunk(w)
            <4>1. job'[w] \in {AfterChunk(job[w]), [job[w] EXCEPT !.pc = "fail"]}
                BY <1>1, <3>2 DEF EmbedChunk, StoreChunk
            <4>2. QED
                BY <1>1, <4>1 DEF AfterChunk, Job
        <3>3. CASE ReportProgress(w) \/ ExtractText(w) \/ ChunkText(w)
            BY <1>1, <3>3 DEF ReportProgress, ExtractText, ChunkText, Job
        <3>4. CASE Raise(w) \/ StoreAnswerLost(w)
            BY <1>1, <3>4 DEF Raise, StoreAnswerLost, Job
        <3>5. QED
            BY <1>4, <3>1, <3>2, <3>3, <3>4
    <2>4. QED
        BY <2>1, <2>2, <2>3 DEF KnowsEnd
<1>5. CASE ReadyAnswerLost(w)
    <2>1. /\ d \in Docs /\ job'[w].pc = "fail" /\ job'[w].stage = "done" /\ job'[w].doc = d
          /\ docs'[d].status = "ready"
        BY <1>1, <1>5 DEF ReadyAnswerLost, ReadyItem, Job, Item
    <2>2. QED
        BY <2>1 DEF KnowsEnd
<1>6. QED
    BY <1>2, <1>3, <1>4, <1>5 DEF WorkerStep, Fault

\* Whatever is done to a document, those at work on it know how it has ended.
LEMMA EndsKnownStep == IInv /\ EndsKnown /\ [Next]_vars => EndsKnown'
<1> SUFFICES ASSUME IInv, EndsKnown, [Next]_vars, NEW v \in Workers, Working(job'[v])
             PROVE  KnowsEnd(job'[v], docs'[job'[v].doc])
    BY DEF EndsKnown, KnowsEnd
<1> DEFINE e == job[v].doc
<1>1. docs \in [Docs -> Item] /\ job \in [Workers -> Job]
    BY DEF IInv, TypeOK
<1>2. ASSUME job'[v] = job[v], docs'[e].status = docs[e].status, docs'[e].error = docs[e].error
      PROVE  KnowsEnd(job'[v], docs'[job'[v].doc])
    BY <1>2 DEF EndsKnown, KnowsEnd
<1>3. CASE UNCHANGED vars
    BY <1>2, <1>3 DEF vars
<1>4. ASSUME NEW d \in Docs, TableStep(d)
      PROVE  KnowsEnd(job'[v], docs'[job'[v].doc])
    <2>1. UNCHANGED job
        BY <1>4 DEF TableStep, CreateDocument, Upload, CancelDocument, Replicate
    <2>2. \/ docs'[e] = docs[e]
          \/ docs'[e].status = "pending"
          \/ docs'[e].error = "canceled" /\ docs'[e].status = "failed"
        <3>1. e \in Docs
            BY <1>1, <2>1 DEF IInv, TypeOK, JobOK, Working
        <3>2. QED
            BY <1>1, <1>4, <3>1 DEF TableStep, CreateDocument, PutDocument, Upload,
                                    CancelDocument, MarkDocumentFailed, Replicate, Item
    <2>3. QED
        BY <1>2, <2>1, <2>2 DEF KnowsEnd
<1>5. ASSUME NEW w \in Workers, NEW d \in Docs, Deliver(w, d)
      PROVE  KnowsEnd(job'[v], docs'[job'[v].doc])
    <2>1. v # w
        BY <1>1, <1>5 DEF Deliver, StartJob, Working
    <2>2. QED
        BY <1>1, <1>2, <1>5, <2>1 DEF Deliver
<1>6. ASSUME NEW w \in Workers, WorkerStep(w) \/ Fault(w)
      PROVE  KnowsEnd(job'[v], docs'[job'[v].doc])
    <2>1. CASE v = w
        BY <1>6, <2>1, StepKnowsEnd DEF EndsKnown
    <2>2. CASE v # w
        <3>1. job'[v] = job[v]
            BY <1>1, <1>6, <2>2
            DEF WorkerStep, Fault, Load, Claim, ReportProgress, CheckCanceled, ExtractText,
                ChunkText, EmbedChunk, StoreChunk, MarkReady, Raise, RecordFailure, Finish,
                Reject, ClaimAnswerLost, StoreAnswerLost, ReadyAnswerLost,
                FailureUnrecorded, Crash
        <3>2. Active(v) /\ e \in claimed /\ e \in Docs
            BY <3>1 DEF Active, IInv, TypeOK, JobInv
        <3>3. CASE UNCHANGED docs
            BY <1>2, <3>1, <3>3
        <3>4. CASE Claim(w) \/ ClaimAnswerLost(w)
            <4>1. docs[e].status # "pending"
                BY <3>2 DEF IInv, DocInv, DocOK, TypeOK, JobOK, Active, Working
            <4>2. docs'[e] = docs[e]
                <5>1. \/ docs' = docs
                      \/ /\ docs[job[w].doc].status = "pending"
                         /\ \E item : docs' = [docs EXCEPT ![job[w].doc] = item]
                    BY <3>4 DEF Claim, ClaimAnswerLost
                <5>2. QED
                    BY <1>1, <3>2, <4>1, <5>1
            <4>3. QED
                BY <1>2, <3>1, <4>2
        <3>5. CASE \/ ReportProgress(w) \/ MarkReady(w) \/ RecordFailure(w) \/ ReadyAnswerLost(w)
            <4>1. Active(w)
                BY <3>5 DEF ReportProgress, MarkReady, RecordFailure, ReadyAnswerLost,
                            Active, Working
            <4>2. job[w].doc # e
                BY <2>2, <3>2, <4>1 DEF IInv, SingleClaim
            <4>3. docs'[e] = docs[e]
                <5>1. \/ docs' = docs
                      \/ \E item : docs' = [docs EXCEPT ![job[w].doc] = item]
                    BY <3>5 DEF ReportProgress, MarkReady, RecordFailure, ReadyAnswerLost
                <5>2. QED
                    BY <1>1, <3>2, <4>2, <5>1
            <4>4. QED
                BY <1>2, <3>1, <4>3
        <3>6. QED
            BY <1>6, <3>3, <3>4, <3>5
            DEF WorkerStep, Fault, Load, CheckCanceled, ExtractText, ChunkText, EmbedChunk,
                StoreChunk, Raise, Finish, Reject, StoreAnswerLost, FailureUnrecorded, Crash
    <2>3. QED
        BY <2>1, <2>2
<1>7. QED
    BY <1>3, <1>4, <1>5, <1>6 DEF Next, FaultFreeNext

\* What a step may make of a settled document e.
StaysSettled(e) ==
    /\ docs[e].status \in {"ready", "failed"} => docs'[e].status \in {"ready", "failed"}
    /\ docs[e].status = "failed" /\ docs[e].error = "ingestion_failed" =>
        docs'[e].status = "failed"
    /\ docs[e].status = "ready" /\ docs'[e].status = "failed" =>
        \/ docs'[e].error = "canceled"
        \/ \E w \in Workers :
            /\ job[w].doc = e /\ job[w].pc = "fail" /\ job[w].stage = "done"

\* Every effect keeps a settled document so.
LEMMA EffectStaysSettled ==
    ASSUME IInv, EndsKnown, NEW d \in Docs, Effect(d), NEW e \in Docs
    PROVE  StaysSettled(e)
<1>1. docs \in [Docs -> Item] /\ Advances(e)
    BY EffectAdvances DEF IInv, TypeOK
<1>2. CASE docs'[e] = docs[e]
    BY <1>2 DEF StaysSettled
<1>3. CASE e = d /\ (Creates(d) \/ Claims(d))
    BY <1>1, <1>3 DEF Creates, Claims, StaysSettled
<1>4. CASE e = d /\ Cancels(d)
    BY <1>1, <1>4 DEF Cancels, SetsItem, StaysSettled, Item
<1>5. CASE e = d /\ Progresses(d)
    BY <1>1, <1>5 DEF Progresses, SetsItem, StaysSettled, Item
<1>6. CASE e = d /\ Publishes(d)
    <2>1. ~(docs[e].status = "failed" /\ docs[e].error = "ingestion_failed")
        BY <1>6 DEF Publishes, WorkedOn, Active, EndsKnown, KnowsEnd
    <2>2. docs'[e].status = "ready"
        BY <1>1, <1>6 DEF Publishes, SetsItem, ReadyItem, Item
    <2>3. QED
        BY <2>1, <2>2 DEF StaysSettled
<1>7. CASE e = d /\ Fails(d)
    <2>1. docs'[e].status = "failed"
        BY <1>1, <1>7 DEF Fails, SetsItem, Item
    <2>2. docs[e].status = "ready" =>
            \E w \in Workers :
                job[w].doc = e /\ job[w].pc = "fail" /\ job[w].stage = "done"
        BY <1>7 DEF Fails, WorkedOn, Active, EndsKnown, KnowsEnd
    <2>3. QED
        BY <2>1, <2>2 DEF StaysSettled
<1>8. QED
    BY <1>1, <1>2, <1>3, <1>4, <1>5, <1>6, <1>7
    DEF Effect, Creates, Cancels, Claims, Progresses, Stores, Publishes, Fails, SetsItem

\* A document in a terminal status never becomes pending or processing again, a
\* recorded failure is final, and a ready document is lost only to a cancel or to
\* the execution that made it ready.
THEOREM SettledForGood == Spec => SettledStaysSettled
<1>1. Init => EndsKnown
    BY DEF Init, IdleJob, EndsKnown, KnowsEnd, Working
<1>2. IInv /\ EndsKnown /\ [Next]_vars => [\A d \in Docs : StaysSettled(d)]_vars
    <2> SUFFICES ASSUME IInv, EndsKnown, Next, NEW e \in Docs PROVE StaysSettled(e)
        OBVIOUS
    <2>1. CASE UNCHANGED <<docs, chunks, claimed>>
        BY <2>1 DEF StaysSettled
    <2>2. CASE \E d \in Docs : Effect(d)
        BY <2>2, EffectStaysSettled
    <2>3. QED
        BY <2>1, <2>2, StepEffect
<1>3. [\A d \in Docs : StaysSettled(d)]_vars =>
        [\A d \in Docs :
            /\ docs[d].status \in {"ready", "failed"} => docs'[d].status \in {"ready", "failed"}
            /\ docs[d].status = "failed" /\ docs[d].error = "ingestion_failed" =>
                docs'[d].status = "failed"
            /\ docs[d].status = "ready" /\ docs'[d].status = "failed" =>
                \/ docs'[d].error = "canceled"
                \/ \E w \in Workers :
                    /\ job[w].doc = d /\ job[w].pc = "fail" /\ job[w].stage = "done"]_vars
    BY DEF StaysSettled
<1>4. QED
    BY <1>1, <1>2, <1>3, EndsKnownStep, Invariance, PTL DEF Spec, SettledStaysSettled

\* A document canceled before any claim stays canceled and without rows.
THEOREM EarlyCancelWins == Spec => EarlyCancelIsFinal
<1>1. IInv /\ [Next]_vars =>
        [\A d \in Docs : docs[d].status = "failed" /\ d \notin claimed =>
            /\ docs'[d].status = "failed" /\ docs'[d].error = "canceled"
            /\ d \notin claimed' /\ chunks'[d] = {}]_vars
    BY StepAdvances DEF Advances
<1>2. QED
    BY <1>1, Invariance, PTL DEF Spec, EarlyCancelIsFinal

-----------------------------------------------------------------------------
(* A cancel that can no longer be missed *)

\* A working job j whose document is item, with stale copy copy, cannot miss
\* the cancel any more, or has failed already.
Caught(j, item, copy) ==
    \/ j.pc = "fail"
    \/ /\ item.error = "canceled"
       /\ copy = View(item)
       /\ j.pc = "work" => j.stage \notin {"storing", "done"}

\* CancelSeen, with the part of each worker named.
LEMMA SeenMeansCaught ==
    ASSUME NEW d \in Docs
    PROVE  CancelSeen(d) <=>
            /\ docs[d].status = "failed"
            /\ \A w \in Workers :
                Active(w) /\ job[w].doc = d => Caught(job[w], docs[d], replica[d])
    BY DEF CancelSeen, Caught

\* A job that cannot miss the cancel and goes on working still cannot, and it
\* neither stores a row nor publishes.
LEMMA CaughtStaysCaught ==
    ASSUME IInv, NEW w \in Workers, WorkerStep(w) \/ Fault(w),
           Active(w), docs[job[w].doc].status = "failed",
           Caught(job[w], docs[job[w].doc], replica[job[w].doc])
    PROVE  Active(w)' =>
            /\ job'[w].doc = job[w].doc
            /\ job[w].pc # "fail"
            /\ \/ job'[w].pc = "fail"
               \/ ~(job'[w].pc = "work" /\ job'[w].stage \in {"storing", "done"})
<1>1. job[w].pc \in {"report", "work", "check", "fail"}
    BY DEF Active, Working
<1>2. /\ job \in [Workers -> Job] /\ job[w] \in Job /\ JobOK(job[w])
      /\ job[w].stage \in JobStages
    BY <1>1, BusyJob DEF IInv, TypeOK, JobOK, Active
<1>3. CASE Load(w) \/ Claim(w) \/ Finish(w) \/ Reject(w) \/ ClaimAnswerLost(w)
    BY <1>1, <1>3 DEF Load, Claim, Finish, Reject, ClaimAnswerLost
<1>4. CASE Raise(w) \/ FailureUnrecorded(w) \/ RecordFailure(w) \/ Crash(w)
           \/ StoreAnswerLost(w) \/ ReadyAnswerLost(w)
    BY <1>2, <1>4 DEF Raise, FailureUnrecorded, RecordFailure, Crash, StoreAnswerLost,
                      ReadyAnswerLost, Active, Working, IdleJob, Job
<1>5. CASE ReportProgress(w)
    BY <1>2, <1>5 DEF ReportProgress, Loops, JobOK, Job
<1>6. CASE CheckCanceled(w)
    <2>1. job[w].pc = "check"
        BY <1>6 DEF CheckCanceled
    <2>2. /\ docs[job[w].doc].error = "canceled"
          /\ replica[job[w].doc] = View(docs[job[w].doc])
        BY <2>1 DEF Caught
    <2>3. \A seen \in Reads(job[w].doc) : seen.status = "failed" /\ seen.error = "canceled"
        BY <2>2 DEF Reads, View
    <2>4. job' = [job EXCEPT ![w] = [job[w] EXCEPT !.pc = "returned"]]
        BY <1>6, <2>3 DEF CheckCanceled
    <2>5. job'[w].pc = "returned"
        BY <1>2, <2>4 DEF Job
    <2>6. QED
        BY <2>5 DEF Active, Working
<1>7. CASE ExtractText(w) \/ ChunkText(w)
    BY <1>2, <1>7 DEF ExtractText, ChunkText, Job
<1>8. CASE EmbedChunk(w)
    <2>1. job' = [job EXCEPT ![w] = AfterChunk(job[w])] /\ job[w].pc # "fail"
        BY <1>8 DEF EmbedChunk
    <2>2. AfterChunk(job[w]).doc = job[w].doc /\ AfterChunk(job[w]).pc \in {"report", "check"}
        BY <1>2 DEF AfterChunk, Job
    <2>3. QED
        BY <1>2, <2>1, <2>2
<1>9. CASE StoreChunk(w) \/ MarkReady(w)
    BY <1>9 DEF StoreChunk, MarkReady, Caught
<1>10. QED
    BY <1>3, <1>4, <1>5, <1>6, <1>7, <1>8, <1>9 DEF WorkerStep, Fault

\* Only a pending document gets a new worker, and a worker moves only its job.
LEMMA NewlyActive ==
    ASSUME IInv, NEW w \in Workers, WorkerStep(w) \/ Fault(w), ~Active(w), Active(w)'
    PROVE  docs[job[w].doc].status = "pending" /\ job'[w].doc = job[w].doc
<1>1. job[w].pc \notin {"report", "work", "check", "fail"}
    BY DEF Active, Working
<1>2. job \in [Workers -> Job] /\ job[w] \in Job
    BY DEF IInv, TypeOK
<1>3. CASE Claim(w)
    BY <1>2, <1>3 DEF Claim, Active, Working, Job
<1>4. CASE Load(w) \/ Finish(w) \/ Reject(w) \/ ClaimAnswerLost(w) \/ Crash(w)
    <2>1. job'[w].pc \in {"idle", "returned", "raised", "claim"}
        BY <1>2, <1>4 DEF Load, Finish, Reject, ClaimAnswerLost, Crash, IdleJob, Job
    <2>2. QED
        BY <2>1 DEF Active, Working
<1>5. QED
    BY <1>1, <1>3, <1>4
    DEF WorkerStep, Fault, ReportProgress, CheckCanceled, ExtractText, ChunkText,
        EmbedChunk, StoreChunk, MarkReady, Raise, RecordFailure, StoreAnswerLost,
        ReadyAnswerLost, FailureUnrecorded

\* An execution never changes documents.
LEMMA DocStays ==
    ASSUME IInv, NEW w \in Workers, WorkerStep(w) \/ Fault(w), Active(w), Active(w)'
    PROVE  job'[w].doc = job[w].doc
<1>1. /\ job \in [Workers -> Job] /\ job[w] \in Job /\ JobOK(job[w])
      /\ job[w].pc \in {"report", "work", "check", "fail"}
    BY BusyJob DEF IInv, TypeOK, Active, Working
<1>2. CASE Load(w) \/ Claim(w) \/ Finish(w) \/ Reject(w) \/ ClaimAnswerLost(w)
    BY <1>1, <1>2 DEF Load, Claim, Finish, Reject, ClaimAnswerLost
<1>3. CASE Crash(w)
    BY <1>1, <1>3 DEF Crash, IdleJob, Active, Working
<1>4. CASE Raise(w) \/ FailureUnrecorded(w) \/ RecordFailure(w)
           \/ StoreAnswerLost(w) \/ ReadyAnswerLost(w)
    BY <1>1, <1>4 DEF Raise, FailureUnrecorded, RecordFailure, StoreAnswerLost,
                      ReadyAnswerLost, Job
<1>5. CASE ReportProgress(w) \/ ExtractText(w) \/ ChunkText(w) \/ MarkReady(w)
    BY <1>1, <1>5 DEF ReportProgress, ExtractText, ChunkText, MarkReady, Job
<1>6. CASE CheckCanceled(w)
    <2>1. job[w].pc = "check" /\ Resume(job[w]).doc = job[w].doc
        BY <1>1, <1>6, ResumeTyped DEF CheckCanceled
    <2>2. QED
        BY <1>1, <1>6, <2>1 DEF CheckCanceled, Job
<1>7. CASE EmbedChunk(w) \/ StoreChunk(w)
    <2>1. AfterChunk(job[w]).doc = job[w].doc
        BY <1>1 DEF AfterChunk, Job
    <2>2. QED
        BY <1>1, <1>7, <2>1 DEF EmbedChunk, StoreChunk, Job
<1>8. QED
    BY <1>2, <1>3, <1>4, <1>5, <1>6, <1>7 DEF WorkerStep, Fault

\* A worker's step moves its own job and its own document at most.
LEMMA WorkerFrame ==
    ASSUME IInv, NEW w \in Workers, WorkerStep(w) \/ Fault(w)
    PROVE  /\ replica' = replica
           /\ \A v \in Workers : v # w => job'[v] = job[v]
<1>1. replica' = replica
    BY DEF WorkerStep, Fault, Load, Claim, ReportProgress, CheckCanceled, ExtractText,
           ChunkText, EmbedChunk, StoreChunk, MarkReady, Raise, RecordFailure, Finish,
           Reject, ClaimAnswerLost, StoreAnswerLost, ReadyAnswerLost,
           FailureUnrecorded, Crash
<1>2. \E j : job' = [job EXCEPT ![w] = j]
    <2>1. CASE Load(w) \/ Claim(w) \/ ReportProgress(w) \/ CheckCanceled(w)
        BY <2>1 DEF Load, Claim, ReportProgress, CheckCanceled, IInv, TypeOK
    <2>2. CASE ExtractText(w) \/ ChunkText(w) \/ EmbedChunk(w) \/ StoreChunk(w)
        BY <2>2 DEF ExtractText, ChunkText, EmbedChunk, StoreChunk, IInv, TypeOK
    <2>3. CASE MarkReady(w) \/ Raise(w) \/ RecordFailure(w) \/ Finish(w)
        BY <2>3 DEF MarkReady, Raise, RecordFailure, Finish, IInv, TypeOK
    <2>4. CASE Reject(w) \/ ClaimAnswerLost(w) \/ StoreAnswerLost(w)
        BY <2>4 DEF Reject, ClaimAnswerLost, StoreAnswerLost, IInv, TypeOK
    <2>5. CASE ReadyAnswerLost(w) \/ FailureUnrecorded(w) \/ Crash(w)
        BY <2>5 DEF ReadyAnswerLost, FailureUnrecorded, Crash, IInv, TypeOK
    <2>6. QED
        BY <2>1, <2>2, <2>3, <2>4, <2>5 DEF WorkerStep, Fault
<1>3. QED
    BY <1>1, <1>2 DEF IInv, TypeOK

\* An execution goes on, or fails in a call.
MovesOn(w) ==
    \/ Load(w) \/ Claim(w) \/ ReportProgress(w) \/ CheckCanceled(w)
    \/ ExtractText(w) \/ ChunkText(w) \/ EmbedChunk(w) \/ StoreChunk(w)
    \/ MarkReady(w) \/ Raise(w) \/ RecordFailure(w)
    \/ Reject(w) \/ ClaimAnswerLost(w) \/ StoreAnswerLost(w)
    \/ ReadyAnswerLost(w) \/ FailureUnrecorded(w)

\* Until it is over it keeps its document,
LEMMA JobMoves ==
    ASSUME IInv, NEW w \in Workers, MovesOn(w)
    PROVE  job'[w].pc # "idle" /\ job'[w].doc = job[w].doc
<1>1. job \in [Workers -> Job] /\ job[w] \in Job
    BY DEF IInv, TypeOK
<1>2. CASE \/ Load(w) \/ Claim(w) \/ ReportProgress(w) \/ ExtractText(w) \/ ChunkText(w)
           \/ MarkReady(w) \/ Raise(w) \/ RecordFailure(w)
    BY <1>1, <1>2 DEF Load, Claim, ReportProgress, ExtractText, ChunkText, MarkReady,
                      Raise, RecordFailure, Job
<1>3. CASE Reject(w) \/ ClaimAnswerLost(w) \/ StoreAnswerLost(w)
           \/ ReadyAnswerLost(w) \/ FailureUnrecorded(w)
    BY <1>1, <1>3 DEF Reject, ClaimAnswerLost, StoreAnswerLost, ReadyAnswerLost,
                      FailureUnrecorded, Job
<1>4. CASE CheckCanceled(w) \/ EmbedChunk(w) \/ StoreChunk(w)
    <2>1. \/ job'[w].pc \in {"returned", "fail"} /\ job'[w].doc = job[w].doc
          \/ Active(w)'
        <3>1. CASE CheckCanceled(w)
            <4>1. CASE job' = [job EXCEPT ![w] = [job[w] EXCEPT !.pc = "returned"]]
                BY <1>1, <4>1 DEF Job
            <4>2. CASE job' = [job EXCEPT ![w] = Resume(job[w])]
                <5>1. job[w].pc = "check" /\ Resume(job[w]).pc \in {"work", "report"}
                    BY <1>1, <3>1 DEF CheckCanceled, Resume, EnterStage, Job
                <5>2. QED
                    BY <1>1, <4>2, <5>1 DEF Active, Working
            <4>3. QED
                BY <3>1, <4>1, <4>2 DEF CheckCanceled
        <3>2. AfterChunk(job[w]).pc \in {"report", "check"}
            BY <1>1 DEF AfterChunk, Job
        <3>3. CASE EmbedChunk(w) \/ StoreChunk(w)
            BY <1>1, <3>2, <3>3 DEF EmbedChunk, StoreChunk, Active, Working, Job
        <3>4. QED
            BY <1>4, <3>1, <3>3
    <2>2. Active(w)
        BY <1>4 DEF CheckCanceled, EmbedChunk, StoreChunk, Active, Working
    <2>3. WorkerStep(w) \/ Fault(w)
        BY <1>4 DEF WorkerStep
    <2>4. Active(w)' => job'[w].doc = job[w].doc
        BY <2>2, <2>3, DocStays
    <2>5. Active(w)' => job'[w].pc # "idle"
        BY DEF Active, Working
    <2>6. QED
        BY <2>1, <2>4, <2>5
<1>5. QED
    BY <1>2, <1>3, <1>4 DEF MovesOn

\* and every step of it moves its own job only.
LEMMA JobFrame ==
    ASSUME IInv, NEW w \in Workers, WorkerStep(w) \/ Fault(w)
    PROVE  /\ \A v \in Workers : v # w => job'[v] = job[v]
           /\ job'[w].doc \in {job[w].doc, None}
<1>1. \A v \in Workers : v # w => job'[v] = job[v]
    BY WorkerFrame
<1>2. CASE Finish(w) \/ Crash(w)
    BY <1>2 DEF Finish, Crash, IdleJob, IInv, TypeOK
<1>3. CASE MovesOn(w)
    <2>1. job'[w].doc = job[w].doc
        BY <1>3, JobMoves
    <2>2. QED
        BY <1>1, <2>1
<1>4. QED
    BY <1>1, <1>2, <1>3 DEF WorkerStep, Fault, MovesOn

\* An effect on a document whose cancel cannot be missed: it stays failed, its
\* rows stay, and its item keeps looking canceled unless its worker had failed.
LEMMA EffectOnSeenCancel ==
    ASSUME IInv, NEW d \in Docs, NEW e \in Docs, CancelSeen(d), Effect(e)
    PROVE  /\ docs'[d].status = "failed" /\ chunks'[d] = chunks[d]
           /\ \/ /\ docs[d].error = "canceled" => View(docs'[d]) = View(docs[d])
              \/ \E w \in Workers : Active(w) /\ job[w].doc = d /\ job[w].pc = "fail"
<1>1. /\ docs \in [Docs -> Item] /\ chunks \in [Docs -> SUBSET Nat] /\ docs[d] \in Item
      /\ docs[d].status = "failed"
    BY DEF IInv, TypeOK, CancelSeen
<1>2. CASE e # d
    BY <1>1, <1>2 DEF Effect, Creates, Cancels, Claims, Progresses, Stores,
                      Publishes, Fails, SetsItem
<1>3. CASE e = d /\ (Creates(d) \/ Claims(d))
    BY <1>1, <1>3 DEF Creates, Claims
<1>4. CASE e = d /\ Cancels(d)
    BY <1>1, <1>4 DEF Cancels, SetsItem, View, Item
<1>5. CASE e = d /\ Progresses(d)
    BY <1>1, <1>5 DEF Progresses, SetsItem, View, Item
<1>6. CASE e = d /\ (Stores(d) \/ Publishes(d))
    <2>1. PICK w \in Workers : /\ Active(w) /\ job[w].doc = d
                               /\ job[w].pc = "work" /\ job[w].stage \in {"storing", "done"}
        BY <1>6 DEF Stores, Publishes, WorkedOn
    <2>2. QED
        BY <2>1 DEF CancelSeen
<1>7. CASE e = d /\ Fails(d)
    BY <1>1, <1>7 DEF Fails, SetsItem, WorkedOn, Item
<1>8. QED
    BY <1>2, <1>3, <1>4, <1>5, <1>6, <1>7 DEF Effect

\* No step gets past a cancel that can no longer be missed.
LEMMA SeenCancelStep ==
    ASSUME IInv, [Next]_vars, NEW d \in Docs, CancelSeen(d)
    PROVE  CancelSeen(d)' /\ chunks'[d] = chunks[d]
<1>1. docs[d] \in Item /\ docs \in [Docs -> Item] /\ docs[d].status = "failed"
    BY DEF IInv, TypeOK, CancelSeen
<1>2. \A w \in Workers : Active(w) /\ job[w].doc = d => Caught(job[w], docs[d], replica[d])
    BY SeenMeansCaught
<1>3. ASSUME UNCHANGED <<docs, chunks, job>>, replica[d] = View(docs[d]) => replica'[d] = replica[d]
      PROVE  CancelSeen(d)' /\ chunks'[d] = chunks[d]
    BY <1>3 DEF CancelSeen, Active
<1>4. ASSUME NEW e \in Docs, TableStep(e)
      PROVE  CancelSeen(d)' /\ chunks'[d] = chunks[d]
    <2>1. CASE Upload(e)
        BY <1>3, <2>1 DEF Upload
    <2>2. CASE Replicate(e)
        BY <1>3, <2>2 DEF Replicate, IInv, TypeOK
    <2>3. CASE CreateDocument(e)
        <3>1. e # d /\ docs'[d] = docs[d] /\ UNCHANGED <<chunks, replica, job>>
            BY <1>1, <2>3 DEF CreateDocument, PutDocument
        <3>2. QED
            BY <3>1 DEF CancelSeen, Active
    <2>4. CASE CancelDocument(e)
        <3>1. /\ docs'[d].status = "failed" /\ UNCHANGED <<chunks, replica, job>>
              /\ docs[d].error = "canceled" => docs'[d] = docs[d]
            BY <1>1, <2>4 DEF CancelDocument, MarkDocumentFailed, Item
        <3>2. QED
            BY <3>1 DEF CancelSeen, Active
    <2>5. QED
        BY <1>4, <2>1, <2>2, <2>3, <2>4 DEF TableStep
<1>5. ASSUME NEW w \in Workers, NEW e \in Docs, Deliver(w, e)
      PROVE  CancelSeen(d)' /\ chunks'[d] = chunks[d]
    <2>1. \A v \in Workers : Active(v)' => Active(v) /\ job'[v] = job[v]
        BY <1>5 DEF Deliver, StartJob, Active, Working, IInv, TypeOK
    <2>2. QED
        BY <1>5, <2>1 DEF Deliver, CancelSeen
<1>6. ASSUME NEW w \in Workers, WorkerStep(w) \/ Fault(w)
      PROVE  CancelSeen(d)' /\ chunks'[d] = chunks[d]
    <2>1. replica' = replica /\ \A v \in Workers : v # w => job'[v] = job[v]
        BY <1>6, WorkerFrame
    <2>2. /\ docs'[d].status = "failed" /\ chunks'[d] = chunks[d]
          /\ \/ docs[d].error = "canceled" => View(docs'[d]) = View(docs[d])
             \/ \E u \in Workers : Active(u) /\ job[u].doc = d /\ job[u].pc = "fail"
        BY <1>1, <1>6, WorkerEffect, EffectOnSeenCancel
    <2>3. ASSUME NEW v \in Workers, Active(v)', job'[v].doc = d
          PROVE  Caught(job'[v], docs'[d], replica'[d])
        <3>1. Active(v) /\ job[v].doc = d
            <4>1. CASE v # w
                BY <2>1, <2>3, <4>1 DEF Active
            <4>2. CASE v = w /\ ~Active(w)
                BY <1>1, <1>6, <2>3, <4>2, NewlyActive
            <4>3. CASE v = w /\ Active(w)
                <5>1. job[w].doc \in Docs /\ docs[job[w].doc] \in Item
                    BY <4>3, BusyJob DEF Active, Working
                <5>2. CASE job[w].doc = d
                    BY <4>3, <5>2
                <5>3. CASE job[w].doc # d
                    BY <1>6, <2>3, <4>3, <5>3, DocStays
                <5>4. QED
                    BY <5>2, <5>3
            <4>4. QED
                BY <4>1, <4>2, <4>3
        <3>2. Caught(job[v], docs[d], replica[d])
            BY <1>2, <3>1
        <3>3. CASE job[v].pc = "fail"
            <4>1. CASE v = w
                BY <1>1, <1>6, <2>3, <3>1, <3>2, <3>3, <4>1, CaughtStaysCaught
            <4>2. CASE v # w
                BY <2>1, <3>3, <4>2 DEF Caught
            <4>3. QED
                BY <4>1, <4>2
        <3>4. CASE job[v].pc # "fail"
            <4>1. docs[d].error = "canceled" /\ replica[d] = View(docs[d])
                BY <3>2, <3>4 DEF Caught
            <4>2. \A u \in Workers : Active(u) /\ job[u].doc = d => u = v
                BY <3>1 DEF IInv, SingleClaim
            <4>3. View(docs'[d]) = View(docs[d])
                BY <2>2, <3>4, <4>1, <4>2
            <4>4. docs'[d].error = "canceled" /\ replica'[d] = View(docs'[d])
                BY <2>1, <4>1, <4>3 DEF View
            <4>5. \/ job'[v].pc = "fail"
                  \/ ~(job'[v].pc = "work" /\ job'[v].stage \in {"storing", "done"})
                <5>1. CASE v = w
                    BY <1>1, <1>6, <2>3, <3>1, <3>2, <5>1, CaughtStaysCaught
                <5>2. CASE v # w
                    BY <2>1, <3>2, <5>2 DEF Caught
                <5>3. QED
                    BY <5>1, <5>2
            <4>6. QED
                BY <4>4, <4>5 DEF Caught
        <3>5. QED
            BY <3>3, <3>4
    <2>4. CancelSeen(d)'
        BY <2>2, <2>3 DEF CancelSeen, Caught
    <2>5. QED
        BY <2>2, <2>4
<1>7. CASE UNCHANGED vars
    BY <1>3, <1>7 DEF vars
<1>8. QED
    BY <1>4, <1>5, <1>6, <1>7 DEF Next, FaultFreeNext

\* A cancel that every read returns, and that no worker has passed its last check
\* of, is final: the document stays failed and gains no row (worker.py:124-256).
THEOREM SeenCancelWins == Spec => SeenCancelIsFinal
<1>1. IInv /\ [Next]_vars =>
        [\A d \in Docs : CancelSeen(d) => CancelSeen(d)' /\ chunks'[d] = chunks[d]]_vars
    BY SeenCancelStep
<1>2. QED
    BY <1>1, Invariance, PTL DEF Spec, SeenCancelIsFinal

-----------------------------------------------------------------------------
(* The workers and the API implement DocumentLifecycle *)

\* No documents on either side.
LEMMA InitRefines == Init => Lifecycle!Init
<1> SUFFICES ASSUME Init PROVE Lifecycle!Init
    OBVIOUS
<1>1. \A d \in Docs : docs[d].status = "absent" /\ docs[d].percent = 0
    BY DEF Init, AbsentItem
<1>2. QED
    BY <1>1 DEF Init, Lifecycle!Init

\* Each effect is one action of DocumentLifecycle, or none.
LEMMA EffectRefines ==
    ASSUME IInv, NEW d \in Docs, Effect(d)
    PROVE  Lifecycle!Next \/ UNCHANGED Lifecycle!vars
<1> DEFINE status == [e \in Docs |-> docs[e].status]
           published == {e \in Docs : docs[e].percent = 100}
<1>1. /\ docs \in [Docs -> Item] /\ docs[d] \in Item /\ docs[d].percent \in Nat
      /\ chunks \in [Docs -> SUBSET Nat]
    BY DEF IInv, TypeOK, Item
<1>2. ASSUME NEW item, docs' = [docs EXCEPT ![d] = item]
      PROVE  /\ status' = [status EXCEPT ![d] = item.status]
             /\ item.percent = docs[d].percent => published' = published
             /\ item.percent # 100 /\ docs[d].percent # 100 => published' = published
             /\ item.percent = 100 => published' = published \cup {d}
    <2>1. \A e \in Docs : docs'[e] = IF e = d THEN item ELSE docs[e]
        BY <1>1, <1>2
    <2>2. status' = [status EXCEPT ![d] = item.status]
        BY <2>1
    <2>3. published' = {e \in Docs : (IF e = d THEN item ELSE docs[e]).percent = 100}
        BY <2>1
    <2>4. item.percent = docs[d].percent => published' = published
        BY <2>3
    <2>5. item.percent # 100 /\ docs[d].percent # 100 => published' = published
        BY <2>3
    <2>6. item.percent = 100 => published' = published \cup {d}
        BY <2>3
    <2>7. QED
        BY <2>2, <2>4, <2>5, <2>6
<1>3. CASE Creates(d)
    <2> DEFINE item == [docs[d] EXCEPT !.status = "pending"]
    <2>1. /\ docs' = [docs EXCEPT ![d] = item]
          /\ item.status = "pending" /\ item.percent = docs[d].percent
        BY <1>1, <1>3 DEF Creates, SetsItem, Item
    <2> HIDE DEF item
    <2>2. status' = [status EXCEPT ![d] = "pending"] /\ published' = published
        BY <1>2, <2>1
    <2>3. Lifecycle!Create(d)
        BY <1>3, <2>2 DEF Creates, Lifecycle!Create
    <2>4. QED
        BY <2>3 DEF Lifecycle!Next
<1>4. CASE Cancels(d) \/ Fails(d)
    <2>1. PICK item : /\ docs' = [docs EXCEPT ![d] = item]
                      /\ item.status = "failed" /\ item.percent = docs[d].percent
        BY <1>1, <1>4 DEF Cancels, Fails, SetsItem, Item
    <2>2. status' = [status EXCEPT ![d] = "failed"] /\ published' = published
        BY <1>2, <2>1
    <2>3. docs[d].status # "absent"
        BY <1>4 DEF Cancels, Fails, IInv, DocInv, DocOK
    <2>4. Lifecycle!Fail(d)
        BY <1>4, <2>2, <2>3 DEF Cancels, Fails, Lifecycle!Fail
    <2>5. QED
        BY <2>4 DEF Lifecycle!Next
<1>5. CASE Claims(d)
    <2> DEFINE item == [docs[d] EXCEPT !.status = "processing"]
    <2>1. /\ docs' = [docs EXCEPT ![d] = item]
          /\ item.status = "processing" /\ item.percent = docs[d].percent
        BY <1>1, <1>5 DEF Claims, SetsItem, Item
    <2> HIDE DEF item
    <2>2. status' = [status EXCEPT ![d] = "processing"] /\ published' = published
        BY <1>2, <2>1
    <2>3. Lifecycle!Claim(d)
        BY <1>5, <2>2 DEF Claims, Lifecycle!Claim
    <2>4. QED
        BY <2>3 DEF Lifecycle!Next
<1>6. CASE Progresses(d)
    <2>1. PICK s \in Stages, p \in Nat :
            /\ docs[d].percent <= p /\ p <= 95
            /\ docs' = [docs EXCEPT ![d] = [docs[d] EXCEPT !.stage = s, !.percent = p]]
        BY <1>6 DEF Progresses, SetsItem
    <2>2. status' = [status EXCEPT ![d] = docs[d].status] /\ published' = published
        BY <1>1, <1>2, <2>1 DEF Item
    <2>3. status' = status
        BY <2>2
    <2>4. QED
        BY <1>6, <2>2, <2>3 DEF Progresses, Lifecycle!vars
<1>7. CASE Stores(d)
    <2>1. status' = status /\ published' = published /\ d \notin published
        BY <1>1, <1>7 DEF Stores
    <2>2. Lifecycle!Append(d)
        BY <1>7, <2>1 DEF Stores, Lifecycle!Append
    <2>3. QED
        BY <2>2 DEF Lifecycle!Next
<1>8. CASE Publishes(d)
    <2>1. PICK n \in 0..MaxChunks : /\ chunks[d] = 0..(n - 1)
                                    /\ docs' = [docs EXCEPT ![d] = ReadyItem(docs[d], n)]
        BY <1>8 DEF Publishes, SetsItem
    <2>2. ReadyItem(docs[d], n).status = "ready" /\ ReadyItem(docs[d], n).percent = 100
        BY <1>1 DEF ReadyItem, Item
    <2>3. status' = [status EXCEPT ![d] = "ready"] /\ published' = published \cup {d}
        BY <1>2, <2>1, <2>2
    <2>4. d \notin published
        BY <1>1, <1>8 DEF Publishes
    <2>5. Lifecycle!Publish(d)
        BY <1>8, <2>1, <2>3, <2>4 DEF Publishes, Lifecycle!Publish
    <2>6. QED
        BY <2>5 DEF Lifecycle!Next
<1>9. QED
    BY <1>3, <1>4, <1>5, <1>6, <1>7, <1>8 DEF Effect

\* Every step maps to a step of DocumentLifecycle or to a stutter.
LEMMA StepRefines == IInv /\ [Next]_vars => [Lifecycle!Next]_(Lifecycle!vars)
<1> SUFFICES ASSUME IInv, [Next]_vars PROVE [Lifecycle!Next]_(Lifecycle!vars)
    OBVIOUS
<1>1. CASE UNCHANGED <<docs, chunks, claimed>>
    BY <1>1 DEF Lifecycle!vars
<1>2. CASE \E d \in Docs : Effect(d)
    BY <1>2, EffectRefines
<1>3. QED
    BY <1>1, <1>2, StepEffect

\* The worker, with retries, duplicates, crashes and lost answers, and the API's
\* routes implement the document life cycle: one claim, rows in order, one
\* publication with all rows, no row after it.
THEOREM ImplementsLifecycle == Spec => LifecycleSpec
<1>1. QED
    BY InitRefines, StepRefines, Invariance, PTL
    DEF Spec, LifecycleSpec, Lifecycle!Spec

-----------------------------------------------------------------------------
(* An execution only moves towards its end *)

\* What a step may do to the jobs.
JobsAdvance ==
    \A w \in Workers :
        job[w].pc # "idle" /\ job'[w] # job[w] =>
            StepsLeft(job'[w]) \in 0..(StepsLeft(job[w]) - 1)

\* A stage is worth as many steps as it may take, on top of the stages after it.
LEMMA StageWorth ==
    ASSUME NEW s \in JobStages
    PROVE  /\ StageSteps \in Nat /\ StageSteps >= 3
           /\ StagesLeft[s] * StageSteps \in Nat
           /\ StagesLeft[s] * StageSteps <= 5 * StageSteps
           /\ s # "done" =>
                StagesLeft[s] * StageSteps = StagesLeft[NextStage[s]] * StageSteps + StageSteps
<1>1. StageSteps \in Nat /\ StageSteps >= 3
    BY MaxChunksAssumption DEF StageSteps
<1>2. /\ s = "reading" => StagesLeft[s] = 5 /\ StagesLeft[NextStage[s]] = 4
      /\ s = "parsing" => StagesLeft[s] = 4 /\ StagesLeft[NextStage[s]] = 3
      /\ s = "chunking" => StagesLeft[s] = 3 /\ StagesLeft[NextStage[s]] = 2
      /\ s = "embedding" => StagesLeft[s] = 2 /\ StagesLeft[NextStage[s]] = 1
      /\ s = "storing" => StagesLeft[s] = 1 /\ StagesLeft[NextStage[s]] = 0
      /\ s = "done" => StagesLeft[s] = 0
    BY DEF StagesLeft, NextStage
<1>3. ASSUME NEW n \in Nat
      PROVE  5 * n = 4 * n + n /\ 4 * n = 3 * n + n /\ 3 * n = 2 * n + n
             /\ 2 * n = 1 * n + n /\ 1 * n = 0 * n + n
             /\ 5 * n \in Nat /\ 4 * n \in Nat /\ 3 * n \in Nat /\ 2 * n \in Nat
             /\ 1 * n \in Nat /\ 0 * n \in Nat
             /\ 4 * n <= 5 * n /\ 3 * n <= 5 * n /\ 2 * n <= 5 * n
             /\ 1 * n <= 5 * n /\ 0 * n <= 5 * n
    OBVIOUS
<1>4. QED
    BY <1>1, <1>2, <1>3 DEF JobStages

\* What is left of a job between its claim and its end.
LEMMA StepsOfWork ==
    ASSUME NEW j \in Job, JobOK(j), j.pc \in {"report", "work", "check"},
           j.stage \in Loops => j.done <= j.total
    PROVE  /\ j.stage \in JobStages
           /\ StepsLeft(j) = 3 + StagesLeft[j.stage] * StageSteps + StageStepsLeft(j)
           /\ StageStepsLeft(j) \in 0..(StageSteps - 1)
           /\ StepsLeft(j) \in 3..(2 + 6 * StageSteps)
<1>1. j.stage \in JobStages
    BY DEF JobOK, Working
<1>2. StepsLeft(j) = 3 + StagesLeft[j.stage] * StageSteps + StageStepsLeft(j)
    BY DEF StepsLeft
<1>3. StageStepsLeft(j) \in 0..(StageSteps - 1)
    <2>1. /\ j.done \in Nat /\ j.total \in Nat /\ j.total <= MaxChunks /\ MaxChunks \in Nat
          /\ j.stage \in Loops => j.done <= MaxChunks
        BY MaxChunksAssumption DEF Job, JobOK
    <2>2. QED
        BY <2>1 DEF StageStepsLeft, StageSteps
<1>4. QED
    BY <1>1, <1>2, <1>3, StageWorth

\* What is left of one outside its try block, or failed.
LEMMA StepsOfRest ==
    ASSUME NEW j
    PROVE  /\ j.pc = "idle" => StepsLeft(j) = 0
           /\ j.pc \in {"returned", "raised"} => StepsLeft(j) = 1
           /\ j.pc = "fail" => StepsLeft(j) = 2
           /\ j.pc = "claim" => StepsLeft(j) = 3 + 6 * StageSteps
           /\ j.pc = "load" => StepsLeft(j) = 4 + 6 * StageSteps
    BY DEF StepsLeft

\* One job moves, and the others do not.
LEMMA OneJobAdvances ==
    ASSUME IInv, NEW w \in Workers, NEW k,
           job' = [job EXCEPT ![w] = k],
           job[w].pc # "idle" => StepsLeft(k) \in 0..(StepsLeft(job[w]) - 1)
    PROVE  JobsAdvance
<1>1. \A v \in Workers : job'[v] = IF v = w THEN k ELSE job[v]
    BY DEF IInv, TypeOK
<1>2. QED
    BY <1>1 DEF JobsAdvance

\* A job that fails or ends is done with its calls.
LEMMA EndAdvances ==
    ASSUME IInv, NEW w \in Workers, NEW k,
           job' = [job EXCEPT ![w] = k],
           \/ k.pc = "idle" /\ job[w].pc # "idle"
           \/ k.pc \in {"returned", "raised"} /\ job[w].pc \in PCs \ {"idle", "returned", "raised"}
           \/ k.pc = "fail" /\ job[w].pc \in {"report", "work", "check"}
    PROVE  JobsAdvance
<1>1. job[w].pc # "idle"
    OBVIOUS
<1>2. /\ job[w] \in Job /\ JobOK(job[w]) /\ job[w].pc \in PCs
      /\ Working(job[w]) => (job[w].stage \in Loops => job[w].done <= job[w].total)
    BY <1>1, BusyJob DEF Holds, Job
<1>3. StageSteps \in Nat
    BY MaxChunksAssumption DEF StageSteps
<1>4. job[w].pc \in {"report", "work", "check"} => StepsLeft(job[w]) \in 3..(2 + 6 * StageSteps)
    BY <1>2, StepsOfWork DEF Working
<1>5. StepsLeft(k) \in 0..(StepsLeft(job[w]) - 1)
    <2>1. CASE k.pc = "idle" /\ job[w].pc # "idle"
        <3>1. StepsLeft(job[w]) \in Nat \ {0}
            BY <1>2, <1>3, <1>4, <2>1, StepsOfRest DEF PCs
        <3>2. QED
            BY <2>1, <3>1, StepsOfRest
    <2>2. CASE /\ k.pc \in {"returned", "raised"}
               /\ job[w].pc \in PCs \ {"idle", "returned", "raised"}
        <3>1. StepsLeft(job[w]) \in Nat \ {0, 1}
            BY <1>3, <1>4, <2>2, StepsOfRest DEF PCs
        <3>2. QED
            BY <2>2, <3>1, StepsOfRest
    <2>3. CASE k.pc = "fail" /\ job[w].pc \in {"report", "work", "check"}
        BY <1>3, <1>4, <2>3, StepsOfRest
    <2>4. QED
        BY <2>1, <2>2, <2>3
<1>6. QED
    BY <1>5, OneJobAdvances

\* The calls before the claim and the claim itself.
LEMMA ClaimAdvances ==
    ASSUME IInv, NEW w \in Workers, Load(w) \/ Claim(w)
    PROVE  JobsAdvance
<1>1. job[w].pc \in {"load", "claim"} /\ job[w] \in Job /\ JobOK(job[w])
    BY BusyJob DEF Load, Claim
<1>2. StageSteps \in Nat
    BY MaxChunksAssumption DEF StageSteps
<1>3. CASE Load(w)
    <2>1. PICK k : /\ job' = [job EXCEPT ![w] = k]
                   /\ k.pc \in {"raised", "returned", "claim"} /\ job[w].pc = "load"
        <3>1. PICK pc \in {"raised", "returned", "claim"} :
                job' = [job EXCEPT ![w] = [job[w] EXCEPT !.pc = pc]]
            BY <1>3 DEF Load
        <3>2. [job[w] EXCEPT !.pc = pc].pc = pc
            BY <1>1 DEF Job
        <3>3. QED
            BY <1>3, <3>1, <3>2 DEF Load
    <2>2. StepsLeft(k) \in 0..(StepsLeft(job[w]) - 1)
        BY <1>2, <2>1, StepsOfRest
    <2>3. QED
        BY <2>1, <2>2, OneJobAdvances
<1>4. CASE Claim(w)
    <2> DEFINE won == [job[w] EXCEPT !.pc = "report", !.stage = "reading"]
    <2> DEFINE lost == [job[w] EXCEPT !.pc = "returned"]
    <2>1. job[w].pc = "claim" /\ (job' = [job EXCEPT ![w] = won] \/ job' = [job EXCEPT ![w] = lost])
        BY <1>4 DEF Claim
    <2>2. lost.pc = "returned"
        BY <1>1 DEF Job
    <2>3. won \in Job /\ won.pc = "report" /\ won.stage = "reading" /\ won.doc = job[w].doc
          /\ won.total = job[w].total
        BY <1>1 DEF Job, PCs, Stages, JobStages
    <2> HIDE DEF won
    <2>4. StepsLeft(won) \in 3..(2 + 6 * StageSteps)
        <3>1. JobOK(won)
            BY <1>1, <2>3 DEF JobOK, Working, JobStages
        <3>2. QED
            BY <2>3, <3>1, <1>2, StepsOfWork DEF Loops
    <2>5. CASE job' = [job EXCEPT ![w] = won]
        <3>1. StepsLeft(won) \in 0..(StepsLeft(job[w]) - 1)
            BY <1>2, <2>1, <2>4, StepsOfRest
        <3>2. QED
            BY <2>5, <3>1, OneJobAdvances
    <2>6. CASE job' = [job EXCEPT ![w] = lost]
        BY <2>1, <2>2, <2>6, EndAdvances DEF PCs
    <2>7. QED
        BY <2>1, <2>5, <2>6
<1>5. QED
    BY <1>3, <1>4

\* A progress update leads to the work of its stage, or in a loop to the check.
LEMMA ReportAdvances ==
    ASSUME IInv, NEW w \in Workers, ReportProgress(w) PROVE JobsAdvance
<1> DEFINE j == job[w]
<1> DEFINE k == [j EXCEPT !.pc = IF j.stage \in Loops THEN "check" ELSE "work"]
<1>1. /\ j.pc = "report" /\ j \in Job /\ JobOK(j)
      /\ j.stage \in Loops => j.done <= j.total
    BY BusyJob DEF ReportProgress, Working, Holds
<1>2. k \in Job /\ k.stage = j.stage /\ k.done = j.done /\ k.total = j.total /\ k.doc = j.doc
    BY <1>1 DEF Job, PCs
<1>3. k.pc = IF j.stage \in Loops THEN "check" ELSE "work"
    BY <1>1 DEF Job
<1>4. job' = [job EXCEPT ![w] = k]
    BY DEF ReportProgress
<1> HIDE DEF k
<1>5. JobOK(k) /\ k.pc \in {"report", "work", "check"}
    BY <1>1, <1>2, <1>3 DEF JobOK, Working
<1>6. StageStepsLeft(k) = StageStepsLeft(j) - 1
    BY <1>1, <1>2, <1>3, MaxChunksAssumption DEF StageStepsLeft, Job
<1>7. /\ StepsLeft(j) = 3 + StagesLeft[j.stage] * StageSteps + StageStepsLeft(j)
      /\ StageStepsLeft(j) \in 0..(StageSteps - 1)
      /\ StepsLeft(k) = 3 + StagesLeft[j.stage] * StageSteps + StageStepsLeft(k)
      /\ StageStepsLeft(k) \in 0..(StageSteps - 1)
      /\ StagesLeft[j.stage] * StageSteps \in Nat /\ StageSteps \in Nat
    BY <1>1, <1>2, <1>5, StepsOfWork, StageWorth
<1>8. StepsLeft(k) \in 0..(StepsLeft(j) - 1)
    BY <1>6, <1>7
<1>9. QED
    BY <1>4, <1>8, OneJobAdvances

\* Two jobs in the same stage, one further than the other.
LEMMA WithinStage ==
    ASSUME NEW j \in Job, NEW k \in Job, JobOK(j), JobOK(k), k.stage = j.stage,
           j.pc \in {"report", "work", "check"}, k.pc \in {"report", "work", "check"},
           j.stage \in Loops => j.done <= j.total,
           k.stage \in Loops => k.done <= k.total,
           StageStepsLeft(k) < StageStepsLeft(j)
    PROVE  StepsLeft(k) \in 0..(StepsLeft(j) - 1)
<1>1. /\ StepsLeft(j) = 3 + StagesLeft[j.stage] * StageSteps + StageStepsLeft(j)
      /\ StageStepsLeft(j) \in 0..(StageSteps - 1)
      /\ StepsLeft(k) = 3 + StagesLeft[j.stage] * StageSteps + StageStepsLeft(k)
      /\ StageStepsLeft(k) \in 0..(StageSteps - 1)
      /\ StagesLeft[j.stage] * StageSteps \in Nat /\ StageSteps \in Nat
    BY StepsOfWork, StageWorth
<1>2. QED
    BY <1>1

\* The work of one stage without chunks, and of one chunk.
LEMMA WorkAdvances ==
    ASSUME IInv, NEW w \in Workers,
           ExtractText(w) \/ ChunkText(w) \/ EmbedChunk(w) \/ StoreChunk(w)
    PROVE  JobsAdvance
<1> DEFINE j == job[w]
<1>1. /\ j.pc = "work" /\ j \in Job /\ JobOK(j)
      /\ j.stage \in Loops => j.done < j.total /\ j.done <= j.total
    BY BusyJob DEF ExtractText, ChunkText, EmbedChunk, StoreChunk, Working, Holds
<1>2. CASE ExtractText(w) \/ ChunkText(w)
    <2>1. PICK n \in 0..MaxChunks :
            job' = [job EXCEPT ![w] = [j EXCEPT !.pc = "check", !.total = n]]
        <3>1. CASE ExtractText(w)
            <4>1. j.total \in 0..MaxChunks
                BY <1>1 DEF JobOK
            <4>2. [j EXCEPT !.pc = "check"] = [j EXCEPT !.pc = "check", !.total = j.total]
                BY <1>1 DEF Job
            <4>3. job' = [job EXCEPT ![w] = [j EXCEPT !.pc = "check"]]
                BY <3>1 DEF ExtractText
            <4>4. QED
                BY <4>1, <4>2, <4>3
        <3>2. CASE ChunkText(w)
            BY <3>2 DEF ChunkText, IInv, TypeOK
        <3>3. QED
            BY <1>2, <3>1, <3>2
    <2> DEFINE k == [j EXCEPT !.pc = "check", !.total = n]
    <2>2. n \in Nat /\ j.stage \notin Loops
        BY <1>2, MaxChunksAssumption DEF ExtractText, ChunkText, Loops
    <2>3. /\ k \in Job /\ k.pc = "check" /\ k.stage = j.stage /\ k.total = n /\ k.doc = j.doc
        BY <1>1, <2>2 DEF Job, PCs
    <2> HIDE DEF k
    <2>4. JobOK(k)
        <3>1. j.stage # "done"
            BY <1>2 DEF ExtractText, ChunkText
        <3>2. QED
            BY <1>1, <2>3, <3>1 DEF JobOK, Working
    <2>5. StageStepsLeft(k) < StageStepsLeft(j)
        BY <1>1, <2>2, <2>3 DEF StageStepsLeft
    <2>6. StepsLeft(k) \in 0..(StepsLeft(j) - 1)
        BY <1>1, <2>2, <2>3, <2>4, <2>5, WithinStage
    <2>7. QED
        BY <2>1, <2>6, OneJobAdvances DEF k
<1>3. CASE (EmbedChunk(w) \/ StoreChunk(w)) /\ job' = [job EXCEPT ![w] = AfterChunk(j)]
    <2> DEFINE k == AfterChunk(j)
    <2>1. j.stage \in Loops
        BY <1>3 DEF EmbedChunk, StoreChunk, Loops
    <2>2. /\ k \in Job /\ JobOK(k) /\ k.pc \in {"report", "check"}
          /\ k.stage = j.stage /\ k.total = j.total
          /\ k.done = j.done + 1 /\ k.done <= k.total
        BY <1>1, <2>1, AfterChunkTyped
    <2> HIDE DEF k
    <2>3. StageStepsLeft(k) < StageStepsLeft(j)
        BY <1>1, <2>1, <2>2, MaxChunksAssumption DEF StageStepsLeft, Job
    <2>4. StepsLeft(k) \in 0..(StepsLeft(j) - 1)
        BY <1>1, <2>1, <2>2, <2>3, WithinStage
    <2>5. QED
        BY <1>3, <2>4, OneJobAdvances DEF k
<1>4. CASE StoreChunk(w) /\ job' = [job EXCEPT ![w].pc = "fail"]
    <2>1. [j EXCEPT !.pc = "fail"].pc = "fail" /\ job' = [job EXCEPT ![w] = [j EXCEPT !.pc = "fail"]]
        BY <1>1, <1>4 DEF Job
    <2>2. QED
        BY <1>1, <2>1, EndAdvances
<1>5. QED
    BY <1>2, <1>3, <1>4 DEF EmbedChunk, StoreChunk

\* A check that sees no cancel leads to the next chunk or to the next stage.
LEMMA CheckAdvances ==
    ASSUME IInv, NEW w \in Workers, CheckCanceled(w) PROVE JobsAdvance
<1> DEFINE j == job[w]
<1>1. /\ j.pc = "check" /\ j \in Job /\ JobOK(j)
      /\ j.stage \in Loops => j.done <= j.total
    BY BusyJob DEF CheckCanceled, Working, Holds
<1>2. CASE job' = [job EXCEPT ![w] = Resume(j)]
    <2> DEFINE k == Resume(j)
    <2>1. /\ k \in Job /\ JobOK(k) /\ k.total = j.total
          /\ \/ /\ k.pc = "work" /\ k.stage = j.stage /\ k.done = j.done
                /\ j.stage \in Loops /\ j.done < j.total
             \/ /\ k.pc = IF k.stage = "done" THEN "work" ELSE "report"
                /\ k.done = 0
                /\ j.stage # "done" /\ k.stage = NextStage[j.stage]
        BY <1>1, ResumeTyped
    <2> HIDE DEF k
    <2>2. CASE /\ k.pc = "work" /\ k.stage = j.stage /\ k.done = j.done
               /\ j.stage \in Loops /\ j.done < j.total
        <3>1. StageStepsLeft(k) < StageStepsLeft(j)
            BY <1>1, <2>2, MaxChunksAssumption DEF StageStepsLeft, Job
        <3>2. StepsLeft(k) \in 0..(StepsLeft(j) - 1)
            BY <1>1, <2>1, <2>2, <3>1, WithinStage
        <3>3. QED
            BY <1>2, <3>2, OneJobAdvances DEF k
    <2>3. CASE /\ k.pc = IF k.stage = "done" THEN "work" ELSE "report"
               /\ k.done = 0
               /\ j.stage # "done" /\ k.stage = NextStage[j.stage]
        <3>1. k.done <= k.total
            BY <2>1, <2>3 DEF Job
        <3>2. /\ StepsLeft(j) = 3 + StagesLeft[j.stage] * StageSteps + StageStepsLeft(j)
              /\ StageStepsLeft(j) \in 0..(StageSteps - 1) /\ j.stage \in JobStages
            BY <1>1, StepsOfWork
        <3>3. /\ StepsLeft(k) = 3 + StagesLeft[k.stage] * StageSteps + StageStepsLeft(k)
              /\ StageStepsLeft(k) \in 0..(StageSteps - 1) /\ k.stage \in JobStages
            BY <2>1, <2>3, <3>1, StepsOfWork
        <3>4. /\ StagesLeft[j.stage] * StageSteps = StagesLeft[k.stage] * StageSteps + StageSteps
              /\ StagesLeft[k.stage] * StageSteps \in Nat
              /\ StagesLeft[j.stage] * StageSteps \in Nat /\ StageSteps \in Nat
            BY <2>3, <3>2, <3>3, StageWorth
        <3>5. StepsLeft(k) \in 0..(StepsLeft(j) - 1)
            BY <3>2, <3>3, <3>4
        <3>6. QED
            BY <1>2, <3>5, OneJobAdvances DEF k
    <2>4. QED
        BY <2>1, <2>2, <2>3
<1>3. CASE job' = [job EXCEPT ![w] = [j EXCEPT !.pc = "returned"]]
    <2>1. [j EXCEPT !.pc = "returned"].pc = "returned"
        BY <1>1 DEF Job
    <2>2. QED
        BY <1>1, <1>3, <2>1, EndAdvances DEF PCs
<1>4. QED
    BY <1>2, <1>3 DEF CheckCanceled

\* The steps that fail or end an execution, faults included.
LEMMA OverAdvances ==
    ASSUME IInv, NEW w \in Workers,
           \/ MarkReady(w) \/ Raise(w) \/ RecordFailure(w) \/ Finish(w) \/ Fault(w)
    PROVE  JobsAdvance
<1>1. job[w].pc # "idle" /\ job[w] \in Job /\ job[w].pc \in PCs
    BY BusyJob DEF MarkReady, Raise, RecordFailure, Finish, Fault, Reject, ClaimAnswerLost,
                   StoreAnswerLost, ReadyAnswerLost, FailureUnrecorded, Crash, Job
<1>2. CASE Finish(w) \/ Crash(w)
    <2>1. job' = [job EXCEPT ![w] = IdleJob] /\ IdleJob.pc = "idle"
        BY <1>2 DEF Finish, Crash, IdleJob
    <2>2. QED
        BY <1>1, <2>1, EndAdvances
<1>3. CASE \/ MarkReady(w) \/ RecordFailure(w) \/ Reject(w) \/ ClaimAnswerLost(w)
           \/ FailureUnrecorded(w)
    <2>1. PICK end \in {"returned", "raised"} :
            job' = [job EXCEPT ![w] = [job[w] EXCEPT !.pc = end]]
        BY <1>3 DEF MarkReady, RecordFailure, Reject, ClaimAnswerLost, FailureUnrecorded
    <2>2. [job[w] EXCEPT !.pc = end].pc = end
        BY <1>1 DEF Job
    <2>3. job[w].pc \in {"work", "fail", "load", "claim"}
        BY <1>3 DEF MarkReady, RecordFailure, Reject, ClaimAnswerLost, FailureUnrecorded
    <2>4. QED
        BY <2>1, <2>2, <2>3, EndAdvances DEF PCs
<1>4. CASE Raise(w) \/ StoreAnswerLost(w) \/ ReadyAnswerLost(w)
    <2>1. /\ job' = [job EXCEPT ![w] = [job[w] EXCEPT !.pc = "fail"]]
          /\ job[w].pc \in {"check", "work"}
        BY <1>4 DEF Raise, StoreAnswerLost, ReadyAnswerLost
    <2>2. [job[w] EXCEPT !.pc = "fail"].pc = "fail"
        BY <1>1 DEF Job
    <2>3. QED
        BY <2>1, <2>2, EndAdvances
<1>5. QED
    BY <1>2, <1>3, <1>4 DEF Fault

\* Every step of the pipeline.
LEMMA EveryStepAdvances == IInv /\ [Next]_vars => [JobsAdvance]_vars
<1> SUFFICES ASSUME IInv, Next PROVE JobsAdvance
    OBVIOUS
<1>1. ASSUME NEW d \in Docs, TableStep(d) PROVE JobsAdvance
    BY <1>1 DEF TableStep, CreateDocument, Upload, CancelDocument, Replicate, JobsAdvance
<1>2. ASSUME NEW w \in Workers, NEW d \in Docs, Deliver(w, d) PROVE JobsAdvance
    BY <1>2, OneJobAdvances DEF Deliver
<1>3. ASSUME NEW w \in Workers, WorkerStep(w) PROVE JobsAdvance
    BY <1>3, ClaimAdvances, ReportAdvances, CheckAdvances, WorkAdvances, OverAdvances
    DEF WorkerStep
<1>4. ASSUME NEW w \in Workers, Fault(w) PROVE JobsAdvance
    BY <1>4, OverAdvances
<1>5. QED
    BY <1>1, <1>2, <1>3, <1>4 DEF Next, FaultFreeNext

\* An execution of process_record only moves towards its end, whatever fails, is
\* lost or is canceled: it makes at most StepsLeft(StartJob(d)) calls.  With the
\* scheduling that lets it take its next step, this is why documents settle.
THEOREM ExecutionsAreBounded == Spec => ExecutionAdvances
<1>1. IInv /\ [Next]_vars =>
        [\A w \in Workers :
            job[w].pc # "idle" /\ job'[w] # job[w] =>
                StepsLeft(job'[w]) \in 0..(StepsLeft(job[w]) - 1)]_vars
    BY EveryStepAdvances DEF JobsAdvance
<1>2. QED
    BY <1>1, Invariance, PTL DEF Spec, ExecutionAdvances
=============================================================================
