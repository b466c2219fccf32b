----------------------------- MODULE LocalServer -----------------------------
(***************************************************************************)
(* POST /documents/{id}/ingest of the local API server: one HTTP thread per *)
(* request starts a daemon thread that runs process_record, at most one for *)
(* a document, under _ingestion_lock.  The server works on the deployed     *)
(* tables and bucket, so the deployed Lambda's executions of Ingestion.tla  *)
(* go on beside it.                                                         *)
(***************************************************************************)
EXTENDS Ingestion

CONSTANTS
    LocalThreads,  \* executions that are threads of the local server
    Requests,      \* requests to ingest a document
    MaxFaults      \* bound on the faults of one behaviour

ASSUME LocalAssumption ==
    /\ LocalThreads \subseteq Workers
    /\ None \notin Workers \cup Requests
    /\ MaxFaults \in Nat

VARIABLES
    req,         \* where each request is, and the document it names
    lock,        \* _ingestion_lock: the request that holds it
    registered,  \* _ingestion_threads
    up,          \* whether the server's process runs
    faults,      \* faults so far
    stranded     \* history: documents whose claim died with its holder

serverVars == <<req, lock, registered, up>>
history    == <<faults, stranded>>
lvars      == <<vars, serverVars, history>>

-----------------------------------------------------------------------------

\* What a request does next ("looking up" and "starting" hold the lock); "over"
\* is answered with 202 or 404, or the connection closed without an answer.
Places == {"new", "waiting", "looking up", "starting", "over"}

LocalTypeOK ==
    /\ TypeOK
    /\ req \in [Requests -> [at : Places, doc : Docs \cup {None}]]
    /\ lock \in Requests \cup {None}
    /\ registered \in [Docs -> LocalThreads \cup {None}]
    /\ up \in BOOLEAN /\ faults \in 0..MaxFaults /\ stranded \subseteq Docs
    /\ \A r \in Requests : (req[r].at = "new") = (req[r].doc = None)

LocalInit ==
    /\ Init
    /\ req = [r \in Requests |-> [at |-> "new", doc |-> None]]
    /\ lock = None
    /\ registered = [d \in Docs |-> None]
    /\ up = TRUE
    /\ faults = 0 /\ stranded = {}

\* The registered thread of a document is_alive: a thread has one document and
\* ends with it.
Alive(d) == \E t \in LocalThreads : registered[d] = t /\ job[t].doc = d

\* Requests and threads differ in nothing but their names: the next of either is
\* one of those that are free.
NextRequest == CHOOSE r \in Requests : req[r].at = "new"
NextThread  == CHOOSE t \in LocalThreads : job[t] = IdleJob

Goes(r, place) == req' = [req EXCEPT ![r].at = place]

-----------------------------------------------------------------------------
(* A request *)

\* The document is read without ConsistentRead.  Missing is 404, and an error
\* closes the connection; else the request waits for the lock.
Post(r, d) ==
    /\ up /\ req[r].at = "new" /\ r = NextRequest
    /\ \E next \in {"waiting", "over"} :
        /\ next = "waiting" => \E seen \in Reads(d) : seen.status # "absent"
        /\ req' = [req EXCEPT ![r] = [at |-> next, doc |-> d]]
    /\ UNCHANGED <<vars, lock, registered, up, history>>

\* Mutant of TakeLock: the dictionary is used without the lock.
TakeNoLock(r) ==
    /\ req[r].at = "waiting"
    /\ Goes(r, "looking up")
    /\ UNCHANGED <<vars, lock, registered, up, history>>

TakeLock(r) ==
    /\ req[r].at = "waiting" /\ lock = None
    /\ lock' = r
    /\ Goes(r, "looking up")
    /\ UNCHANGED <<vars, registered, up, history>>

\* Mutant of FindThread: acquire() with no release on the early return.
FindThreadKeepingLock(r) ==
    /\ req[r].at = "looking up"
    /\ Goes(r, IF Alive(req[r].doc) THEN "over" ELSE "starting")
    /\ UNCHANGED <<vars, lock, registered, up, history>>

\* A thread that is alive is left alone: 202 is written under the lock.
FindThread(r) ==
    /\ req[r].at = "looking up"
    /\ IF Alive(req[r].doc)
       THEN Goes(r, "over") /\ lock' = None
       ELSE Goes(r, "starting") /\ UNCHANGED lock
    /\ UNCHANGED <<vars, registered, up, history>>

\* A new thread is registered and started, the lock is released, 202 is written.
StartThread(r) ==
    /\ req[r].at = "starting"
    /\ \E t \in LocalThreads :
        /\ Deliver(t, req[r].doc) /\ t = NextThread
        /\ registered' = [registered EXCEPT ![req[r].doc] = t]
    /\ lock' = None
    /\ Goes(r, "over")
    /\ UNCHANGED <<up, history>>

\* The thread is registered but cannot be started: it is never alive.
StartFails(r) ==
    /\ req[r].at = "starting"
    /\ Goes(r, "over")
    /\ registered' = [registered EXCEPT ![req[r].doc] = None]
    /\ lock' = None
    /\ UNCHANGED <<vars, up, history>>

RequestStep(r) ==
    TakeLock(r) \/ FindThread(r) \/ StartThread(r) \/ StartFails(r)

-----------------------------------------------------------------------------
(* The executions and the table *)

\* The deployed Lambda receives the message of an upload.
LambdaDeliver(d) ==
    /\ d \in objects
    /\ \E w \in Workers \ LocalThreads : Deliver(w, d)
    /\ UNCHANGED <<serverVars, history>>

Execution(w) ==
    /\ w \in LocalThreads => up
    /\ WorkerStep(w)
    /\ UNCHANGED <<serverVars, history>>

Table(d) ==
    /\ TableStep(d)
    /\ UNCHANGED <<serverVars, history>>

-----------------------------------------------------------------------------
(* Faults *)

CountFault == faults < MaxFaults /\ faults' = faults + 1

\* The document of execution w is left without its holder.
Strand(w) == stranded' = stranded \cup {job[w].doc}

\* Nothing was claimed, or the except clause will still record the failure.
HarmlessFault(w) ==
    /\ w \in LocalThreads => up
    /\ CountFault
    /\ Reject(w) \/ StoreAnswerLost(w) \/ ReadyAnswerLost(w)
    /\ UNCHANGED <<serverVars, stranded>>

\* The claim, or the record of the failure, is lost.
StrandingFault(w) ==
    /\ w \in LocalThreads => up
    /\ CountFault
    /\ ClaimAnswerLost(w) \/ FailureUnrecorded(w)
    /\ Strand(w)
    /\ UNCHANGED serverVars

\* Execution w is in chunk_text, which may never return (Chunking.tla).
InChunkText(w) == job[w].pc = "work" /\ job[w].stage = "chunking"

\* A Lambda execution is killed; one in chunk_text by its timeout, which is no
\* fault to be counted.
LambdaDies(w) ==
    /\ w \notin LocalThreads
    /\ IF InChunkText(w) THEN UNCHANGED faults ELSE CountFault
    /\ Crash(w)
    /\ IF Active(w) THEN Strand(w) ELSE UNCHANGED stranded
    /\ UNCHANGED serverVars

\* The process ends, and with it its requests, its lock, its registry ...
StopServer ==
    /\ up /\ CountFault
    /\ up' = FALSE
    /\ req' = [r \in Requests |->
                  [req[r] EXCEPT !.at = IF @ = "new" THEN @ ELSE "over"]]
    /\ lock' = None
    /\ registered' = [d \in Docs |-> None]
    /\ stranded' = stranded \cup {job[t].doc : t \in {s \in LocalThreads : Active(s)}}
    /\ UNCHANGED vars

\* ... and its daemon threads, which make no step any more.
ThreadDies(t) ==
    /\ t \in LocalThreads /\ ~up
    /\ Crash(t)
    /\ UNCHANGED <<serverVars, history>>

RestartServer ==
    /\ ~up
    /\ \A t \in LocalThreads : job[t] = IdleJob
    /\ up' = TRUE
    /\ UNCHANGED <<vars, req, lock, registered, history>>

-----------------------------------------------------------------------------

LocalNext ==
    \/ \E r \in Requests : RequestStep(r) \/ (\E d \in Docs : Post(r, d))
    \/ \E d \in Docs : LambdaDeliver(d) \/ Table(d)
    \/ \E w \in Workers : \/ Execution(w) \/ HarmlessFault(w) \/ StrandingFault(w)
                          \/ LambdaDies(w) \/ ThreadDies(w)
    \/ StopServer \/ RestartServer

\* A request in the server goes on, as does an execution, but for a thread in
\* chunk_text, which has no timeout to end it; copies of an item converge; the
\* queue offers the message of an uploaded document again while it is pending
\* (MaxFaults below the queue's three receives is what that takes).
LocalFairness ==
    /\ \A r \in Requests : WF_lvars(RequestStep(r))
    /\ \A w \in Workers \ LocalThreads : WF_lvars(Execution(w))
    /\ \A t \in LocalThreads : WF_lvars(~InChunkText(t) /\ Execution(t))
    /\ \A d \in Docs :
        /\ WF_lvars(Replicate(d) /\ UNCHANGED <<serverVars, history>>)
        /\ SF_lvars(docs[d].status = "pending" /\ LambdaDeliver(d))

LocalSpec == LocalInit /\ [][LocalNext]_lvars /\ LocalFairness

-----------------------------------------------------------------------------
(* Properties *)

\* However requests interleave, and after any restart, at most one thread of
\* the server is at work on a document (local_server.py:134-143).
OneThreadPerDocument ==
    \A s, t \in LocalThreads :
        job[s].doc = job[t].doc /\ job[s].doc # None => s = t

\* The lock is held by the one request between its lookup and its answer, however
\* that request leaves the with block, and by nobody else (local_server.py:134).
LockIsHeld ==
    \A r \in Requests : lock = r <=> req[r].at \in {"looking up", "starting"}

\* A document that says it is processing has an execution that will settle it,
\* unless its claim was lost with its holder: process_record leaves no other way
\* to strand a document (worker.py:111-291).
ProcessingIsDriven ==
    \A d \in Docs :
        docs[d].status = "processing" =>
            d \in stranded \/ \E w \in Workers : Active(w) /\ job[w].doc = d

\* Every request comes to its end and leaves the lock free, whichever way it
\* leaves the with block (there are finitely many requests).
RequestsEnd ==
    <>[](lock = None /\ \A r \in Requests : req[r].at \in {"new", "over"})

\* A thread of the server is at chunk_text for document d.
LocallyChunked(d) == \E t \in LocalThreads : job[t].doc = d /\ InChunkText(t)

\* Every uploaded document is settled in the end and stays so, however deliveries,
\* threads, cancels and faults interleave (worker.py:98-291), unless it is stranded
\* or a local thread never comes back from chunk_text (chunking.py:19-30): a Lambda
\* that loops there is killed, and strands it.
EventuallySettled ==
    \A d \in Docs :
        d \in objects ~>
            [](\/ docs[d].status \in {"ready", "failed"}
               \/ d \in stranded
               \/ LocallyChunked(d))
=============================================================================
