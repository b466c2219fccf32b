-------------------------- MODULE LocalServerProofs --------------------------
(***************************************************************************)
(* Proofs about LocalServer.tla.  Every step of the server is a step of     *)
(* Ingestion.tla or leaves its variables alone, so what IngestionProofs     *)
(* shows of the pipeline holds with the server too.  The lock, the registry *)
(* and the jobs then agree on who works on what, and a document that is     *)
(* processing always has somebody who will settle it or has been stranded.  *)
(***************************************************************************)
EXTENDS LocalServer, IngestionProofs

-----------------------------------------------------------------------------
(* The server is a part of the pipeline *)

\* A request past its arrival names a document.
LEMMA NamesDocument ==
    ASSUME LocalTypeOK, NEW r \in Requests, req[r].at # "new"
    PROVE  req[r].doc \in Docs
    BY DEF LocalTypeOK

\* Every step of the server, of its threads and of its faults is a step of the
\* pipeline or changes nothing of it.
LEMMA ServerStepRefines == LocalTypeOK /\ [LocalNext]_lvars => [Next]_vars
<1> SUFFICES ASSUME LocalTypeOK, [LocalNext]_lvars PROVE [Next]_vars
    OBVIOUS
<1>1. ASSUME NEW r \in Requests, RequestStep(r) \/ \E d \in Docs : Post(r, d)
      PROVE  [Next]_vars
    <2>1. CASE TakeLock(r) \/ FindThread(r) \/ StartFails(r) \/ \E d \in Docs : Post(r, d)
        BY <2>1 DEF TakeLock, FindThread, StartFails, Post
    <2>2. CASE StartThread(r)
        <3>1. PICK t \in LocalThreads : Deliver(t, req[r].doc)
            BY <2>2 DEF StartThread
        <3>2. req[r].doc \in Docs /\ t \in Workers
            BY <2>2, NamesDocument, LocalAssumption DEF StartThread
        <3>3. QED
            BY <3>1, <3>2 DEF Next, FaultFreeNext
    <2>3. QED
        BY <1>1, <2>1, <2>2 DEF RequestStep
<1>2. ASSUME NEW d \in Docs, LambdaDeliver(d) \/ Table(d) PROVE [Next]_vars
    BY <1>2 DEF LambdaDeliver, Table, Next, FaultFreeNext
<1>3. ASSUME NEW w \in Workers, Execution(w) PROVE [Next]_vars
    BY <1>3 DEF Execution, Next, FaultFreeNext
<1>4. ASSUME NEW w \in Workers,
             HarmlessFault(w) \/ StrandingFault(w) \/ LambdaDies(w) \/ ThreadDies(w)
      PROVE  [Next]_vars
    BY <1>4 DEF HarmlessFault, StrandingFault, LambdaDies, ThreadDies, Next, Fault
<1>5. CASE StopServer \/ RestartServer \/ UNCHANGED lvars
    BY <1>5 DEF StopServer, RestartServer, lvars
<1>6. QED
    BY <1>1, <1>2, <1>3, <1>4, <1>5 DEF LocalNext

-----------------------------------------------------------------------------
(* The lock, the registry and the threads *)

\* Nobody works for a document whose thread is about to be started.
Cleared ==
    \A r \in Requests : req[r].at = "starting" =>
        \A t \in LocalThreads : job[t].doc # req[r].doc

\* While the server is up its registry knows every thread at work; while it is
\* down no request and no lock is left, and its threads never work again.
Registry ==
    IF up
    THEN \A t \in LocalThreads : job[t].doc # None => registered[job[t].doc] = t
    ELSE lock = None /\ \A r \in Requests : req[r].at \in {"new", "over"}

ThreadInv ==
    LocalTypeOK /\ LockIsHeld /\ Cleared /\ Registry /\ OneThreadPerDocument

\* Nothing has been asked of the server yet.
LEMMA ThreadInvInit == LocalInit => ThreadInv
<1> SUFFICES ASSUME LocalInit PROVE ThreadInv
    OBVIOUS
<1>1. \A w \in Workers : job[w].doc = None
    BY DEF LocalInit, Init, IdleJob
<1>2. TypeOK
    BY InitInvariant DEF LocalInit, IInv
<1>3. LocalTypeOK
    BY <1>2, LocalAssumption, NoneAssumption DEF LocalInit, LocalTypeOK, Places
<1>4. QED
    BY <1>1, <1>3, LocalAssumption
    DEF LocalInit, ThreadInv, LockIsHeld, Cleared, Registry, OneThreadPerDocument

Request == [at : Places, doc : Docs \cup {None}]

\* A request that goes to another place keeps its document.
LEMMA Moved ==
    ASSUME NEW q \in Request, NEW place \in Places
    PROVE  LET k == [q EXCEPT !.at = place] IN
           k \in Request /\ k.at = place /\ k.doc = q.doc
    BY DEF Request

\* The types of the server's own variables.
LEMMA ServerTypes ==
    ASSUME LocalTypeOK, LocalNext, TypeOK'
    PROVE  LocalTypeOK'
<1> USE LocalAssumption, NoneAssumption DEF LocalTypeOK
<1>1. ASSUME NEW r \in Requests, NEW d \in Docs, Post(r, d) PROVE LocalTypeOK'
    <2>1. PICK next \in {"waiting", "over"} :
            req' = [req EXCEPT ![r] = [at |-> next, doc |-> d]]
        BY <1>1 DEF Post
    <2>2. req' \in [Requests -> [at : Places, doc : Docs \cup {None}]]
        BY <2>1 DEF Places
    <2>3. \A s \in Requests : (req'[s].at = "new") = (req'[s].doc = None)
        BY <2>1
    <2>4. QED
        BY <1>1, <2>2, <2>3 DEF Post, history, vars
<1>2. ASSUME NEW r \in Requests, NEW place \in Places \ {"new"},
             Goes(r, place), req[r].at # "new",
             lock' \in {lock, r, None},
             \/ registered' = registered
             \/ \E t \in LocalThreads \cup {None} :
                    registered' = [registered EXCEPT ![req[r].doc] = t],
             UNCHANGED <<up, history>>
      PROVE  LocalTypeOK'
    <2>1. req' \in [Requests -> [at : Places, doc : Docs \cup {None}]]
          /\ \A s \in Requests : (req'[s].at = "new") = (req'[s].doc = None)
        <3> DEFINE k == [req[r] EXCEPT !.at = place]
        <3>1. k \in Request /\ k.at = place /\ k.doc = req[r].doc
            BY <1>2, Moved DEF Request
        <3>2. req' = [req EXCEPT ![r] = k]
            BY <1>2 DEF Goes
        <3> HIDE DEF k
        <3>3. \A s \in Requests : req'[s] = IF s = r THEN k ELSE req[s]
            BY <3>2
        <3>4. k.at # "new" /\ k.doc # None
            BY <1>2, <3>1
        <3>5. req' \in [Requests -> [at : Places, doc : Docs \cup {None}]]
            BY <3>1, <3>2 DEF Request
        <3>6. QED
            BY <3>3, <3>4, <3>5
    <2>2. registered' \in [Docs -> LocalThreads \cup {None}]
        BY <1>2
    <2>3. QED
        BY <1>2, <2>1, <2>2 DEF history
<1>3. ASSUME NEW r \in Requests, RequestStep(r) PROVE LocalTypeOK'
    <2>1. CASE TakeLock(r)
        BY <1>2, <2>1 DEF TakeLock, Places
    <2>2. CASE FindThread(r)
        BY <1>2, <2>2 DEF FindThread, Places
    <2>3. CASE StartThread(r)
        BY <1>2, <2>3 DEF StartThread, Places
    <2>4. CASE StartFails(r)
        BY <1>2, <2>4 DEF StartFails, Places
    <2>5. QED
        BY <1>3, <2>1, <2>2, <2>3, <2>4 DEF RequestStep
<1>4. ASSUME NEW d \in Docs, LambdaDeliver(d) \/ Table(d) PROVE LocalTypeOK'
    BY <1>4 DEF LambdaDeliver, Table, serverVars, history
<1>5. ASSUME NEW w \in Workers, Execution(w) \/ ThreadDies(w) PROVE LocalTypeOK'
    BY <1>5 DEF Execution, ThreadDies, serverVars, history
<1>6. ASSUME NEW w \in Workers, HarmlessFault(w) \/ StrandingFault(w) \/ LambdaDies(w)
      PROVE  LocalTypeOK'
    <2>1. UNCHANGED serverVars /\ faults' \in 0..MaxFaults
        BY <1>6 DEF HarmlessFault, StrandingFault, LambdaDies, CountFault
    <2>2. stranded' \subseteq Docs
        <3>1. stranded' = stranded \/ (Strand(w) /\ job[w].pc # "idle")
            BY <1>6 DEF HarmlessFault, StrandingFault, LambdaDies, Active, Working,
                        ClaimAnswerLost, FailureUnrecorded
        <3>2. job[w].pc # "idle" => job[w].doc \in Docs
            BY DEF TypeOK, JobOK
        <3>3. QED
            BY <3>1, <3>2 DEF Strand
    <2>3. QED
        BY <2>1, <2>2 DEF serverVars
<1>7. CASE StopServer
    <2>1. /\ req' \in [Requests -> [at : Places, doc : Docs \cup {None}]]
          /\ \A s \in Requests : (req'[s].at = "new") = (req'[s].doc = None)
        <3> DEFINE p(s) == IF req[s].at = "new" THEN "new" ELSE "over"
                   k(s) == [req[s] EXCEPT !.at = p(s)]
        <3>1. \A s \in Requests : p(s) \in Places /\ req[s] \in Request
            BY DEF Places, Request
        <3>2. \A s \in Requests :
                k(s) \in Request /\ k(s).at = p(s) /\ k(s).doc = req[s].doc
            BY <3>1, Moved
        <3>3. req' = [s \in Requests |-> k(s)]
            BY <1>7 DEF StopServer
        <3> HIDE DEF k
        <3>4. QED
            BY <3>2, <3>3 DEF Request
    <2>2. \A t \in LocalThreads : Active(t) => job[t].doc \in Docs
        BY DEF TypeOK, JobOK, Active, Working
    <2>3. stranded' \subseteq Docs /\ faults' \in 0..MaxFaults
        BY <1>7, <2>2 DEF StopServer, CountFault
    <2>4. QED
        BY <1>7, <2>1, <2>3 DEF StopServer
<1>8. CASE RestartServer
    BY <1>8 DEF RestartServer, history
<1>9. QED
    BY <1>1, <1>3, <1>4, <1>5, <1>6, <1>7, <1>8 DEF LocalNext

\* A step in which threads at most drop their documents and the server does
\* nothing.
LEMMA ThreadsDrop ==
    ASSUME ThreadInv, LocalTypeOK', UNCHANGED serverVars,
           \A t \in LocalThreads : job'[t].doc \in {job[t].doc, None}
    PROVE  ThreadInv'
<1> USE LocalAssumption DEF ThreadInv
<1>1. \A r \in Requests : req[r].at = "starting" => req[r].doc # None
    BY NoneAssumption, NamesDocument
<1>2. LockIsHeld' /\ Cleared'
    BY <1>1 DEF LockIsHeld, Cleared, serverVars
<1>3. Registry'
    BY DEF Registry, serverVars
<1>4. OneThreadPerDocument'
    BY DEF OneThreadPerDocument
<1>5. QED
    BY <1>2, <1>3, <1>4

\* A request's steps: the lock orders the lookups, and a document whose lookup
\* found no living thread has none until its thread is started.
LEMMA RequestKeepsThreads ==
    ASSUME ThreadInv, LocalTypeOK', TypeOK,
           NEW r \in Requests, RequestStep(r) \/ \E d \in Docs : Post(r, d)
    PROVE  ThreadInv'
<1> USE LocalAssumption DEF ThreadInv
<1>1. /\ job \in [Workers -> Job] /\ LocalThreads \subseteq Workers
      /\ req \in [Requests -> Request] /\ registered \in [Docs -> LocalThreads \cup {None}]
    BY DEF TypeOK, LocalTypeOK, Request
<1>2. ASSUME NEW place \in Places, Goes(r, place)
      PROVE  \A s \in Requests : /\ s # r => req'[s] = req[s]
                                 /\ req'[r].at = place /\ req'[r].doc = req[r].doc
    <2> DEFINE k == [req[r] EXCEPT !.at = place]
    <2>1. k.at = place /\ k.doc = req[r].doc
        BY <1>1, Moved
    <2>2. req' = [req EXCEPT ![r] = k]
        BY <1>2 DEF Goes
    <2> HIDE DEF k
    <2>3. QED
        BY <1>1, <2>1, <2>2
<1>3. CASE \E d \in Docs : Post(r, d)
    <2>1. PICK next \in {"waiting", "over"}, d \in Docs :
            /\ req[r].at = "new" /\ up
            /\ req' = [req EXCEPT ![r] = [at |-> next, doc |-> d]]
            /\ UNCHANGED <<lock, registered, up, job>>
        BY <1>3 DEF Post, vars
    <2>2. \A s \in Requests : /\ s # r => req'[s] = req[s]
                              /\ req'[r].at = next /\ req'[r].doc = d
        BY <1>1, <2>1
    <2>3. QED
        BY <2>1, <2>2 DEF LockIsHeld, Cleared, Registry, OneThreadPerDocument
<1>4. CASE TakeLock(r)
    <2>1. /\ req[r].at = "waiting" /\ lock = None /\ lock' = r
          /\ UNCHANGED <<registered, up, job>>
        BY <1>4 DEF TakeLock, vars
    <2>2. \A s \in Requests : s # r => req'[s] = req[s] /\ req'[r].at = "looking up"
        BY <1>2, <1>4 DEF TakeLock, Places
    <2>3. \A s \in Requests : req[s].at \notin {"looking up", "starting"}
        BY <2>1 DEF LockIsHeld
    <2>4. up
        BY <2>1 DEF Registry
    <2>5. req'[r].at = "looking up"
        BY <1>2, <1>4 DEF TakeLock, Places
    <2>6. LockIsHeld'
        BY <2>1, <2>2, <2>3, <2>5 DEF LockIsHeld
    <2>7. Cleared'
        BY <2>2, <2>3, <2>5 DEF Cleared
    <2>8. QED
        BY <2>1, <2>4, <2>6, <2>7 DEF Registry, OneThreadPerDocument
<1>5. CASE FindThread(r)
    <2>1. /\ req[r].at = "looking up" /\ UNCHANGED <<registered, up, job>>
          /\ req[r].doc \in Docs
        BY <1>5, NamesDocument DEF FindThread, vars
    <2>2. up /\ lock = r
        BY <2>1 DEF Registry, LockIsHeld
    <2>3. \A s \in Requests : s # r => req[s].at \notin {"looking up", "starting"}
        BY <2>2 DEF LockIsHeld
    <2>4. CASE Alive(req[r].doc)
        <3>1. lock' = None /\ Goes(r, "over")
            BY <1>5, <2>4 DEF FindThread
        <3>2. \A s \in Requests : req'[s].at \notin {"looking up", "starting"}
            BY <1>2, <2>3, <3>1 DEF Places
        <3>3. LockIsHeld' /\ Cleared'
            BY <3>1, <3>2 DEF LockIsHeld, Cleared
        <3>4. QED
            BY <2>1, <2>2, <3>3 DEF Registry, OneThreadPerDocument
    <2>5. CASE ~Alive(req[r].doc)
        <3>1. lock' = r /\ Goes(r, "starting")
            BY <1>5, <2>2, <2>5 DEF FindThread
        <3>2. \A s \in Requests : /\ s # r => req'[s] = req[s]
                                  /\ req'[r].at = "starting" /\ req'[r].doc = req[r].doc
            BY <1>2, <3>1 DEF Places
        <3>3. \A t \in LocalThreads : job[t].doc # req[r].doc
            BY <2>1, <2>2, <2>5, NoneAssumption DEF Alive, Registry
        <3>4. LockIsHeld'
            BY <2>3, <3>1, <3>2 DEF LockIsHeld
        <3>5. Cleared'
            BY <2>1, <2>3, <3>2, <3>3 DEF Cleared
        <3>6. QED
            BY <2>1, <2>2, <3>4, <3>5 DEF Registry, OneThreadPerDocument
    <2>6. QED
        BY <2>4, <2>5
<1>6. CASE StartThread(r) \/ StartFails(r)
    <2>1. /\ req[r].at = "starting" /\ req[r].doc \in Docs
          /\ lock' = None /\ Goes(r, "over") /\ UNCHANGED up
        BY <1>6, NamesDocument DEF StartThread, StartFails, history
    <2>2. up /\ lock = r /\ \A t \in LocalThreads : job[t].doc # req[r].doc
        BY <2>1 DEF Registry, LockIsHeld, Cleared
    <2>3. \A s \in Requests : s # r => req[s].at \notin {"looking up", "starting"}
        BY <2>2 DEF LockIsHeld
    <2>4. \A s \in Requests : req'[s].at \notin {"looking up", "starting"}
        BY <1>2, <2>1, <2>3 DEF Places
    <2>5. CASE StartThread(r)
        <3>1. PICK t \in LocalThreads :
                /\ job' = [job EXCEPT ![t] = StartJob(req[r].doc)]
                /\ registered' = [registered EXCEPT ![req[r].doc] = t]
            BY <2>5 DEF StartThread, Deliver
        <3>2. \A s \in LocalThreads : /\ s # t => job'[s] = job[s]
                                      /\ job'[t].doc = req[r].doc
            BY <1>1, <3>1 DEF StartJob
        <3>3. \A d \in Docs : registered'[d] = IF d = req[r].doc THEN t ELSE registered[d]
            BY <1>1, <3>1
        <3>4. \A s \in LocalThreads : job[s].doc \in Docs \cup {None}
            BY <1>1 DEF Job
        <3>5. Registry'
            BY <2>1, <2>2, <3>2, <3>3, <3>4 DEF Registry
        <3>6. OneThreadPerDocument'
            BY <2>2, <3>2 DEF OneThreadPerDocument
        <3>7. QED
            BY <2>1, <2>4, <3>5, <3>6 DEF LockIsHeld, Cleared
    <2>6. CASE StartFails(r)
        <3>1. /\ registered' = [registered EXCEPT ![req[r].doc] = None]
              /\ UNCHANGED job
            BY <2>6 DEF StartFails, vars
        <3>2. \A d \in Docs : d # req[r].doc => registered'[d] = registered[d]
            BY <1>1, <3>1
        <3>3. \A s \in LocalThreads : job[s].doc \in Docs \cup {None}
            BY <1>1 DEF Job
        <3>4. Registry'
            BY <2>1, <2>2, <3>1, <3>2, <3>3 DEF Registry
        <3>5. QED
            BY <2>1, <2>4, <3>1, <3>4 DEF LockIsHeld, Cleared, OneThreadPerDocument
    <2>7. QED
        BY <1>6, <2>5, <2>6
<1>7. QED
    BY <1>3, <1>4, <1>5, <1>6 DEF RequestStep

\* Every step keeps the agreement of lock, registry and threads.
LEMMA ThreadStep ==
    ASSUME IInv, ThreadInv, [LocalNext]_lvars, TypeOK'
    PROVE  ThreadInv'
<1> USE LocalAssumption DEF ThreadInv
<1>1. CASE UNCHANGED lvars
    BY <1>1 DEF lvars, vars, serverVars, history, LocalTypeOK, LockIsHeld, Cleared, Registry,
                OneThreadPerDocument
<1>2. CASE LocalNext
    <2>1. LocalTypeOK'
        BY <1>2, ServerTypes
    <2>2. ASSUME NEW r \in Requests, RequestStep(r) \/ \E d \in Docs : Post(r, d)
          PROVE  ThreadInv'
        BY <2>1, <2>2, RequestKeepsThreads DEF IInv
    <2>3. ASSUME NEW d \in Docs, LambdaDeliver(d) \/ Table(d) PROVE ThreadInv'
        <3>1. UNCHANGED serverVars /\ \A t \in LocalThreads : job'[t] = job[t]
            BY <2>3 DEF LambdaDeliver, Deliver, Table, TableStep, CreateDocument, Upload,
                        CancelDocument, Replicate, IInv, TypeOK
        <3>2. QED
            BY <2>1, <3>1, ThreadsDrop
    <2>4. ASSUME NEW w \in Workers, UNCHANGED serverVars, WorkerStep(w) \/ Fault(w)
          PROVE  ThreadInv'
        BY <2>1, <2>4, JobFrame, ThreadsDrop
    <2>5. ASSUME NEW w \in Workers,
                 \/ Execution(w) \/ HarmlessFault(w) \/ StrandingFault(w)
                 \/ LambdaDies(w) \/ ThreadDies(w)
          PROVE  ThreadInv'
        BY <2>4, <2>5 DEF Execution, HarmlessFault, StrandingFault, LambdaDies, ThreadDies, Fault
    <2>6. CASE StopServer
        <3>1. /\ ~up' /\ lock' = None /\ UNCHANGED job
              /\ \A r \in Requests : req'[r].at \in {"new", "over"}
            <4> DEFINE p(s) == IF req[s].at = "new" THEN "new" ELSE "over"
                       k(s) == [req[s] EXCEPT !.at = p(s)]
            <4>1. \A s \in Requests : p(s) \in Places /\ req[s] \in Request
                BY DEF Places, Request, LocalTypeOK
            <4>2. \A s \in Requests : k(s).at = p(s)
                BY <4>1, Moved
            <4>3. req' = [s \in Requests |-> k(s)]
                BY <2>6 DEF StopServer
            <4> HIDE DEF k
            <4>4. QED
                BY <2>6, <4>2, <4>3 DEF StopServer, vars
        <3>2. QED
            BY <2>1, <3>1 DEF LockIsHeld, Cleared, Registry, OneThreadPerDocument
    <2>7. CASE RestartServer
        <3>1. /\ ~up /\ up' /\ UNCHANGED <<req, lock, job, registered>>
              /\ \A t \in LocalThreads : job[t].doc = None
            BY <2>7 DEF RestartServer, IdleJob, vars
        <3>2. QED
            BY <2>1, <3>1 DEF LockIsHeld, Cleared, Registry, OneThreadPerDocument
    <2>8. QED
        BY <1>2, <2>2, <2>3, <2>5, <2>6, <2>7 DEF LocalNext
<1>3. QED
    BY <1>1, <1>2

-----------------------------------------------------------------------------
(* Somebody drives every document that is processing *)

\* An eventually consistent read shows no end the document has not come to.
CopySettled ==
    \A d \in Docs : replica[d].status \in {"ready", "failed"} =>
                        docs[d].status \in {"ready", "failed"}

\* The claims of a process that has ended are stranded.
DeadStranded ==
    ~up => \A t \in LocalThreads : Active(t) => job[t].doc \in stranded

DriveInv == CopySettled /\ DeadStranded /\ ProcessingIsDriven

\* No step but a replication touches the copies, which follow the documents.
LEMMA CopyStep ==
    ASSUME IInv, CopySettled, [Next]_vars
    PROVE  CopySettled'
<1> SUFFICES ASSUME NEW d \in Docs, replica'[d].status \in {"ready", "failed"}
             PROVE  docs'[d].status \in {"ready", "failed"}
    BY DEF CopySettled
<1>1. docs[d].status \in {"ready", "failed"} => docs'[d].status \in {"ready", "failed"}
    BY StepAdvances DEF Advances
<1>2. \/ replica'[d] = replica[d]
      \/ replica'[d] = View(docs[d]) /\ docs' = docs
    <2>1. CASE \E e \in Docs : TableStep(e)
        BY <2>1 DEF TableStep, CreateDocument, Upload, CancelDocument, Replicate, IInv, TypeOK
    <2>2. CASE \E w \in Workers : WorkerStep(w) \/ Fault(w)
        BY <2>2, WorkerFrame
    <2>3. CASE \E w \in Workers, e \in Docs : Deliver(w, e)
        BY <2>3 DEF Deliver
    <2>4. QED
        BY <2>1, <2>2, <2>3 DEF Next, FaultFreeNext, vars
<1>3. QED
    BY <1>1, <1>2 DEF CopySettled, View

\* An execution that holds the claim of a document goes on, or settles it; only
\* a kill, an unrecorded failure or a lost claim leaves it processing alone.
LEMMA HolderGoesOn ==
    ASSUME IInv, CopySettled, NEW w \in Workers,
           WorkerStep(w) \/ StoreAnswerLost(w) \/ ReadyAnswerLost(w) \/ Reject(w),
           Active(w), docs'[job[w].doc].status = "processing"
    PROVE  Active(w)' /\ job'[w].doc = job[w].doc
<1> DEFINE d == job[w].doc
<1>1. /\ job[w] \in Job /\ JobOK(job[w]) /\ job \in [Workers -> Job]
      /\ d \in Docs /\ docs[d] \in Item /\ docs \in [Docs -> Item]
      /\ job[w].pc \in {"report", "work", "check", "fail"}
    BY BusyJob DEF IInv, TypeOK, Active, Working
<1>2. ~(Load(w) \/ Claim(w) \/ Finish(w) \/ Reject(w))
    BY <1>1 DEF Load, Claim, Finish, Reject
<1>3. ~(MarkReady(w) \/ ReadyAnswerLost(w) \/ RecordFailure(w))
    <2>1. ReadyItem(docs[d], job[w].total).status = "ready"
        BY <1>1 DEF ReadyItem, Item
    <2>2. ~(MarkReady(w) \/ ReadyAnswerLost(w))
        BY <1>1, <2>1 DEF MarkReady, ReadyAnswerLost
    <2>3. ~RecordFailure(w)
        BY <1>1 DEF RecordFailure, Item
    <2>4. QED
        BY <2>2, <2>3
<1>4. CASE ReportProgress(w) \/ ExtractText(w) \/ ChunkText(w) \/ Raise(w) \/ StoreAnswerLost(w)
    BY <1>1, <1>4 DEF ReportProgress, ExtractText, ChunkText, Raise, StoreAnswerLost,
                      Active, Working, Job
<1>5. CASE CheckCanceled(w)
    <2>1. UNCHANGED docs /\ job[w].pc = "check"
        BY <1>5 DEF CheckCanceled
    <2>2. \A seen \in Reads(d) : seen.status # "failed"
        BY <1>1, <2>1 DEF Reads, View, CopySettled
    <2>3. job' = [job EXCEPT ![w] = Resume(job[w])]
        BY <1>5, <2>2 DEF CheckCanceled
    <2>4. Resume(job[w]).pc \in {"work", "report"} /\ Resume(job[w]).doc = d
        BY <1>1, <2>1, ResumeTyped
    <2>5. QED
        BY <1>1, <2>3, <2>4 DEF Active, Working
<1>6. CASE EmbedChunk(w) \/ StoreChunk(w)
    <2>1. AfterChunk(job[w]).pc \in {"report", "check"} /\ AfterChunk(job[w]).doc = d
        BY <1>1 DEF AfterChunk, Job
    <2>2. QED
        BY <1>1, <1>6, <2>1 DEF EmbedChunk, StoreChunk, Active, Working, Job
<1>7. QED
    BY <1>2, <1>3, <1>4, <1>5, <1>6 DEF WorkerStep

\* A document that becomes processing has just been claimed by a worker.
LEMMA OnlyClaimed ==
    ASSUME IInv, NEW w \in Workers, WorkerStep(w) \/ Fault(w),
           NEW d \in Docs, docs[d].status # "processing", docs'[d].status = "processing"
    PROVE  /\ job[w].doc = d
           /\ \/ Claim(w) /\ Active(w)' /\ job'[w].doc = d
              \/ ClaimAnswerLost(w)
<1>1. docs \in [Docs -> Item] /\ job \in [Workers -> Job] /\ job[w] \in Job
    BY DEF IInv, TypeOK
<1>2. CASE Claim(w)
    BY <1>1, <1>2 DEF Claim, Active, Working, Job
<1>3. CASE ClaimAnswerLost(w)
    BY <1>1, <1>3 DEF ClaimAnswerLost
<1>4. ASSUME MarkReady(w) \/ ReadyAnswerLost(w) PROVE FALSE
    <2>1. docs[d] \in Item => ReadyItem(docs[d], job[w].total).status = "ready"
        BY DEF ReadyItem, Item
    <2>2. docs' = [docs EXCEPT ![job[w].doc] = ReadyItem(docs[job[w].doc], job[w].total)]
        BY <1>4 DEF MarkReady, ReadyAnswerLost
    <2>3. QED
        BY <1>1, <2>1, <2>2
<1>5. ASSUME RecordFailure(w) \/ ReportProgress(w) PROVE FALSE
    BY <1>1, <1>5 DEF RecordFailure, ReportProgress, Item
<1>6. ASSUME \/ Load(w) \/ CheckCanceled(w) \/ ExtractText(w) \/ ChunkText(w) \/ EmbedChunk(w)
             \/ StoreChunk(w) \/ Raise(w) \/ Finish(w) \/ Reject(w)
             \/ StoreAnswerLost(w) \/ FailureUnrecorded(w) \/ Crash(w)
      PROVE  FALSE
    BY <1>6 DEF Load, CheckCanceled, ExtractText, ChunkText, EmbedChunk, StoreChunk, Raise,
                Finish, Reject, StoreAnswerLost, FailureUnrecorded, Crash
<1>7. QED
    BY <1>2, <1>3, <1>4, <1>5, <1>6 DEF WorkerStep, Fault

\* A step of one execution that strands its document if it may leave it alone.
LEMMA DrivenAfterStep ==
    ASSUME IInv, DriveInv, NEW w \in Workers,
           \/ WorkerStep(w) \/ StoreAnswerLost(w) \/ ReadyAnswerLost(w) \/ Reject(w)
           \/ Fault(w) /\ (~Active(w) \/ job[w].doc \in stranded')
                       /\ (ClaimAnswerLost(w) => job[w].doc \in stranded'),
           stranded \subseteq stranded'
    PROVE  ProcessingIsDriven'
<1> SUFFICES ASSUME NEW d \in Docs, docs'[d].status = "processing", d \notin stranded'
             PROVE  \E v \in Workers : Active(v)' /\ job'[v].doc = d
    BY DEF ProcessingIsDriven
<1>1. WorkerStep(w) \/ Fault(w)
    BY DEF Fault
<1>2. \A v \in Workers : v # w => job'[v] = job[v]
    BY <1>1, WorkerFrame
<1>3. CASE docs[d].status # "processing"
    <2>1. job[w].doc = d /\ ((Active(w)' /\ job'[w].doc = d) \/ ClaimAnswerLost(w))
        BY <1>1, <1>3, OnlyClaimed
    <2>2. ~ClaimAnswerLost(w)
        <3>1. ClaimAnswerLost(w) => job[w].pc = "claim"
            BY DEF ClaimAnswerLost
        <3>2. CASE WorkerStep(w) \/ StoreAnswerLost(w) \/ ReadyAnswerLost(w) \/ Reject(w)
            <4> SUFFICES ASSUME ClaimAnswerLost(w) PROVE FALSE
                OBVIOUS
            <4>1. docs' # docs /\ job[w].pc = "claim"
                BY <1>3 DEF ClaimAnswerLost
            <4>2. CASE Claim(w)
                <5>1. job \in [Workers -> Job] /\ job[w] \in Job
                    BY DEF IInv, TypeOK
                <5>2. job'[w].pc = "report"
                    BY <5>1, <4>2 DEF Claim, ClaimAnswerLost, Job
                <5>3. job'[w].pc \in {"returned", "raised"}
                    BY <5>1 DEF ClaimAnswerLost, Job
                <5>4. QED
                    BY <5>2, <5>3
            <4>3. QED
                BY <3>2, <4>1, <4>2
                DEF WorkerStep, Load, ReportProgress, CheckCanceled, ExtractText, ChunkText,
                    EmbedChunk, StoreChunk, MarkReady, Raise, RecordFailure, Finish,
                    StoreAnswerLost, ReadyAnswerLost, Reject
        <3>3. QED
            BY <2>1, <3>2
    <2>3. QED
        BY <2>1, <2>2
<1>4. CASE docs[d].status = "processing"
    <2>1. PICK v \in Workers : Active(v) /\ job[v].doc = d
        BY <1>4 DEF DriveInv, ProcessingIsDriven
    <2>2. CASE v # w
        BY <1>2, <2>1, <2>2 DEF Active
    <2>3. CASE v = w
        <3>1. WorkerStep(w) \/ StoreAnswerLost(w) \/ ReadyAnswerLost(w) \/ Reject(w)
            BY <2>1, <2>3
        <3>2. QED
            BY <2>1, <2>3, <3>1, HolderGoesOn DEF DriveInv
    <2>4. QED
        BY <2>2, <2>3
<1>5. QED
    BY <1>3, <1>4

\* Every step leaves a document that is processing driven or stranded.
LEMMA DriveStep ==
    ASSUME IInv, ThreadInv, DriveInv, [LocalNext]_lvars
    PROVE  DriveInv'
<1> USE LocalAssumption
<1>1. CopySettled'
    BY ServerStepRefines, CopyStep DEF ThreadInv, DriveInv
<1>2. ASSUME UNCHANGED <<docs, job>>, stranded \subseteq stranded' PROVE ProcessingIsDriven'
    BY <1>2 DEF DriveInv, ProcessingIsDriven, Active
<1>3. ASSUME UNCHANGED <<job, up, stranded>> PROVE DeadStranded'
    BY <1>3 DEF DriveInv, DeadStranded, Active
<1>4. ASSUME NEW r \in Requests, RequestStep(r) \/ \E d \in Docs : Post(r, d)
      PROVE  DriveInv'
    <2>1. CASE TakeLock(r) \/ FindThread(r) \/ StartFails(r) \/ \E d \in Docs : Post(r, d)
        <3>1. UNCHANGED <<docs, job, up, stranded>>
            BY <2>1 DEF TakeLock, FindThread, StartFails, Post, vars, history
        <3>2. QED
            BY <1>1, <1>2, <1>3, <3>1 DEF DriveInv
    <2>2. CASE StartThread(r)
        <3>1. PICK t \in LocalThreads :
                job[t].pc = "idle" /\ job' = [job EXCEPT ![t] = StartJob(req[r].doc)]
            BY <2>2 DEF StartThread, Deliver
        <3>2. \A v \in Workers : (Active(v)' <=> Active(v)) /\ (Active(v) => job'[v] = job[v])
            BY <3>1 DEF StartJob, Active, Working, IInv, TypeOK
        <3>3. UNCHANGED <<docs, up, stranded>>
            BY <2>2 DEF StartThread, Deliver, history
        <3>4. DeadStranded'
            BY <3>2, <3>3 DEF DriveInv, DeadStranded
        <3>5. ProcessingIsDriven'
            BY <3>2, <3>3 DEF DriveInv, ProcessingIsDriven
        <3>6. QED
            BY <1>1, <3>4, <3>5 DEF DriveInv
    <2>3. QED
        BY <1>4, <2>1, <2>2 DEF RequestStep
<1>5. ASSUME NEW d \in Docs, LambdaDeliver(d) PROVE DriveInv'
    <2>1. PICK w \in Workers \ LocalThreads :
            job[w].pc = "idle" /\ job' = [job EXCEPT ![w] = StartJob(d)]
        BY <1>5 DEF LambdaDeliver, Deliver
    <2>2. \A v \in Workers : (Active(v)' <=> Active(v)) /\ (Active(v) => job'[v] = job[v])
        BY <2>1 DEF StartJob, Active, Working, IInv, TypeOK
    <2>3. UNCHANGED <<docs, up, stranded>>
        BY <1>5 DEF LambdaDeliver, Deliver, serverVars, history
    <2>4. DeadStranded'
        BY <2>2, <2>3 DEF DriveInv, DeadStranded
    <2>5. ProcessingIsDriven'
        BY <2>2, <2>3 DEF DriveInv, ProcessingIsDriven
    <2>6. QED
        BY <1>1, <2>4, <2>5 DEF DriveInv
<1>6. ASSUME NEW d \in Docs, Table(d) PROVE DriveInv'
    <2>1. UNCHANGED <<job, up, stranded>>
        BY <1>6 DEF Table, TableStep, CreateDocument, Upload, CancelDocument, Replicate,
                    serverVars, history
    <2>2. \A e \in Docs : docs'[e].status = "processing" => docs[e].status = "processing"
        BY <1>6 DEF Table, TableStep, CreateDocument, PutDocument, Upload, CancelDocument,
                    MarkDocumentFailed, Replicate, IInv, TypeOK, Item
    <2>3. QED
        BY <1>1, <1>3, <2>1, <2>2 DEF DriveInv, ProcessingIsDriven, Active
<1>7. ASSUME NEW w \in Workers, Execution(w) \/ HarmlessFault(w) \/ StrandingFault(w)
                                \/ LambdaDies(w) \/ ThreadDies(w)
      PROVE  DriveInv'
    <2>1. /\ UNCHANGED up /\ stranded \subseteq stranded'
          /\ WorkerStep(w) \/ Fault(w)
        BY <1>7 DEF Execution, HarmlessFault, StrandingFault, LambdaDies, ThreadDies, Fault,
                    Strand, serverVars, history
    <2>2. \A v \in Workers : v # w => job'[v] = job[v]
        BY <2>1, WorkerFrame
    <2>3. ~up /\ w \in LocalThreads => ~Active(w)'
        <3>1. ~up /\ w \in LocalThreads => Crash(w)
            BY <1>7 DEF Execution, HarmlessFault, StrandingFault, LambdaDies, ThreadDies
        <3>2. QED
            BY <3>1 DEF Crash, IdleJob, Active, Working, IInv, TypeOK
    <2>4. DeadStranded'
        BY <2>1, <2>2, <2>3 DEF DriveInv, DeadStranded, Active
    <2>5. CASE Execution(w) \/ HarmlessFault(w)
        BY <1>1, <2>1, <2>4, <2>5, DrivenAfterStep DEF Execution, HarmlessFault, DriveInv
    <2>6. CASE StrandingFault(w)
        <3>1. job[w].doc \in stranded' /\ Fault(w)
            BY <2>6 DEF StrandingFault, Strand, Fault
        <3>2. ProcessingIsDriven'
            BY <2>1, <3>1, DrivenAfterStep
        <3>3. QED
            BY <1>1, <2>4, <3>2 DEF DriveInv
    <2>7. CASE LambdaDies(w) \/ ThreadDies(w)
        <3>1. Crash(w) /\ (Active(w) => job[w].doc \in stranded')
            <4>1. CASE LambdaDies(w)
                BY <4>1 DEF LambdaDies, Strand
            <4>2. CASE ThreadDies(w)
                BY <4>2 DEF ThreadDies, DriveInv, DeadStranded, history
            <4>3. QED
                BY <2>7, <4>1, <4>2
        <3>2. UNCHANGED docs
            BY <3>1 DEF Crash
        <3>3. \A v \in Workers : Active(v) => v = w \/ Active(v)'
            BY <2>2 DEF Active
        <3>4. ProcessingIsDriven'
            BY <2>1, <2>2, <3>1, <3>2, <3>3 DEF DriveInv, ProcessingIsDriven
        <3>5. QED
            BY <1>1, <2>4, <3>4 DEF DriveInv
    <2>8. QED
        BY <1>7, <2>5, <2>6, <2>7
<1>8. CASE StopServer
    <2>1. /\ UNCHANGED <<docs, job>> /\ stranded \subseteq stranded'
          /\ \A t \in LocalThreads : Active(t) => job[t].doc \in stranded'
        BY <1>8 DEF StopServer, vars
    <2>2. QED
        BY <1>1, <1>2, <2>1 DEF DriveInv, DeadStranded, Active
<1>9. CASE RestartServer
    <2>1. up' /\ UNCHANGED <<docs, job, stranded>>
        BY <1>9 DEF RestartServer, vars, history
    <2>2. QED
        BY <1>1, <1>2, <2>1 DEF DriveInv, DeadStranded
<1>10. CASE UNCHANGED lvars
    <2>1. UNCHANGED <<docs, job, up, stranded>>
        BY <1>10 DEF lvars, vars, serverVars, history
    <2>2. QED
        BY <1>1, <1>2, <1>3, <2>1 DEF DriveInv
<1>11. QED
    BY <1>4, <1>5, <1>6, <1>7, <1>8, <1>9, <1>10 DEF LocalNext

-----------------------------------------------------------------------------
(* The theorems *)

\* Nothing is claimed, copied or stranded at the start.
LEMMA DriveInvInit == LocalInit => DriveInv
    BY DEF LocalInit, Init, AbsentItem, View, IdleJob, DriveInv, CopySettled, DeadStranded,
           ProcessingIsDriven, Active, Working

\* The pipeline's invariant and the server's hold together.
LEMMA LocalStep ==
    IInv /\ ThreadInv /\ DriveInv /\ [LocalNext]_lvars => IInv' /\ ThreadInv' /\ DriveInv'
<1> SUFFICES ASSUME IInv, ThreadInv, DriveInv, [LocalNext]_lvars
             PROVE  IInv' /\ ThreadInv' /\ DriveInv'
    OBVIOUS
<1>1. IInv'
    BY ServerStepRefines, StepInvariant DEF ThreadInv
<1>2. QED
    BY <1>1, ThreadStep, DriveStep DEF IInv

\* What holds of the pipeline, the threads and the documents holds throughout.
LEMMA LocalInvariance == LocalSpec => [](IInv /\ ThreadInv /\ DriveInv)
<1>1. LocalInit => IInv
    BY InitInvariant DEF LocalInit
<1>2. QED
    BY <1>1, ThreadInvInit, DriveInvInit, LocalStep, PTL DEF LocalSpec

\* The local server with its threads, restarts and faults, beside the deployed
\* Lambda, is an instance of the pipeline: every theorem about Spec holds of it.
THEOREM ServerImplementsPipeline == LocalSpec => Spec
<1>1. LocalInit => Init
    BY DEF LocalInit
<1>2. ThreadInv => LocalTypeOK
    BY DEF ThreadInv
<1>3. QED
    BY <1>1, <1>2, LocalInvariance, ServerStepRefines, PTL DEF LocalSpec, Spec

\* The server's requests, lock and registry keep their types.
THEOREM LocalTypeCorrect == LocalSpec => []LocalTypeOK
<1>1. ThreadInv => LocalTypeOK
    BY DEF ThreadInv
<1>2. QED
    BY <1>1, LocalInvariance, PTL

\* The lock is never leaked and never taken twice: it is held exactly while one
\* request is between its lookup and its answer (local_server.py:134-143).
THEOREM LockIsNeverLeaked == LocalSpec => []LockIsHeld
<1>1. ThreadInv => LockIsHeld
    BY DEF ThreadInv
<1>2. QED
    BY <1>1, LocalInvariance, PTL

\* Under the lock, and across restarts, a document has at most one thread
\* (local_server.py:134-143), for any number of requests and threads.
THEOREM ThreadIsUnique == LocalSpec => []OneThreadPerDocument
<1>1. ThreadInv => OneThreadPerDocument
    BY DEF ThreadInv
<1>2. QED
    BY <1>1, LocalInvariance, PTL

\* Only a claim that died with its holder leaves a document processing with
\* nobody to settle it, whatever raises, is retried or is canceled.
THEOREM ProcessingHasAnExecution == LocalSpec => []ProcessingIsDriven
<1>1. DriveInv => ProcessingIsDriven
    BY DEF DriveInv
<1>2. QED
    BY <1>1, LocalInvariance, PTL

\* Threads of the server and executions of the deployed Lambda share the documents
\* safely: one claim each, ready only with all rows, settled for good, and every
\* execution bounded, across restarts of the server (local_server.py:126-146).
THEOREM PipelineIsSafeBesideServer ==
    LocalSpec => /\ [](SingleClaim /\ ReadyIsComplete)
                 /\ SettledStaysSettled /\ ExecutionAdvances
BY ServerImplementsPipeline, ClaimIsExclusive, ReadyMeansComplete, SettledForGood,
   ExecutionsAreBounded, PTL
=============================================================================
