# A TLA+ model of the private document RAG application

This directory models the parts of the repository whose correctness depends on
the order in which things happen: documents that are uploaded, ingested by
Lambda executions and canceled at the same time; the queue that delivers them;
the local server that ingests them in threads instead; the HTTP API from a
request's token to its answer; the loop that cuts texts into chunks; and the
browser code that starts, follows, lists and cancels uploads, and that sends
questions and shows what was said. The modules are checked by TLC on small
instances, and their safety properties are proved with TLAPS for all values of
the constants.

Source lines below are relative to `src/`. `worker.py`, `chunking.py`,
`dynamodb.py` and `parsers.py` are in `services/ingestion/src/rag_ingestion/`,
`handler.py`, `aws_adapters.py` and `local_server.py` in
`services/api/src/rag_api/`, as is `domain.py`, `config.py` and `providers.py` in
`services/common/src/rag_common/`, `stacks.py` in `infrastructure/cdk/`,
`useDocuments.ts` and `useConversations.ts` in `apps/web/src/hooks/`, and `App.tsx`
in `apps/web/src/`.

## 1. Inventory

| Component | State | Operations | What makes it correct |
|---|---|---|---|
| Documents API (`handler.py`, `aws_adapters.py`) | DOCUMENT items in DynamoDB: status, error, stage, percentage, chunk count | upload-url (create), list, get, cancel | a document is created once; a cancel that was answered takes effect |
| Ingestion worker (`worker.py`, `process_record`) | the same items, CHUNK rows, local variables of one execution | read, claim, report progress, read object, parse, chunk, embed, store, final update, failure handler | one execution per document; `ready` only with every row; settled stays settled; a cancel is noticed |
| Queue, DLQ and batch handler (`stacks.py`, `lambda_handler`) | messages: visible, in flight, deleted, dead; a batch per invocation | S3 notification, receive, visibility timeout, redrive, `batchItemFailures` | no upload is forgotten; no message circulates for ever |
| Chunker (`chunking.py`, `normalize_text`) | loop variables of one call | `chunk_text` | terminates, covers the text, bounded overlapping chunks |
| Chunk store and retrieval (`dynamodb.py`) | CHUNK rows in the vector index | `retrieve`, `insert` (no caller in the worker) | only rows of ready documents of the owner |
| Browser uploads (`useDocuments.ts`) | phase on the screen, `xhrRef`, `pollAbortRef`, document list, `refreshingRef` | `uploadFile`, `pollUntilReady`, `cancelUpload`, `refreshDocuments`, interval | a busy screen ends; what is canceled stops; the cancel button works |
| Browser conversations (`useConversations.ts`) | conversations, messages, selection, busy and abort flags | refresh, select, create, send, cancel | one call at a time; what is shown is shown once and is stored; the composer is freed |
| Chat API (`handler.py`, `aws_adapters.py`) | CONVERSATION and MESSAGE items | create, list, answer (store question, retrieve, generate, store answer) | nothing is stored without what it refers to; an answer says what is stored |
| Local API server (`local_server.py`) | a map from document to its ingestion thread, a lock | the API routes, `POST /documents/{id}/ingest`, stop and restart | one live thread per document; the lock is freed; what it forwards finds its item |
| Validation and keys (`domain.py`, `worker.py:32-42`) | none | filename check, object key, event decoding | the worker recognises the key of every document the API stored |
| Settings (`config.py`) and the stack's environment | the environment of the process | `from_env` | a bad environment is refused before anything is stored |
| Sign-in (`useAuth.ts`, `oidc.ts`) | tokens, PKCE verifier | redirect, exchange, sign out | - |
| Model providers (`providers.py`) | none | embed, answer | a failure or a garbled reply leaves nothing half stored unnoticed |
| Parsers, rendering, the rest of the CDK stacks | none that changes while running | - | - |

How they interact: the browser asks the API for a URL (the item is created,
`pending`), PUTs the file to S3, S3 sends a message to the queue, the event
source hands a batch to a Lambda invocation, `lambda_handler` runs
`process_record` on each record, and the browser polls the document until it is
`ready` or `failed`. The API's cancel and any number of executions write the
same item. The chat API searches the chunk rows that executions write. Locally a
POST starts `process_record` in a thread instead of the queue.

What is hard here: nothing but the conditional claim keeps executions apart; all
other updates of an item are unconditional; reads are eventually consistent; a
call may be applied although its answer is lost; an invocation may be killed
anywhere; the local server shares the deployed tables and queue; and in the
browser several asynchronous calls share one screen.
`PROJECT.json` lists each of these hazards at its line, with the properties that
cover it.

## 2. Modules

| Module | Models | Extends or instantiates |
|---|---|---|
| `DocumentLifecycle` | the abstract promise: create, one claim, rows appended in order, publish once and complete, fail | |
| `ChatStore` | the abstract promise of the chat table: conversations, a question in one of them and once, its answer after it and once, nothing taken away | |
| `Ingestion` | documents API and `process_record` against DynamoDB and S3 | `DocumentLifecycle` (refinement) |
| `IngestionQueue` | the queue, the DLQ and `lambda_handler`, in front of the same workers | `Ingestion` |
| `Chunking` | `chunk_text` and what `normalize_text` gives it | |
| `LocalServer` | the local server's ingest route, its lock, registry and threads, beside the deployed Lambda | `Ingestion` |
| `ApiHandler` | `lambda_handler` of the API, its stores, the settings it runs in, filenames and keys | `ChatStore` (refinement) |
| `UploadFlow` | `uploadFile`, `pollUntilReady`, `cancelUpload` | |
| `DocumentList` | `refreshDocuments`, its effects and interval, beside the uploads | `UploadFlow` |
| `ConversationFlow` | `useConversations` with the composer, and the API's conversation routes | `ChatStore` (refinement) |
| `IngestionProofs`, `ApiProofs`, `ChunkingProofs`, `ConversationProofs` | theorems | the module they are about, `TLAPS` |
| `IngestionQueueProofs`, `LocalServerProofs` | theorems | the module they are about, `IngestionProofs` |
| `UploadFlowProofs` | theorems about `UploadFlow` and `DocumentList` | `DocumentList`, `TLAPS` |
| `MCIngestion`, `MCIngestionQueue`, `MCLocalServer`, `MCApiHandler`, `MCChunking`, `MCDocumentList`, `MCConversationFlow` | values and symmetry sets of the TLC instances | the module they instantiate |

Operators whose comment begins with "Mutant of" are plausible bugs: they belong
to no specification. Substituting one for its original violates a named
property, which shows that the property depends on the code and is not true of
the model anyway. `PROJECT.json` pairs them.

### Ingestion

One DOCUMENT item per id (`docs`), its CHUNK row indexes (`chunks`), whether its
object is in S3 (`objects`), the older copy an eventually consistent read may
return (`replica`), and one record per execution (`job`: next call, document,
stage, number of chunks, chunks done). `claimed` is a history variable. Ids are
`uuid4` and never reused, so a document is a member of `Docs`.

Every call to DynamoDB, S3, the parser, the chunker or the model is one action,
in the order of the code, so that any call of another execution or of the API
falls between two of them:

| Code | Action |
|---|---|
| `handler.py:137-158` create under `attribute_not_exists` | `CreateDocument` |
| `handler.py:165-180` cancel: `mark_document_failed`, whatever the status | `CancelDocument` |
| `worker.py:99-110` get_document, return if ready | `Load` |
| `worker.py:111-122` update under `status = pending`, otherwise return | `Claim` |
| `worker.py:64-96` best-effort, unconditional progress update | `ReportProgress` |
| `worker.py:124-130` and its callers | `CheckCanceled`, `Resume`, `EnterStage` |
| `worker.py:133-179` read, parse, chunk | `ExtractText`, `ChunkText` |
| `worker.py:184-202` one embedding | `EmbedChunk` |
| `worker.py:217-253` put under `attribute_not_exists` | `StoreChunk` |
| `worker.py:255-273` final, unconditional update | `MarkReady` |
| `worker.py:274-291` except clause | `Raise`, `RecordFailure` |
| a refused record, a lost answer, a kill, a failing failure handler | `Reject`, `ClaimAnswerLost`, `StoreAnswerLost`, `ReadyAnswerLost`, `FailureUnrecorded`, `Crash` |

Percentages are computed as in the code (integer division, first and last
steps); the number of progress updates a loop aims at (50) is the constant
`Slices`. Only the attributes that someone decides on are kept of an item.
Deliveries are any document to any free worker at any time, which includes
everything S3, SQS and the local server do.

### IngestionQueue

Adds `queue` (what each message is about, where it is, how often received) and
`batch` (the records of each invocation: all, to do, current, failed). A worker
of `Ingestion` is an invocation. `FinishRecord` collects
`batchItemFailures`, `ReturnBatch` is the handler's return with what SQS makes of
it, `CrashInvocation` an invocation that is killed, `VisibilityTimeout` and
`DeadLetter` SQS. S3's test event is a message about no document. The visibility
timeout (6 minutes, `stacks.py:188-195`) exceeds the function's (5 minutes,
`stacks.py:284-289`), so messages return only after their invocation is gone;
messages delivered twice in spite of this are covered by `Ingestion`, where
deliveries are not restricted at all.

### LocalServer

Adds to `Ingestion` the requests to ingest (`req`), `_ingestion_lock` (`lock`),
`_ingestion_threads` (`registered`) and whether the process runs (`up`). Some
workers are threads of the server, the others executions of the deployed Lambda:
the local server works on deployed tables and a deployed bucket, so an upload
also reaches the queue. `faults` bounds the faults of a behaviour; `stranded`
remembers the documents whose claim died with its holder. `InChunkText` are the
executions that may never come back from `chunk_text` (`chunking_loops`): a Lambda
execution there may die at any time without being counted as a fault, as its
timeout will end it; a thread has no timeout.

| Code | Action |
|---|---|
| `local_server.py:111-126` the document is read | `Post` |
| `local_server.py:134-135` the lock | `TakeLock` |
| `local_server.py:136-139` a thread that is alive | `FindThread` |
| `local_server.py:127-146` a new thread, or one that cannot be started | `StartThread`, `StartFails` |
| `local_server.py:127-132` `process_record` in the thread | `Execution` |
| `stacks.py:307-311` the deployed Lambda gets the same upload | `LambdaDeliver` |
| the process stops with its daemon threads, and starts again | `StopServer`, `ThreadDies`, `RestartServer` |
| errors before the claim, lost answers, kills | `HarmlessFault`, `StrandingFault`, `LambdaDies` |

Requests and threads have only their names to tell them apart, so the next of
either is a chosen free one (`NextRequest`, `NextThread`).
A thread is alive while its worker is at work on the document it was registered
for. A stopped process makes no step; `ThreadDies` only frees its workers before
the restart.

### ApiHandler

The process's environment (`settings`), the requests in flight (`req`: next call,
route, owner, named item, status answered), the tables as sets of owner and id
(`conversations`, `messages`, `documents`, `canceled`, `rows`) and the items an
eventually consistent read may still miss (`fresh`). An id is the name of the
request that created it. Each call to a table, S3 or the model is an action; a
call may also fail (`Fails`), or be applied and its answer, or the process, be
lost (`Then`, `ThenAnswer`), after which the caller has 500 or nothing.

| Code | Definition |
|---|---|
| `config.py:11-70`, `stacks.py:270-289` | `Accepted`, `StackEnvironment` |
| `domain.py:21-66`, `worker.py:32-42` | `Authenticated`, `SafeFilename`, `DocumentKey`, `EventDocument` |
| `local_server.py:58-109` token, path and body | `Arrive`, `Arrived`, `PathId` |
| `handler.py:71-181` routes and checks before any call | `Branch`, `Checked` |
| `aws_adapters.py:57-65,73-81,100-108` | `Query` |
| `handler.py:93-104,161-178` | `FindConversation`, `FindDocument` |
| `handler.py:105-136`, `providers.py:26-80`, `dynamodb.py:61-80` | `SaveQuestion`, `AskModel`, `SaveAnswer` |
| `aws_adapters.py:40-55`; `handler.py:137-158` | `CreateConversation`; `CreateDocument`, `SignUrl` |
| `aws_adapters.py:117-135` | `MarkDocumentFailed` |
| `handler.py:182-192` | `Then`, `ThenAnswer`, `Fails` |

`Gateway` says who calls the handler. The local server cuts the id out of the
path; the HTTP API fills `pathParameters` from its route. Characters of names are
classes: what `SAFE_FILENAME` allows, the blank, `+` and `%`. S3 encodes keys in
its events, the local server does not, and the worker decodes both.

### Chunking

A text is its length and the positions of its spaces; words are at least one
character and separated by one space, as `normalize_text` leaves them. `Iterate`
is one turn of the loop with Python's `rfind` and slices, negative positions
included. `kept` records which letters are in a chunk, which is all that
coverage needs.

### UploadFlow

JavaScript runs from one `await` to the next, and the rejection caused by an
abort is handled before the next event. Each such piece of `uploadFile` is an
action of one call; `phase`, `xhr` and `poll` are what the calls share. The
guards of `UploadFile`, `CancelSending` and `CancelIngesting` are the buttons
that `App.tsx` enables. Answers of the server are left open. `asked` is the set
of documents for which the browser has called cancel.

### DocumentList

`list` is what the screen says of the documents in `Listed`, `others` whether it
shows any other unfinished one, `server` what the table says; `asking` are the
callers whose request for the list is under way, and `refreshing` is
`refreshingRef`. A request is refused while another runs (`RefreshDocuments`);
it arrives (`ListArrives`) with any state a document has been in so far, since
its query ran earlier and is eventually consistent, or fails (`ListFails`). The
interval (`Tick`) runs while the screen shows something unfinished. The steps of
`UploadFlow` are conjuncts of this module's, so `UploadFlow` is what it refines.

### ConversationFlow

The hook's state (`shown`, `listed`, how often the sidebar lists each conversation,
`messages`, `chatBusy`, `abort`), its calls
(`call` and `conv` of each question, `creating`, `listing`, `fetches`) and the
chat table (`created`, `log`). A message is the question it belongs to and what
part it plays: the question, its answer, or what stands in the answer's place
(`Thinking…`, `Canceled.`, `Message failed.`). Their texts decide nothing.

| Code | Action |
|---|---|
| `useConversations.ts:16-30`, `aws_adapters.py:57-65` | `Listed`, `ListingFails` |
| `useConversations.ts:32-44`, `App.tsx:109-123` | `Select`, `Fetched`, `FetchFails` |
| `useConversations.ts:46-60`, `aws_adapters.py:40-55` | `CreateConversation`, `SaveConversation`, `ConversationCreated`, `CreationFails` |
| `useConversations.ts:62-115`, `App.tsx:164-181` | `SendMessage`, `Answered`, `Fails`, `Refused`, `CancelChat` |
| `handler.py:93-136` | `SaveQuestion`, `SaveAnswer` |

A message is stamped with its time immediately before it is put
(`handler.py:105-112,125-133`; the model has answered by then), so `log`, ordered
by time as the query is, grows at its end. A query without `ConsistentRead` returns a
beginning of it, whichever conversation is shown when it arrives. The server's
two actions do not ask whether the browser still waits: `cancelChat` aborts the
browser's request only. Conversations may exist at sign-in; questions are those
of one visit. Signing out is left out.

## 3. What TLC checks

| Run | Instance | Shows |
|---|---|---|
| `ingestion_safety` | 1 document, 3 workers, up to 5 chunks, 2 slices, all faults; 374,639 states | types, `SingleClaim`, `ReadyIsComplete`, `EarlyCancelIsFinal`, `SettledStaysSettled`, `ProgressIsMonotone`, `SeenCancelIsFinal`, `ExecutionAdvances`, and the refinement `LifecycleSpec` |
| `local_server` | 1 document of up to 1 chunk, 2 requests, 2 threads and 1 Lambda execution, up to 1 fault; 608,250 states, deadlock checked | `LockIsHeld`, `OneThreadPerDocument`, `ProcessingIsDriven`, `RequestsEnd`, `EventuallySettled` |
| `ingestion_cancel` (violated) | 1 worker, no faults | a canceled document may become ready |
| `ingestion_retrieval` (violated) | 1 worker, no faults | rows are retrieved from documents that are not ready |
| `queue` | 1 document, 3 messages (one the test event), batches of 2, 2 receives, 1 invocation at a time; 867,050 states, deadlock checked | types, `PendingIsQueued`, `DeliveriesAdvance`, `EveryMessageLeaves` |
| `queue_retry` (violated) | the same with 2 messages | a failed ingestion leaves no message to retry or to inspect |
| `chunking` | every normalized text of up to 17 characters, chunks of 8, overlap 3; 14,803 states | `NothingLost`, `ChunksAdvance`, `StuckForGood` |
| `chunking_loops` (violated) | any text of up to 12 characters | `chunk_text` may not return |
| `api` | 3 requests of 2 owners, 2 accepted environments and 1 refused; 2,409,225 states up to symmetry | types, `MessagesHaveRoots`, `AnswersMatchTables`, `OwnedIsServed`, `KeysAreRecognised`, and the refinement `ChatStoreSpec` |
| `api_gateway` (violated) | 2 requests behind the deployed HTTP API | routes that name an item do not find it |
| `uploads` | 3 uploads, 2 polls each, the list of one document; 573,374 states | `BusyIsDriven`, `OnePoller`, `AskedStops`, `CallsAdvance`, `UploadsEnd`, `OneRefresh`, `NotShownOpenForEver` |
| `conversations` | 2 conversations, 2 questions, 2 fetches of each in flight; 1,213,858 states | `OneChatCall`, `NoMessageTwice`, `AnswersAreBacked`, `ThinkingIsDriven`, `ComposerIsFreed`, and the refinement `ChatStoreSpec` |

Why these bounds. Documents do not interact (every action of a worker touches
the item and the rows of its own document), so one is enough; three workers give
a holder of the claim, a racer before it and a late delivery after it. With
`Slices = 2` up to five chunks give steps of two with a last chunk off the step
(five) and on it (four), steps of one, chunks that report and chunks that do not,
fewer chunks than slices, and none. In the queue, two receives are the fewest that
separate the first, a redelivered and an exhausted one, and two uploads of one
document next to the test event fill a batch and leave a message over; the
number of chunks makes no difference to messages. One invocation at a time keeps
the liveness property within reach, and any number of them is covered by the
theorems about the same invariants. In `LocalServer` two requests race for the
lock and two threads for a document, beside a Lambda execution; one fault is
enough to stop the server, or to take any one holder of a claim away. One
chunk lets both loops run, fail, be left early and never be entered; that they end
with more than one chunk is `ExecutionsAreBounded`, which `ingestion_safety` checks
with five. In
`ApiHandler` an answer needs a conversation, and a citation a document: three
requests are one for each, in every order and of either owner. In `Chunking`
chunks of 8 that overlap by 3 leave room for a space before, in and after the
overlap, and 17 characters for every way the loop has of going on, going back,
below zero too, or losing what it passed. Three uploads are one more than any interference between two
calls needs, and the list treats all of their documents alike, so it follows one
of them and abstracts the rest; two polls are one that continues and one that
runs out of time.
Two conversations are one to leave and one to arrive in; of two questions one can
be canceled, or shown elsewhere, while the server is still at work on it and the
other is sent; two fetches of a conversation are an older and a newer one.
Symmetry is used only where no liveness property is checked.
The type invariants of `LocalServer`, `DocumentList`, `ConversationFlow` and
`Chunking` are left to their theorems, which hold for every instance.

`CHECK_DEADLOCK FALSE` stands in the chunking configurations (the loop returns)
in the uploads' (finitely many uploads, all of which end), in the conversations'
(finitely many questions) and in the API's (finitely many requests, all of which
are answered or lost). Elsewhere deadlock is checked: a file can always be
uploaded again or a document canceled.

## 4. Fairness

- `LocalServer!LocalFairness`: a request in the server and an execution that has
  started take their next step (weak fairness of `RequestStep` and `Execution`;
  an execution of a stopped server takes none, and nobody has to restart it),
  except a thread in `chunk_text`, which is owed nothing because the loop may never
  return; a Lambda execution there goes on or is killed by its timeout;
  copies of an item converge; and strong fairness of the Lambda's delivery of an
  uploaded document while it is pending: SQS keeps an unprocessed message and
  offers it again, while the worker may each time be busy. Faults are not fair,
  and bounded by `MaxFaults`: with as many as the queue has receives
  (`stacks.py:188-195`, three) a message would be given up. `EventuallySettled`
  excepts documents in `stranded` and those of a thread that is in `chunk_text` for
  good (`LocallyChunked`), both of which the code does leave `processing`
  (observations 2 and 20 below).
- `IngestionQueue!QueueFairness`: the event source polls, a running invocation
  goes on *or is killed* (no fairness is asked of an invocation's faults), and
  SQS's timers run. Nobody has to upload, cancel or restart anything.
- `Chunking`: the loop goes on, so what `chunking_loops` shows is a loop, not a stop.
- `UploadFlow`: requests are answered or fail (`useDocuments.ts` waits on each of
  them with no other way out) and timers fire; the user owes nothing.
- `DocumentList`: in addition the interval fires while it is set, requests for the
  list are answered or fail, and not all of them fail or arrive out of date for
  ever (strong fairness of an answer that is up to date).
- `ApiHandler` needs none: its properties are invariants and a refinement that
  promises no progress.
- `ConversationFlow`: requests are answered or fail. Nothing is asked of the
  server's work, of fetches or of the user: what `ComposerIsFreed` needs is that
  `sendMessage` and `createConversation` come to their `finally` clauses.

## 5. What is proved

All theorems hold for every value of the constants under the named assumptions
(`NoneAssumption`, `MaxChunksAssumption`, `SlicesAssumption`, `QueueAssumption`,
`LocalAssumption`, `ApiAssumption`, `BoundsAssumption`, `UploadAssumption`,
`ListAssumption`, `ChatAssumption`), which TLC evaluates in the runs.

**`IngestionProofs`.** `TypeOK`, `SingleClaim`, `ReadyIsComplete`,
`ProgressIsMonotone`, `SettledStaysSettled`, `EarlyCancelIsFinal`,
`SeenCancelIsFinal`, and `ImplementsLifecycle == Spec => LifecycleSpec`. None of
the invariants is inductive by itself: that a ready document has its rows needs
to know how far its worker was, and that nobody else was at work. The inductive
invariant `IInv` adds

- `JobInv`: an execution between its claim and its end holds the claim of its
  document and, unless it has failed, knows that the document is not ready, that
  the percentage is at most what its next update writes, and that the rows are
  exactly those of the chunks it has done (`RowsAt`);
- `DocInv`: a document without a claim has no rows and no progress and can only
  have been canceled; one with a claim is never pending again.

An execution in its `except` clause is deliberately known to hold nothing: a put
or the final update may have been applied although it raised. Steps are sorted
into those that only move a job (`JobStep`), those of the holder of a claim
(`ClaimedStep`) and those of the table (`TableStepKeeps`); each action is then a
lemma. For the action properties and the refinement, `StepEffect` reduces every
step to its effect on one document (created, canceled, claimed, progressed,
stored, published, failed, or none). `SettledStaysSettled` also says who may fail a ready document; for that
`EndsKnown` says of an execution at work that its document has no recorded failure,
and is ready only if its own final update raised although it was applied. In the refinement a document counts as
published once its percentage says 100: the percentage is the only attribute that
still tells so after a later failure or cancel.

`ExecutionsAreBounded == Spec => ExecutionAdvances` is the safety half of
termination: every step of an execution, faults included, lowers `StepsLeft`, a
number that a new job starts with and that counts stages, chunks, reports and
checks to come. It needs of `IInv` only the types: `JobsAdvance` is what a step
does to the jobs, `StageWorth` that a stage outweighs everything within it, and
each action is a lemma. Under fairness it gives that an execution ends, which TLC
checks as part of `EventuallySettled`.

**`IngestionQueueProofs`.** `QueueImplementsPipeline == QueueSpec => Spec`: the
queue only restricts when executions start and end, so every theorem above holds
behind it. `QueueTypeOK` and `PendingIsQueued` for any number of documents,
messages and concurrent invocations. The invariant `QInv` adds to `IInv` that a
message in flight is in exactly one batch (`Held`) and that every uploaded
pending document has a message that will come to a worker or back to the queue
(`Tracked`). The step that matters is a record that returns without an error:
its document is not pending then (`PendingIsNotReturned`), as it has been
claimed, canceled or settled by somebody; that needs the older copies of items to
agree with the table so far (`TablesAgree`).

`DeliveriesAdvance` follows from `QInv` too: `Advance` orders the places a message
goes through, by the number of receives; that a batch holds nothing but messages
in flight (`Held`) is what makes its return a step forward. It is the safety half
of `EveryMessageLeaves`, for any number of invocations. `PipelineIsSafeBehindQueue`
and `QueueImplementsLifecycle` state what the pipeline's theorems say of the queue.

**`LocalServerProofs`.** `ServerImplementsPipeline == LocalSpec => Spec`,
`LocalTypeOK`, `LockIsHeld`, `OneThreadPerDocument`, `ProcessingIsDriven` for any
number of requests, threads, restarts and faults. One thread per document needs to know
that only the holder of the lock is between its look at the registry and the
start of its thread (`LockIsHeld`), that nobody works on the document by then
(`Cleared`), and that a server that is up has registered every thread at work
(`Registry`). `ProcessingIsDriven` needs the older copies of items to show no end
the document has not come to (`CopySettled`), or a check would stop an execution
for nothing, and the claims of a server that has ended to be stranded
(`DeadStranded`). `PipelineIsSafeBesideServer` states what the pipeline's theorems
say of documents that threads and Lambda executions share.

**`ApiProofs`.** `ApiTypeOK`, `MessagesHaveRoots`, `AnswersMatchTables`,
`KeysAreRecognised` for any number of owners, requests, names of any length and
environments, behind either gateway; `OwnedIsServed` under the hypothesis
`Gateway = "local"`, which `api_gateway` shows cannot be dropped. The invariant
`AInv` relates the next call of a request (`Found`, `Planned`) to the tables:
whoever is about to store a question has found its conversation, whoever is about
to answer has stored its question. `ApiImplementsChatStore == ApiSpec =>
ChatStoreSpec` adds that a request has at most one question and one answer in the
table, and none before it has come that far (`CInv`): every put of a message is
then a step of `ChatStore`, and every other call, failure and loss a stutter.

**`ChunkingProofs`.** All of it is about every normalized text, every chunk size
and every smaller overlap. `TypeOK` and `StuckForGood` hold of any text;
`ChunksAdvance` of texts whose words are short (`ShortWords`: every window of
`MaxChars - Overlap` characters has a space early enough), a hypothesis that
`chunking_loops` shows cannot be dropped; `NothingLost` of these and of every text
whose first chunk cannot end one short of the overlap, without which TLC finds a
text that loses letters (observation 19). The invariant says that a loop is either
stuck, or has kept all letters before its start (`Covered`). On short words
`ChunkEndAdvances` shows that it is never stuck. On others a step back either
repeats a chunk for good, or goes below zero: there `rfind` finds nothing beyond
the start or an end whose overlap reaches below zero again, and the loop stays
there, unless the start is exactly -1. `ChunksAreBounded`, which no run
checks, adds that every chunk the loop may cut is at most `MaxChars` long, from a
negative start too, where `text[start:end]` is taken from the end of the text.

**`UploadFlowProofs`.** `TypeOK`, `BusyIsDriven`, `OnePoller`, `AskedStops` for
any number of uploads and polls. `AskedStops` is strengthened to `AskedLate`: a
call that has asked for a cancel is over or in its final refresh.
`ListLeavesUploads == HookSpec => Init /\ [][Next]_vars` carries all of this over
to the hook with its list (`UploadsSafeBesideList`), for which `HookTypeOK` and
`OneRefresh` are proved too. `CallsAreBounded == HookSpec => CallsAdvance` is the
safety half of `UploadsEnd`: `EventsLeft` falls with every event of a call, which
needs that a call has counted no poll before its PUT is over and polls again only
while its ten minutes last (`PollsCounted`).

**`ConversationProofs`.** `TypeOK`, `OneChatCall`, `NoMessageTwice`,
`AnswersAreBacked`, `ThinkingIsDriven` for any number of conversations, questions
and fetches. `NoMessageTwice` is not inductive: a placeholder could become an
answer that is there already. The inductive invariant says of the screen and of
every log that they hold at most one question and one reply of each question
sent (`Distinct`), the reply below its question (`Ordered`), and that a log's
messages were sent in that conversation (`LogOK`). `AppendKeeps` and `PrefixKeeps`
say that adding a new message and taking a beginning keep this; every action that
touches messages is one or the other, or replaces a placeholder in place.
`ImplementsChatStore == Spec => ChatStoreSpec` follows from the same invariant: a
log that holds a question once, in one conversation, and its answer after it, grows
by `Ask` and `Answer` steps. With `ApiImplementsChatStore` the browser, with the
server it assumes, and the API, with the browsers it allows, are shown to keep the
same promise.

Only model-checked: the liveness properties (`EventuallySettled`, `RequestsEnd`,
`EveryMessageLeaves`, `UploadsEnd`, `NotShownOpenForEver`,
`ComposerIsFreed`), which need `ENABLED` under fairness, beyond this prover. What
they rest on besides fairness is proved where it is a safety property: the
measures of `ExecutionAdvances`, `DeliveriesAdvance`, `CallsAdvance` and
`ChunksAdvance`, that the lock is freed (`LockIsHeld`), and that somebody drives a
busy screen or a processing document. No module uses a recursive operator.

## 6. Where the code and its documents disagree

1. **A cancel can be overwritten** (`ingestion_cancel`). The final update
   (`worker.py:257`) has no condition; a cancel after the last check is answered
   `canceled`, then the document is `ready` with error code `canceled`. What does
   hold: a cancel before the claim is final, and so is one that every read
   returns while its worker still has a check ahead.
2. **Retrieval ignores the status** (`ingestion_retrieval`). `BUILD_SPEC.md:85`
   asks for ready documents only; `dynamodb.py:61-80` conditions on the owner.
3. **A failed ingestion is never retried** (`queue_retry`). The handler marks the
   document failed and raises; the redelivered record is refused by the claim,
   returns as a duplicate and is deleted. `BUILD_SPEC.md:93` says otherwise.
4. **`chunk_text` may not terminate** (`chunking_loops`) when the last space of a
   window is within the overlap of its start.
5. **Behind the HTTP API no item is found by its id** (`api_gateway`). Its only
   matching route is `/{proxy+}` (`stacks.py:326`), whose events carry the path
   parameter `proxy`; `handler.py:93,161` read `id`. Messages, questions, document
   status and cancel all answer 404, against `BUILD_SPEC.md:68,72`. The local
   server fills in `id` itself, so the difference does not show there.

Observed on the way, without a run of their own:

1. Cancel looks at no status: a ready document that is canceled is `failed` with
   all its rows in place.
2. An execution that is killed after its claim leaves the document `processing`;
   its redelivered record is dropped as a duplicate.
3. The SDK's own retry of a claim or a put whose answer was lost meets the
   condition of its first attempt: the holder of the claim leaves as a duplicate,
   or a complete ingestion fails.
4. The dead-letter alarm (`stacks.py:342`) watches the wrong queue, and S3's test
   event always ends in the dead-letter queue.
5. An answer of 401 leaves the phase as it was (`useDocuments.ts:126`).
6. A fetch that arrives late shows the messages of a conversation that is no
   longer selected (`useConversations.ts:37-39`). One that arrives between a
   question and its answer removes the placeholder, and the answer is not shown
   until the conversation is selected again.
7. A canceled question is still answered and stored, and the next one may be
   asked meanwhile: the log then reads question, question, answer, answer.
8. A question is stored before its answer exists (`handler.py:112`). When the
   model fails it stays without one, and asking again stores it again.
9. A sidebar list that arrives after a conversation was created drops it until
    the page is loaded again (`useConversations.ts:25`); one that arrives between
    its creation and the answer has it already, and the answer lists it a second
    time (`useConversations.ts:52`).
10. "New conversation" stays disabled after a canceled or failed upload until
    another one succeeds (`App.tsx:99`), while the upload button does not.
11. A finished upload's last continuation writes `idle` and clears `xhrRef`
    (`useDocuments.ts:119-131`) after its final refresh, over an upload the user
    started meanwhile (a cancel frees the form first): that one loses its progress
    and its cancel button, which the comment at line 83 promises.
12. A list request that was sent before a document was created makes the upload's
    final refresh return at once (`useDocuments.ts:32`); if nothing else shown is
    unfinished the interval stops, and the document stays missing from the list
    until the page is loaded again.
13. `AWS_ENDPOINT_URL` has a local value in `BUILD_SPEC.md:127`, and
    `config.py:38-42` refuses every value of it.
14. A reply of the model that is not JSON is answered 400, as an invalid body,
    after the question has been stored (`handler.py:184`).
15. A document whose URL cannot be signed, or whose answer is lost, stays pending
    (`handler.py:153-158`), unknown to its caller.
16. The SDK's retry of a conditional put whose first answer was lost
    (`aws_adapters.py:53,97`) is refused: 500, with the item stored.
17. The comment at `local_server.py:131` says that the worker records errors on the
    document; those before the claim, and those of its failure handler, are
    swallowed.
18. The local server's own 401 and 404 answers (`local_server.py:71,118`) have no
    `request_id`, unlike the handler's.
19. `chunk_text` may also lose text: when the last space of its first window is at
    199, one short of the overlap, the second chunk starts at -1 and is empty, and
    the third starts at 999 (`chunking.py:22-30`): characters 200 to 998 are in no
    chunk. The excepted case of `NothingLost` is this one.
20. A thread of the local server that does not come back from `chunk_text`
    (`chunking_loops`) has no timeout: its document stays `processing` and its registered
    thread alive, so every later request to ingest it is answered 202 and starts
    nothing (`local_server.py:127-139`), until memory runs out.

## 7. Not modelled

The fields of items that nobody decides on, the contents of texts, embeddings and
answers, and presigned URLs' signatures are abstracted. Ranking is DynamoDB's.
Of validation, filenames are modelled; the other fields of a payload are valid or
not. Of the providers and parsers only their outcomes are. Browser tokens, sign-in
and sign-out (`useAuth.ts`, `oidc.ts`) are a redirect protocol with an external
identity provider; rendering, buckets, keys, alarms, the user pool and the web
distribution are layout and declarations. `/health`, `OPTIONS` and CORS headers
change nothing. The queue's retention period, Lambda's concurrency limits and
DynamoDB's page size (list routes ignore `LastEvaluatedKey`) are left out.

## 8. Plan

Done: all modules of section 2 and the proofs of section 5. What would add most
next:

1. `WebApp`: `DocumentList` and `ConversationFlow` under the guards of `App.tsx`,
   where each may disable the other (observation 10).
2. Sign-in and sign-out: the token that `completeLogin` exchanges, and what a 401
   and a token that changes do to both hooks.
3. The table of `ConversationFlow` and `ApiHandler` in one module: both refine
   `ChatStore`, but the browser's calls and the API's requests are not yet one.
