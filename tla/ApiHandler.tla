----------------------------- MODULE ApiHandler -----------------------------
(***************************************************************************)
(* The HTTP API: the claims, settings and route of a request, then its      *)
(* calls to the tables, S3 and the model, each an action that may fail, be   *)
(* applied without an answer, or be the last one the process makes.  Any    *)
(* number of requests run at once, in as many executions.                   *)
(***************************************************************************)
EXTENDS Integers, FiniteSets, Sequences

CONSTANTS
    Owners,        \* subjects of valid tokens
    Requests,      \* requests; what one creates has its new_id(), so its name
    None,
    Gateway,       \* what calls the handler: "local" server or "deployed" HTTP API
    Names,         \* filenames tried, after required_text's strip
    Environments,  \* environments tried
    TopK           \* most chunks a search returns: 5 in the code

\* Letters ("x"), the blank, and the characters a URL encodes, + and %.
Alphabet == {"x", "blank", "plus", "percent"}

\* The environment variables, several together: credentials are AWS_ACCESS_KEY_ID
\* and its secret; models the two Bedrock ids; resources the tables, the bucket
\* and the index; numbers is whether the two integers parse.
Environment == [app : STRING, endpoint : BOOLEAN, credentials : BOOLEAN,
                provider : STRING, models : BOOLEAN, resources : BOOLEAN,
                numbers : BOOLEAN]

ASSUME ApiAssumption ==
    /\ None \notin Owners \cup Requests
    /\ Gateway \in {"local", "deployed"}
    /\ Names \subseteq Seq(Alphabet)
    /\ Environments \subseteq Environment
    /\ TopK \in Nat

VARIABLES
    settings,       \* the environment of the process
    req,            \* each request
    conversations,  \* chat table: <<owner, id>> of the CONVERSATION items
    messages,       \* chat table: the MESSAGE items
    documents,      \* documents table: <<owner, id>> of the DOCUMENT items
    canceled,       \* those marked failed with error_code canceled
    rows,           \* <<owner, document>> of the CHUNK rows
    fresh           \* items an eventually consistent get_item may still miss

vars == <<settings, req, conversations, messages, documents, canceled, rows, fresh>>

-----------------------------------------------------------------------------
(* Settings, filenames and keys *)

\* Settings.from_env raises for any other environment.
Accepted(e) ==
    /\ e.app \in {"local", "dev", "integration", "prod"}
    /\ ~e.endpoint
    /\ e.app = "local" => e.credentials
    /\ e.provider \in {"fake", "bedrock"}
    /\ e.provider = "bedrock" => e.models
    /\ e.resources /\ e.numbers

\* What the stack of a stage gives its Lambda functions.
StackEnvironment(stage) ==
    [app |-> stage, endpoint |-> FALSE, credentials |-> TRUE, provider |-> "bedrock",
     models |-> TRUE, resources |-> TRUE, numbers |-> TRUE]

\* Mutant of SafeFilename: only path separators are refused.
SafeFilenameLax(name) == name # <<>>

\* required_text and SAFE_FILENAME; <<>> stands for any other invalid payload.
SafeFilename(name) ==
    /\ name # <<>> /\ name[1] = "x"
    /\ \A i \in DOMAIN name : name[i] \in {"x", "blank"}

\* The object key, split at its first four slashes.
DocumentKey(owner, id, name) == <<"private", owner, id, "source", name>>

\* A character in an S3 event's key, and what unquote_plus makes of it; a per
\* cent sign without two hexadecimal digits stays.
Quoted(c) ==
    CASE c = "blank" -> "plus" [] c = "plus" -> "hex2B" [] c = "percent" -> "hex25" [] OTHER -> c
Unquoted(c) ==
    CASE c = "plus" -> "blank" [] c = "hex2B" -> "plus" [] c = "hex25" -> "percent" [] OTHER -> c

OnName(key, f(_)) == [key EXCEPT ![5] = [i \in DOMAIN key[5] |-> f(key[5][i])]]

\* The message S3 sends about an object, and the record the local server makes.
S3Record(key)               == [form |-> "Records", key |-> OnName(key, Quoted)]
LocalRecord(owner, id, key) == [form |-> "detail", owner |-> owner, id |-> id, key |-> key]

\* _event_document: the owner, document and key of a record, or None.
EventDocument(record) ==
    LET key == OnName(record.key, Unquoted) IN
    IF record.form = "detail" THEN <<record.owner, record.id, key>>
    ELSE IF Len(key) = 5 /\ key[1] = "private" /\ key[4] = "source"
    THEN <<key[2], key[3], key>>
    ELSE None

-----------------------------------------------------------------------------
(* Routes *)

Methods == {"GET", "POST"}

Paths == {<<"me">>, <<"conversations">>, <<"documents">>, <<"documents", "upload-url">>}
    \cup {<<"conversations", i, "messages">> : i \in Requests}
    \cup {<<"documents", i>> : i \in Requests}
    \cup {<<"documents", i, "cancel">> : i \in Requests}

\* Mutant of PathId: the local server's last rule is missing.
PathIdButCancel(path) ==
    IF /\ Gateway = "local"
       /\ \/ Len(path) = 3 /\ path[1] = "conversations" /\ path[3] = "messages"
          \/ Len(path) = 2 /\ path[1] = "documents"
    THEN path[2] ELSE None

\* pathParameters["id"]: the local server cuts it out of the path; the route
\* /{proxy+} of the HTTP API names its only parameter proxy.
PathId(path) ==
    IF /\ Gateway = "local"
       /\ \/ Len(path) = 3 /\ path[1] = "conversations" /\ path[3] = "messages"
          \/ Len(path) = 2 /\ path[1] = "documents"
          \/ Len(path) = 3 /\ path[1] = "documents" /\ path[3] = "cancel"
    THEN path[2] ELSE None

\* The branch lambda_handler takes.
Branches == {"me", "list", "create", "messages", "ask", "register",
             "document", "cancel", "none"}

Branch(method, path) ==
    LET id == PathId(path) IN
    CASE method = "GET" /\ path = <<"me">> -> "me"
      [] method = "GET" /\ path \in {<<"conversations">>, <<"documents">>} -> "list"
      [] method = "POST" /\ path = <<"conversations">> -> "create"
      [] path = <<"conversations", id, "messages">> ->
             IF method = "GET" THEN "messages" ELSE "ask"
      [] method = "POST" /\ path = <<"documents", "upload-url">> -> "register"
      [] method = "GET" /\ path = <<"documents", id>> -> "document"
      [] method = "POST" /\ path = <<"documents", id, "cancel">> -> "cancel"
      [] OTHER -> "none"

-----------------------------------------------------------------------------
(* Requests *)

\* The next call of a request.
Places == {"new", "query", "put_conversation", "lookup", "put_question", "model",
           "put_answer", "put_document", "sign", "mark", "over"}

\* 0: the process ended without an answer.
Statuses == {0, 200, 201, 400, 401, 404, 500}

Pairs   == Owners \X Requests
Message == [owner : Owners, conversation : Requests, request : Requests,
            role : {"user", "assistant"}, cited : SUBSET Pairs]

\* A request: due says that, when it arrived, it named an item of its caller that
\* every read returns (history).
Request == [at : Places, branch : Branches, owner : Owners \cup {None},
            id : Requests \cup {None, "upload-url"}, text : BOOLEAN,
            file : Names \cup {<<>>}, cited : SUBSET Pairs,
            status : Statuses, due : BOOLEAN]

NewRequest == [at |-> "new", branch |-> "none", owner |-> None, id |-> None, text |-> FALSE,
               file |-> <<>>, cited |-> {}, status |-> 0, due |-> FALSE]

ApiTypeOK ==
    /\ settings \in Environments
    /\ req \in [Requests -> Request]
    /\ conversations \subseteq Pairs /\ documents \subseteq Pairs
    /\ messages \subseteq Message
    /\ canceled \subseteq documents /\ rows \subseteq documents
    /\ fresh \subseteq Pairs

ApiInit ==
    /\ settings \in Environments
    /\ req = [r \in Requests |-> NewRequest]
    /\ conversations = {} /\ messages = {} /\ documents = {} /\ canceled = {}
    /\ rows = {} /\ fresh = {}

\* The item a request names, and the one it creates.
Named(r) == <<req[r].owner, req[r].id>>
Own(r)   == <<req[r].owner, r>>

\* What an eventually consistent get_item may say of an item being there.
Sees(items, item) == {item \in items} \cup {FALSE : i \in {item} \cap fresh}

Goes(r, place)     == req' = [req EXCEPT ![r].at = place]
Answers(r, status) == req' = [req EXCEPT ![r].at = "over", ![r].status = status]

\* How a request goes on after a call that was applied: to its next call or its
\* answer; or, its own answer lost, to the except clause; or the process ends.
Then(r, place)       == Goes(r, place) \/ Answers(r, 500) \/ Answers(r, 0)
ThenAnswer(r, status) == Answers(r, status) \/ Answers(r, 500) \/ Answers(r, 0)

-----------------------------------------------------------------------------
(* From the event to the first call *)

\* Mutant of Authenticated: a request without claims has the owner None.
AuthenticatedAnyway(owner) == TRUE

\* owner_from_claims; the local server's _claims refuses a bad token before.
Authenticated(owner) == owner # None

Answered(status) == [at |-> "over", status |-> status]
Begins(place)   == [at |-> place, status |-> 0]

\* Where the checks before any call lead: an answer, or the first call.
Checked(owner, branch, file) ==
    IF ~Authenticated(owner) THEN Answered(401)
    ELSE IF ~Accepted(settings) THEN Answered(500)
    ELSE CASE branch = "me"       -> Answered(200)
           [] branch = "none"     -> Answered(404)
           [] branch = "list"     -> Begins("query")
           [] branch = "create"   -> Begins("put_conversation")
           [] branch = "register" -> IF SafeFilename(file) THEN Begins("put_document")
                                     ELSE Answered(400)
           [] OTHER               -> Begins("lookup")

\* The request names an item of its caller that every read returns.
Due(owner, method, path) ==
    /\ Accepted(settings) /\ Len(path) > 1
    /\ <<owner, path[2]>> \in
           (IF path[1] = "documents" THEN documents ELSE conversations) \ fresh
    /\ Len(path) = 2 => method = "GET"
    /\ path[Len(path)] = "cancel" => method = "POST"

Arrived(owner, method, path, text, file) ==
    LET branch == Branch(method, path)
        first  == Checked(owner, branch, file)
    IN  [at |-> first.at, branch |-> branch, owner |-> owner, id |-> PathId(path),
         text |-> text, file |-> file, cited |-> {}, status |-> first.status,
         due |-> Due(owner, method, path)]

\* A request arrives: its token, path and body are whatever the caller sends.
Arrive(r) ==
    /\ req[r].at = "new"
    /\ \E owner \in Owners \cup {None}, method \in Methods, path \in Paths,
          text \in BOOLEAN, file \in Names \cup {<<>>} :
        /\ text => Branch(method, path) = "ask"
        /\ file # <<>> => Branch(method, path) = "register"
        /\ req' = [req EXCEPT ![r] = Arrived(owner, method, path, text, file)]
    /\ UNCHANGED <<settings, conversations, messages, documents, canceled, rows, fresh>>

-----------------------------------------------------------------------------
(* Reads *)

\* A query of the caller's partition.
Query(r) ==
    /\ req[r].at = "query"
    /\ ThenAnswer(r, 200)
    /\ UNCHANGED <<settings, conversations, messages, documents, canceled, rows, fresh>>

\* Mutant of FindConversation: the item is looked up by its id alone.
FindConversationOfAnyone(r) ==
    /\ req[r].at = "lookup" /\ req[r].branch \in {"messages", "ask"}
    /\ IF \A o \in Owners : <<o, req[r].id>> \notin conversations THEN Answers(r, 404)
       ELSE IF req[r].branch = "messages" THEN Goes(r, "query")
       ELSE IF req[r].text THEN Goes(r, "put_question") ELSE Answers(r, 400)
    /\ UNCHANGED <<settings, conversations, messages, documents, canceled, rows, fresh>>

\* conversation_owned, then the body of a question.
FindConversation(r) ==
    /\ req[r].at = "lookup" /\ req[r].branch \in {"messages", "ask"}
    /\ \E found \in Sees(conversations, Named(r)) :
        \/ ~found /\ Answers(r, 404)
        \/ found /\ req[r].branch = "messages" /\ Goes(r, "query")
        \/ found /\ req[r].branch = "ask" /\ req[r].text /\ Goes(r, "put_question")
        \/ found /\ req[r].branch = "ask" /\ ~req[r].text /\ Answers(r, 400)
    /\ UNCHANGED <<settings, conversations, messages, documents, canceled, rows, fresh>>

\* get_document, to answer it or to cancel it.
FindDocument(r) ==
    /\ req[r].at = "lookup" /\ req[r].branch \in {"document", "cancel"}
    /\ \E found \in Sees(documents, Named(r)) :
        \/ ~found /\ Answers(r, 404)
        \/ found /\ req[r].branch = "document" /\ Answers(r, 200)
        \/ found /\ req[r].branch = "cancel" /\ Goes(r, "mark")
    /\ UNCHANGED <<settings, conversations, messages, documents, canceled, rows, fresh>>

\* search_vectors: its condition is the owner.
Retrievable(owner) == {row \in rows : row[1] = owner}

\* embed and answer, when they do not fail: FakeProvider computes its result,
\* BedrockProvider decodes a body that may be no JSON.
Replies == IF settings.provider = "bedrock" THEN {"text", "garbled"} ELSE {"text"}

\* embed, retrieve and answer.  The JSONDecodeError of a garbled reply is taken for
\* one of the request's body.
AskModel(r) ==
    /\ req[r].at = "model"
    /\ \/ \E cited \in SUBSET Retrievable(req[r].owner) :
            /\ Cardinality(cited) <= TopK
            /\ req' = [req EXCEPT ![r].at = "put_answer", ![r].cited = cited]
       \/ "garbled" \in Replies /\ Answers(r, 400)
    /\ UNCHANGED <<settings, conversations, messages, documents, canceled, rows, fresh>>

-----------------------------------------------------------------------------
(* Writes *)

\* put_item of a new conversation, under attribute_not_exists.
CreateConversation(r) ==
    /\ req[r].at = "put_conversation"
    /\ conversations' = conversations \cup {Own(r)} /\ fresh' = fresh \cup {Own(r)}
    /\ ThenAnswer(r, 201)
    /\ UNCHANGED <<settings, messages, documents, canceled, rows>>

Said(r, role, cited) == [owner |-> req[r].owner, conversation |-> req[r].id,
                         request |-> r, role |-> role, cited |-> cited]

SaveQuestion(r) ==
    /\ req[r].at = "put_question"
    /\ messages' = messages \cup {Said(r, "user", {})}
    /\ Then(r, "model")
    /\ UNCHANGED <<settings, conversations, documents, canceled, rows, fresh>>

SaveAnswer(r) ==
    /\ req[r].at = "put_answer"
    /\ messages' = messages \cup {Said(r, "assistant", req[r].cited)}
    /\ ThenAnswer(r, 201)
    /\ UNCHANGED <<settings, conversations, documents, canceled, rows, fresh>>

\* put_item of a new document, under attribute_not_exists; the URL is signed after.
CreateDocument(r) ==
    /\ req[r].at = "put_document"
    /\ documents' = documents \cup {Own(r)} /\ fresh' = fresh \cup {Own(r)}
    /\ Then(r, "sign")
    /\ UNCHANGED <<settings, conversations, messages, canceled, rows>>

SignUrl(r) ==
    /\ req[r].at = "sign"
    /\ Answers(r, 201)
    /\ UNCHANGED <<settings, conversations, messages, documents, canceled, rows, fresh>>

\* update_item under attribute_exists.
MarkDocumentFailed(r) ==
    /\ req[r].at = "mark" /\ Named(r) \in documents
    /\ canceled' = canceled \cup {Named(r)}
    /\ ThenAnswer(r, 200)
    /\ UNCHANGED <<settings, conversations, messages, documents, rows, fresh>>

-----------------------------------------------------------------------------
(* Failures, the table and the worker *)

\* Mutant of Fails: a failed put of the document is taken for a duplicate.
FailsOver(r) ==
    /\ req[r].at \notin {"new", "over"}
    /\ IF req[r].at = "put_document" THEN Goes(r, "sign") ELSE Answers(r, 500)
    /\ UNCHANGED <<settings, conversations, messages, documents, canceled, rows, fresh>>

\* A call raises and has changed nothing, or the process ends before it.
Fails(r) ==
    /\ req[r].at \notin {"new", "over"}
    /\ Answers(r, 500) \/ Answers(r, 0)
    /\ UNCHANGED <<settings, conversations, messages, documents, canceled, rows, fresh>>

Replicate(item) ==
    /\ item \in fresh
    /\ fresh' = fresh \ {item}
    /\ UNCHANGED <<settings, req, conversations, messages, documents, canceled, rows>>

\* The worker stores a chunk row of a document (Ingestion.tla).
StoreRow(item) ==
    /\ item \in documents
    /\ rows' = rows \cup {item}
    /\ UNCHANGED <<settings, req, conversations, messages, documents, canceled, fresh>>

RequestStep(r) ==
    \/ Arrive(r) \/ Query(r) \/ FindConversation(r) \/ FindDocument(r) \/ AskModel(r)
    \/ CreateConversation(r) \/ SaveQuestion(r) \/ SaveAnswer(r) \/ CreateDocument(r)
    \/ SignUrl(r) \/ MarkDocumentFailed(r) \/ Fails(r)

ApiNext ==
    \/ \E r \in Requests : RequestStep(r)
    \/ \E item \in Pairs : Replicate(item) \/ StoreRow(item)

ApiSpec == ApiInit /\ [][ApiNext]_vars

-----------------------------------------------------------------------------
(* Properties *)

\* Every stored message is in a conversation its owner has, an answer has its
\* question beside it, and a citation is of a document of the same owner
\* (handler.py:93-133): the chat table has no foreign keys to ensure it.
MessagesHaveRoots ==
    \A msg \in messages :
        /\ <<msg.owner, msg.conversation>> \in conversations
        /\ \A item \in msg.cited : item[1] = msg.owner /\ item \in documents
        /\ msg.role = "assistant" =>
            \E q \in messages : /\ q.role = "user" /\ q.request = msg.request
                                /\ q.owner = msg.owner /\ q.conversation = msg.conversation

\* What request r has stored.
Stored(r) ==
    \/ \E o \in Owners : <<o, r>> \in conversations \cup documents
    \/ \E msg \in messages : msg.request = r

\* What the branch of r promises with a 2xx.
Kept(r) ==
    /\ req[r].branch = "create"   => Own(r) \in conversations
    /\ req[r].branch = "register" => Own(r) \in documents
    /\ req[r].branch = "ask"      =>
        {Said(r, "user", {}), Said(r, "assistant", req[r].cited)} \subseteq messages
    /\ req[r].branch = "cancel"   => Named(r) \in canceled

\* A 2xx means that everything promised is stored, a 4xx that nothing is, but for
\* the question whose model reply was not JSON; a 500 says nothing.
AnswersMatchTables ==
    \A r \in Requests :
        /\ req[r].status \in {200, 201} => Kept(r)
        /\ req[r].status \in {401, 404} => ~Stored(r)
        /\ req[r].status = 400 /\ Stored(r) =>
            req[r].branch = "ask" /\ settings.provider = "bedrock"

\* A request for an item that its caller owns and every read returns is never
\* answered 404 (BUILD_SPEC.md:68-72).
OwnedIsServed == \A r \in Requests : req[r].due => req[r].status # 404

\* The worker reads back the owner, document and key of every document stored,
\* from S3's message and from the local server's record (worker.py:32-42).
KeysAreRecognised ==
    \A o \in Owners, r \in Requests :
        <<o, r>> \in documents =>
            LET key == DocumentKey(o, r, req[r].file) IN
            /\ EventDocument(S3Record(key)) = <<o, r, key>>
            /\ EventDocument(LocalRecord(o, r, key)) = <<o, r, key>>

-----------------------------------------------------------------------------
(* Refinement *)

\* The conversations and requests of the stored messages of a role.
InTable(role) ==
    {<<<<msg.owner, msg.conversation>>, msg.request>> :
        msg \in {said \in messages : said.role = role}}

\* Any number of requests, failing at any call, keep the chat table's promise
\* for every owner (handler.py:70-136).
ChatStore ==
    INSTANCE ChatStore WITH
        Conversations <- Pairs,
        Questions     <- Requests,
        created       <- conversations,
        asked         <- InTable("user"),
        answered      <- InTable("assistant")

ChatStoreSpec == ChatStore!Spec
=============================================================================
