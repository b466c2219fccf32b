------------------------------ MODULE ApiProofs ------------------------------
(***************************************************************************)
(* Proofs about ApiHandler.tla, for any number of owners and requests.  The *)
(* inductive invariant AInv says, for every call a request can be about to  *)
(* make, what it has found and stored until then.                           *)
(***************************************************************************)
EXTENDS ApiHandler, TLAPS

-----------------------------------------------------------------------------
(* The inductive invariant *)

\* What a request has found in the tables before its next call.
Found(r) ==
    LET at == req[r].at IN
    /\ at \in {"put_question", "model", "put_answer"} =>
           req[r].branch = "ask" /\ Named(r) \in conversations
    /\ at \in {"model", "put_answer"} => Said(r, "user", {}) \in messages
    /\ at = "mark" => req[r].branch = "cancel" /\ Named(r) \in documents
    /\ at = "sign" => Own(r) \in documents
    /\ \A item \in req[r].cited : item[1] = req[r].owner /\ item \in documents

\* Which branch makes which call, for whom, and what it cannot have stored yet.
Planned(r) ==
    LET at == req[r].at  branch == req[r].branch IN
    /\ at \notin {"new", "over"} => req[r].owner \in Owners
    /\ at = "query" => branch \in {"list", "messages"}
    /\ at = "lookup" => branch \in {"messages", "ask", "document", "cancel"}
    /\ at = "put_conversation" => branch = "create"
    /\ at \in {"put_document", "sign"} => branch = "register" /\ SafeFilename(req[r].file)
    /\ at \notin {"put_answer", "over"} => req[r].cited = {}
    /\ at # "over" => req[r].status = 0
    /\ at \in {"new", "query", "lookup", "put_conversation", "put_document",
               "put_question", "mark"} => ~Stored(r)

\* What the answer of a request says of the tables.
AnswerTrue(r) ==
    /\ req[r].status \in {200, 201} => Kept(r)
    /\ req[r].status \in {401, 404} => ~Stored(r)
    /\ req[r].status = 400 /\ Stored(r) => req[r].branch = "ask" /\ settings.provider = "bedrock"

\* The filename of a stored document has passed SAFE_FILENAME.
NameSafe(r) == \A o \in Owners : <<o, r>> \in documents => SafeFilename(req[r].file)

RequestInv(r) == Found(r) /\ Planned(r) /\ AnswerTrue(r) /\ NameSafe(r)

AInv ==
    /\ ApiTypeOK
    /\ MessagesHaveRoots
    /\ \A r \in Requests : RequestInv(r)

-----------------------------------------------------------------------------
(* What a step does *)

\* Only request r changes; it keeps what it was asked.
OnlyRequest(r) ==
    /\ req' \in [Requests -> Request]
    /\ \A s \in Requests \ {r} : req'[s] = req[s]

SameQuestion(r) ==
    /\ req'[r].branch = req[r].branch /\ req'[r].owner = req[r].owner
    /\ req'[r].id = req[r].id /\ req'[r].text = req[r].text
    /\ req'[r].file = req[r].file /\ req'[r].due = req[r].due

\* The tables only grow, by items of request r.
Grows(r) ==
    /\ settings' = settings
    /\ conversations \subseteq conversations' /\ conversations' \subseteq Pairs
    /\ documents \subseteq documents' /\ documents' \subseteq Pairs
    /\ messages \subseteq messages' /\ messages' \subseteq Message
    /\ canceled \subseteq canceled' /\ canceled' \subseteq documents'
    /\ rows \subseteq rows' /\ rows' \subseteq documents'
    /\ fresh' \subseteq Pairs
    /\ \A item \in conversations' : item \in conversations \/ item[2] = r
    /\ \A item \in documents' : item \in documents \/ item[2] = r
    /\ \A msg \in messages' : msg \in messages \/ msg.request = r

\* A request that goes to its next call changes nothing else.
LEMMA GoesEffect ==
    ASSUME ApiTypeOK, NEW r \in Requests, NEW place \in Places, Goes(r, place)
    PROVE  /\ OnlyRequest(r) /\ SameQuestion(r)
           /\ req'[r].at = place /\ req'[r].status = req[r].status
           /\ req'[r].cited = req[r].cited
    BY DEF ApiTypeOK, Goes, OnlyRequest, SameQuestion, Request

\* Nor does one that is answered.
LEMMA AnswersEffect ==
    ASSUME ApiTypeOK, NEW r \in Requests, NEW status \in Statuses, Answers(r, status)
    PROVE  /\ OnlyRequest(r) /\ SameQuestion(r)
           /\ req'[r].at = "over" /\ req'[r].status = status
           /\ req'[r].cited = req[r].cited
    BY DEF ApiTypeOK, Answers, OnlyRequest, SameQuestion, Request, Places

\* Calls that only read leave the tables as they are.
LEMMA ReadsGrow ==
    ASSUME ApiTypeOK, NEW r \in Requests,
           UNCHANGED <<settings, conversations, messages, documents, canceled, rows, fresh>>
    PROVE  Grows(r)
    BY DEF ApiTypeOK, Grows

\* What another request has found, stored and answered stays so.
LEMMA OthersKeep ==
    ASSUME AInv, NEW r \in Requests, Grows(r), NEW s \in Requests, s # r, req'[s] = req[s]
    PROVE  RequestInv(s)'
<1>. DEFINE same == req'[s] = req[s]
<1>1. RequestInv(s) /\ ApiTypeOK
    BY DEF AInv
<1>2. Stored(s)' => Stored(s)
    BY DEF Stored, Grows
<1>3. Found(s)'
    BY <1>1 DEF RequestInv, Found, Grows, Named, Own, Said
<1>4. Planned(s)'
    BY <1>1, <1>2 DEF RequestInv, Planned
<1>5. Kept(s) => Kept(s)'
    BY DEF Kept, Grows, Own, Named, Said
<1>6. AnswerTrue(s)'
    BY <1>1, <1>2, <1>5 DEF RequestInv, AnswerTrue, Grows
<1>7. NameSafe(s)'
    BY <1>1 DEF RequestInv, NameSafe, Grows
<1>8. QED
    BY <1>3, <1>4, <1>6, <1>7 DEF RequestInv

\* So a step of request r keeps the invariant when r's own part holds after it.
LEMMA StepKeeps ==
    ASSUME AInv, NEW r \in Requests, Grows(r), OnlyRequest(r),
           MessagesHaveRoots', RequestInv(r)'
    PROVE  AInv'
<1>1. ApiTypeOK'
    BY DEF AInv, ApiTypeOK, Grows, OnlyRequest
<1>2. \A s \in Requests : RequestInv(s)'
    BY OthersKeep DEF OnlyRequest
<1>3. QED
    BY <1>1, <1>2 DEF AInv

\* The roots of messages stay when none is added.
LEMMA RootsStay ==
    ASSUME AInv, NEW r \in Requests, Grows(r), messages' = messages
    PROVE  MessagesHaveRoots'
    BY DEF AInv, MessagesHaveRoots, Grows

\* An answer that says nothing of the tables, or the end of the process, keeps
\* the invariant whatever r had stored.
LEMMA SilentAnswer ==
    ASSUME AInv, NEW r \in Requests, Grows(r), MessagesHaveRoots',
           NEW status \in {0, 500}, Answers(r, status),
           \A o \in Owners : <<o, r>> \in documents' => SafeFilename(req[r].file)
    PROVE  AInv'
<1>1. /\ OnlyRequest(r) /\ SameQuestion(r)
      /\ req'[r].at = "over" /\ req'[r].status = status /\ req'[r].cited = req[r].cited
    BY AnswersEffect DEF AInv, Statuses
<1>2. \A item \in req'[r].cited : item[1] = req'[r].owner /\ item \in documents'
    BY <1>1 DEF AInv, RequestInv, Found, SameQuestion, Grows
<1>3. RequestInv(r)'
    BY <1>1, <1>2 DEF RequestInv, Found, Planned, AnswerTrue, NameSafe, SameQuestion
<1>4. QED
    BY <1>1, <1>3, StepKeeps

\* An answer that promises what is stored, or that nothing is, and is true.
LEMMA TrueAnswer ==
    ASSUME AInv, NEW r \in Requests, Grows(r), MessagesHaveRoots',
           NEW status \in Statuses, Answers(r, status),
           \A o \in Owners : <<o, r>> \in documents' => SafeFilename(req[r].file),
           AnswerTrue(r)'
    PROVE  AInv'
<1>1. /\ OnlyRequest(r) /\ SameQuestion(r)
      /\ req'[r].at = "over" /\ req'[r].status = status /\ req'[r].cited = req[r].cited
    BY AnswersEffect DEF AInv
<1>2. RequestInv(r)'
    BY <1>1 DEF AInv, RequestInv, Found, Planned, NameSafe, SameQuestion, Grows
<1>3. QED
    BY <1>1, <1>2, StepKeeps

-----------------------------------------------------------------------------
(* Arrival *)

\* What a request is when it arrives.
LEMMA BranchTyped ==
    ASSUME NEW method \in Methods, NEW path \in Paths
    PROVE  /\ Branch(method, path) \in Branches
           /\ PathId(path) \in Requests \cup {None, "upload-url"}
<1>1. Branch(method, path) \in Branches
    BY DEF Branch, Branches, Methods
<1>2. PathId(path) \in Requests \cup {None, "upload-url"}
    BY DEF PathId, Paths
<1>3. QED
    BY <1>1, <1>2

\* Where the checks before any call lead a request.
LEMMA CheckedTyped ==
    ASSUME NEW owner \in Owners \cup {None}, NEW branch \in Branches, NEW file
    PROVE  \/ Checked(owner, branch, file) = Answered(400)
           \/ Checked(owner, branch, file) = Answered(401)
           \/ Checked(owner, branch, file) = Answered(500)
           \/ branch = "me" /\ Checked(owner, branch, file) = Answered(200)
           \/ branch = "none" /\ Checked(owner, branch, file) = Answered(404)
           \/ /\ owner \in Owners
              /\ \/ branch = "list" /\ Checked(owner, branch, file) = Begins("query")
                 \/ branch = "create" /\ Checked(owner, branch, file) = Begins("put_conversation")
                 \/ /\ branch = "register" /\ SafeFilename(file)
                    /\ Checked(owner, branch, file) = Begins("put_document")
                 \/ /\ branch \in {"messages", "ask", "document", "cancel"}
                    /\ Checked(owner, branch, file) = Begins("lookup")
<1>1. CASE ~Authenticated(owner)
    BY <1>1 DEF Checked
<1>2. CASE Authenticated(owner) /\ ~Accepted(settings)
    BY <1>2 DEF Checked
<1>3. CASE Authenticated(owner) /\ Accepted(settings)
    <2>1. owner \in Owners
        BY <1>3 DEF Authenticated
    <2>2. branch = "me" => Checked(owner, branch, file) = Answered(200)
        BY <1>3, Zenon DEF Checked
    <2>3. branch = "none" => Checked(owner, branch, file) = Answered(404)
        BY <1>3, Zenon DEF Checked
    <2>4. branch = "list" => Checked(owner, branch, file) = Begins("query")
        BY <1>3, Zenon DEF Checked
    <2>5. branch = "create" => Checked(owner, branch, file) = Begins("put_conversation")
        BY <1>3, Zenon DEF Checked
    <2>6. branch = "register" =>
             Checked(owner, branch, file) = IF SafeFilename(file) THEN Begins("put_document")
                                            ELSE Answered(400)
        BY <1>3, Zenon DEF Checked
    <2>7. branch \in {"messages", "ask", "document", "cancel"} =>
             Checked(owner, branch, file) = Begins("lookup")
        BY <1>3, Zenon DEF Checked
    <2>8. QED
        BY <2>1, <2>2, <2>3, <2>4, <2>5, <2>6, <2>7 DEF Branches
<1>4. QED
    BY <1>1, <1>2, <1>3


\* Most branches promise nothing that is stored.
LEMMA Unpromised ==
    ASSUME NEW r, req'[r].branch \notin {"create", "register", "ask", "cancel"}
    PROVE  Kept(r)'
    BY DEF Kept

\* An answer is true when what it promises is stored,
LEMMA GoodAnswer ==
    ASSUME NEW r, req'[r].status \in {200, 201}, Kept(r)'
    PROVE  AnswerTrue(r)'
    BY DEF AnswerTrue

\* when nothing is stored and it refuses,
LEMMA ClientAnswer ==
    ASSUME NEW r, req'[r].status \in {400, 401, 404}, ~Stored(r)'
    PROVE  AnswerTrue(r)'
    BY DEF AnswerTrue

\* and when it says nothing.
LEMMA NoAnswer ==
    ASSUME NEW r, req'[r].status \in {0, 500}
    PROVE  AnswerTrue(r)'
    BY DEF AnswerTrue

\* A request that arrives has stored nothing, and its answer says no more.
LEMMA ArriveKeeps ==
    ASSUME AInv, NEW r \in Requests, Arrive(r)
    PROVE  AInv'
<1>1. PICK owner \in Owners \cup {None}, method \in Methods, path \in Paths,
           text \in BOOLEAN, file \in Names \cup {<<>>} :
        req' = [req EXCEPT ![r] = Arrived(owner, method, path, text, file)]
    BY Zenon DEF Arrive
<1>2. PICK branch \in Branches : branch = Branch(method, path)
    BY BranchTyped
<1>3. PICK first :
      /\ first = Checked(owner, branch, file)
      /\ \/ first = Answered(400) \/ first = Answered(401) \/ first = Answered(500)
         \/ branch = "me" /\ first = Answered(200)
         \/ branch = "none" /\ first = Answered(404)
         \/ owner \in Owners /\ branch = "list" /\ first = Begins("query")
         \/ owner \in Owners /\ branch = "create" /\ first = Begins("put_conversation")
         \/ /\ owner \in Owners /\ branch = "register" /\ SafeFilename(file)
            /\ first = Begins("put_document")
         \/ /\ owner \in Owners /\ branch \in {"messages", "ask", "document", "cancel"}
            /\ first = Begins("lookup")
    <2>1. PICK c : c = Checked(owner, branch, file)
        OBVIOUS
    <2>2. QED
        BY <2>1, CheckedTyped
<1>4. Arrived(owner, method, path, text, file) =
          [at |-> first.at, branch |-> branch, owner |-> owner, id |-> PathId(path),
           text |-> text, file |-> file, cited |-> {}, status |-> first.status,
           due |-> Due(owner, method, path)]
    BY <1>2, <1>3 DEF Arrived
<1>5. /\ req'[r] \in Request
      /\ req'[r].at = first.at /\ req'[r].branch = branch /\ req'[r].owner = owner
      /\ req'[r].file = file /\ req'[r].cited = {} /\ req'[r].status = first.status
    <2>1. req'[r] = Arrived(owner, method, path, text, file)
        BY <1>1 DEF AInv, ApiTypeOK
    <2>2. Due(owner, method, path) \in BOOLEAN
        BY DEF Due
    <2>3. first.at \in Places /\ first.status \in Statuses
        <3>1. /\ first.at \in {"over", "query", "put_conversation", "put_document", "lookup"}
              /\ first.status \in {0, 200, 400, 401, 404, 500}
            BY <1>3 DEF Answered, Begins
        <3>2. QED
            BY <3>1 DEF Places, Statuses
    <2>4. PathId(path) \in Requests \cup {None, "upload-url"}
        BY BranchTyped
    <2>5. QED
        BY <1>2, <1>4, <2>1, <2>2, <2>3, <2>4 DEF Request
<1>6. OnlyRequest(r)
    BY <1>1, <1>5 DEF OnlyRequest, AInv, ApiTypeOK
<1>7. Grows(r) /\ MessagesHaveRoots'
    BY ReadsGrow, RootsStay DEF Arrive, AInv
<1>8. ~Stored(r)'
    BY DEF Arrive, AInv, RequestInv, Planned, Stored
<1>9. RequestInv(r)'
    <2>1. CASE \/ first = Answered(400) \/ first = Answered(401) \/ first = Answered(500)
               \/ branch = "none" /\ first = Answered(404)
        <3>1. req'[r].at = "over" /\ req'[r].status \in {400, 401, 404, 500}
            BY <1>5, <2>1 DEF Answered
        <3>2. AnswerTrue(r)'
            BY <1>8, <3>1, ClientAnswer, NoAnswer
        <3>3. QED
            BY <1>5, <1>8, <3>1, <3>2 DEF RequestInv, Found, Planned, NameSafe, Stored
    <2>2. CASE branch = "me" /\ first = Answered(200)
        <3>1. req'[r].at = "over" /\ req'[r].status = 200 /\ req'[r].branch = "me"
            BY <1>5, <2>2 DEF Answered
        <3>2. AnswerTrue(r)'
            BY <3>1, GoodAnswer, Unpromised
        <3>3. QED
            BY <1>5, <1>8, <3>1, <3>2 DEF RequestInv, Found, Planned, NameSafe, Stored
    <2>3. ASSUME NEW place \in {"query", "put_conversation", "put_document", "lookup"},
                 first = Begins(place), owner \in Owners,
                 place = "query" => branch = "list",
                 place = "put_conversation" => branch = "create",
                 place = "put_document" => branch = "register" /\ SafeFilename(file),
                 place = "lookup" => branch \in {"messages", "ask", "document", "cancel"}
          PROVE  RequestInv(r)'
        <3>1. req'[r].at = place /\ req'[r].status = 0
            BY <1>5, <2>3 DEF Begins
        <3>2. AnswerTrue(r)'
            <4>1. req'[r].status \in {0, 500}
                BY <3>1
            <4>2. QED
                BY <4>1, NoAnswer
        <3>3. Found(r)'
            BY <1>5, <2>3, <3>1 DEF Found
        <3>4. Planned(r)'
            BY <1>5, <1>8, <2>3, <3>1 DEF Planned
        <3>5. QED
            BY <1>8, <3>2, <3>3, <3>4 DEF RequestInv, NameSafe, Stored
    <2>4. QED
        BY <1>3, <2>1, <2>2, <2>3
<1>10. QED
    BY <1>6, <1>7, <1>9, StepKeeps

-----------------------------------------------------------------------------
(* Reads *)

\* An answer after a read is true: what it says of the tables was so before.
LEMMA ReadAnswer ==
    ASSUME AInv, NEW r \in Requests, NEW status \in Statuses, Answers(r, status),
           UNCHANGED <<settings, conversations, messages, documents, canceled, rows, fresh>>,
           AnswerTrue(r)'
    PROVE  AInv'
<1>1. Grows(r) /\ MessagesHaveRoots'
    BY ReadsGrow, RootsStay DEF AInv
<1>2. \A o \in Owners : <<o, r>> \in documents' => SafeFilename(req[r].file)
    BY DEF AInv, RequestInv, NameSafe
<1>3. QED
    BY <1>1, <1>2, TrueAnswer

\* A call that reads may go on to the next one.
LEMMA ReadGoes ==
    ASSUME AInv, NEW r \in Requests, NEW place \in Places, Goes(r, place),
           UNCHANGED <<settings, conversations, messages, documents, canceled, rows, fresh>>,
           RequestInv(r)'
    PROVE  AInv'
<1>1. Grows(r) /\ MessagesHaveRoots'
    BY ReadsGrow, RootsStay DEF AInv
<1>2. OnlyRequest(r)
    BY GoesEffect DEF AInv
<1>3. QED
    BY <1>1, <1>2, StepKeeps

\* A failed call says nothing of the tables.
LEMMA FailsKeeps ==
    ASSUME AInv, NEW r \in Requests,
           NEW status \in {0, 500}, Answers(r, status),
           UNCHANGED <<settings, conversations, messages, documents, canceled, rows, fresh>>
    PROVE  AInv'
<1>1. Grows(r) /\ MessagesHaveRoots'
    BY ReadsGrow, RootsStay DEF AInv
<1>2. \A o \in Owners : <<o, r>> \in documents' => SafeFilename(req[r].file)
    BY DEF AInv, RequestInv, NameSafe
<1>3. QED
    BY <1>1, <1>2, SilentAnswer

\* A query promises nothing that is stored.
LEMMA QueryKeeps ==
    ASSUME AInv, NEW r \in Requests, Query(r)
    PROVE  AInv'
<1>1. CASE Answers(r, 200)
    <2>1. req'[r].status = 200 /\ req'[r].branch = req[r].branch
        BY <1>1, AnswersEffect DEF AInv, Statuses, SameQuestion
    <2>2. req[r].branch \in {"list", "messages"}
        BY DEF Query, AInv, RequestInv, Planned
    <2>3. AnswerTrue(r)'
        <3>1. Kept(r)'
            BY <2>1, <2>2, Unpromised
        <3>2. QED
            BY <2>1, <3>1, GoodAnswer
    <2>4. QED
        BY <1>1, <2>3, ReadAnswer DEF Query, Statuses
<1>2. CASE Answers(r, 500) \/ Answers(r, 0)
    BY <1>2, FailsKeeps DEF Query
<1>3. QED
    BY <1>1, <1>2 DEF Query, ThenAnswer

\* A request that looks something up has stored nothing.
LEMMA LookUpStart ==
    ASSUME AInv, NEW r \in Requests, req[r].at = "lookup"
    PROVE  /\ ~Stored(r) /\ req[r].owner \in Owners /\ req[r].cited = {} /\ req[r].status = 0
           /\ \A o \in Owners : <<o, r>> \notin documents
<1>1. Planned(r)
    BY DEF AInv, RequestInv
<1>2. QED
    BY <1>1 DEF Planned, Stored

\* It may be answered that the item is missing or the body wrong,
LEMMA LookUpRefuses ==
    ASSUME AInv, NEW r \in Requests, req[r].at = "lookup",
           UNCHANGED <<settings, conversations, messages, documents, canceled, rows, fresh>>,
           NEW status \in {400, 404}, Answers(r, status)
    PROVE  AInv'
<1>1. status \in Statuses
    BY DEF Statuses
<1>2. req'[r].status = status
    BY <1>1, AnswersEffect DEF AInv
<1>3. ~Stored(r)'
    <2>1. ~Stored(r)
        BY LookUpStart
    <2>2. QED
        BY <2>1 DEF Stored
<1>4. AnswerTrue(r)'
    <2>1. req'[r].status \in {400, 401, 404}
        BY <1>2
    <2>2. QED
        BY <1>3, <2>1, ClientAnswer
<1>5. QED
    BY <1>1, <1>4, ReadAnswer

\* or go on with what it found.
LEMMA LookUpGoes ==
    ASSUME AInv, NEW r \in Requests, req[r].at = "lookup",
           UNCHANGED <<settings, conversations, messages, documents, canceled, rows, fresh>>,
           NEW place \in {"query", "put_question", "mark"}, Goes(r, place),
           place = "query" => req[r].branch \in {"list", "messages"},
           place = "put_question" => req[r].branch = "ask" /\ Named(r) \in conversations,
           place = "mark" => req[r].branch = "cancel" /\ Named(r) \in documents
    PROVE  AInv'
<1>1. /\ SameQuestion(r) /\ req'[r].at = place /\ place \in Places
      /\ req'[r].cited = {} /\ req'[r].status = 0
    BY LookUpStart, GoesEffect DEF AInv, Places
<1>2. Named(r)' = Named(r)
    BY <1>1 DEF Named, SameQuestion
<1>3. ~Stored(r)'
    <2>1. ~Stored(r)
        BY LookUpStart
    <2>2. QED
        BY <2>1 DEF Stored
<1>4. Found(r)'
    BY <1>1, <1>2 DEF Found, SameQuestion
<1>5. Planned(r)'
    BY <1>1, <1>3, LookUpStart DEF Planned, SameQuestion
<1>6. AnswerTrue(r)'
    <2>1. req'[r].status \in {0, 500}
        BY <1>1
    <2>2. QED
        BY <2>1, NoAnswer
<1>7. NameSafe(r)'
    BY <1>3 DEF NameSafe, Stored
<1>8. RequestInv(r)'
    BY <1>4, <1>5, <1>6, <1>7 DEF RequestInv
<1>9. QED
    BY <1>1, <1>8, ReadGoes

\* The lookup of a conversation,
LEMMA FindConversationKeeps ==
    ASSUME AInv, NEW r \in Requests, FindConversation(r)
    PROVE  AInv'
<1>1. /\ req[r].at = "lookup"
      /\ UNCHANGED <<settings, conversations, messages, documents, canceled, rows, fresh>>
      /\ \E found \in Sees(conversations, Named(r)) :
            \/ ~found /\ Answers(r, 404)
            \/ found /\ req[r].branch = "messages" /\ Goes(r, "query")
            \/ found /\ req[r].branch = "ask" /\ Goes(r, "put_question")
            \/ found /\ req[r].branch = "ask" /\ Answers(r, 400)
    <2>1. PICK found \in Sees(conversations, Named(r)) :
            \/ ~found /\ Answers(r, 404)
            \/ found /\ req[r].branch = "messages" /\ Goes(r, "query")
            \/ found /\ req[r].branch = "ask" /\ req[r].text /\ Goes(r, "put_question")
            \/ found /\ req[r].branch = "ask" /\ ~req[r].text /\ Answers(r, 400)
        BY Zenon DEF FindConversation
    <2>2. QED
        BY <2>1 DEF FindConversation
<1>2. \A found \in Sees(conversations, Named(r)) : found => Named(r) \in conversations
    BY DEF Sees
<1>3. \/ Answers(r, 404) \/ Answers(r, 400)
      \/ req[r].branch = "messages" /\ Goes(r, "query")
      \/ req[r].branch = "ask" /\ Named(r) \in conversations /\ Goes(r, "put_question")
    BY <1>1, <1>2, Zenon
<1>4. CASE Answers(r, 404)
    BY <1>1, <1>4, LookUpRefuses
<1>5. CASE Answers(r, 400)
    BY <1>1, <1>5, LookUpRefuses
<1>6. CASE req[r].branch = "messages" /\ Goes(r, "query")
    BY <1>1, <1>6, LookUpGoes
<1>7. CASE req[r].branch = "ask" /\ Named(r) \in conversations /\ Goes(r, "put_question")
    BY <1>1, <1>7, LookUpGoes
<1>8. QED
    BY <1>3, <1>4, <1>5, <1>6, <1>7

\* and that of a document.
LEMMA FindDocumentKeeps ==
    ASSUME AInv, NEW r \in Requests, FindDocument(r)
    PROVE  AInv'
<1>1. /\ req[r].at = "lookup"
      /\ UNCHANGED <<settings, conversations, messages, documents, canceled, rows, fresh>>
      /\ \E found \in Sees(documents, Named(r)) :
            \/ ~found /\ Answers(r, 404)
            \/ found /\ req[r].branch = "document" /\ Answers(r, 200)
            \/ found /\ req[r].branch = "cancel" /\ Goes(r, "mark")
    BY Zenon DEF FindDocument
<1>2. \A found \in Sees(documents, Named(r)) : found => Named(r) \in documents
    BY DEF Sees
<1>3. \/ Answers(r, 404)
      \/ req[r].branch = "document" /\ Answers(r, 200)
      \/ req[r].branch = "cancel" /\ Named(r) \in documents /\ Goes(r, "mark")
    BY <1>1, <1>2, Zenon
<1>4. CASE req[r].branch = "document" /\ Answers(r, 200)
    <2>1. req'[r].status = 200 /\ req'[r].branch = "document"
        BY <1>4, AnswersEffect DEF AInv, Statuses, SameQuestion
    <2>2. AnswerTrue(r)'
        BY <2>1, GoodAnswer, Unpromised
    <2>3. QED
        BY <1>1, <1>4, <2>2, ReadAnswer DEF Statuses
<1>5. CASE Answers(r, 404)
    BY <1>1, <1>5, LookUpRefuses
<1>6. CASE req[r].branch = "cancel" /\ Named(r) \in documents /\ Goes(r, "mark")
    BY <1>1, <1>6, LookUpGoes
<1>7. QED
    BY <1>3, <1>4, <1>5, <1>6

\* The model's reply is cited from the caller's rows, or is not JSON.
LEMMA AskModelKeeps ==
    ASSUME AInv, NEW r \in Requests, AskModel(r)
    PROVE  AInv'
<1>1. /\ ApiTypeOK /\ Found(r) /\ Planned(r) /\ NameSafe(r) /\ req[r].at = "model"
      /\ UNCHANGED <<settings, conversations, messages, documents, canceled, rows, fresh>>
    BY DEF AInv, RequestInv, AskModel, Replies
<1>2. req[r].branch = "ask" /\ Named(r) \in conversations /\ Said(r, "user", {}) \in messages
    BY <1>1 DEF Found
<1>3. req[r].owner \in Owners /\ req[r].status = 0
    BY <1>1 DEF Planned
<1>4. ASSUME NEW cited \in SUBSET Retrievable(req[r].owner),
             req' = [req EXCEPT ![r].at = "put_answer", ![r].cited = cited]
      PROVE  AInv'
    <2>1. \A item \in cited : item \in documents /\ item[1] = req[r].owner
        BY <1>1 DEF Retrievable, ApiTypeOK
    <2>2. cited \in SUBSET Pairs
        BY <1>1, <2>1 DEF ApiTypeOK
    <2>3. /\ OnlyRequest(r) /\ SameQuestion(r) /\ req'[r].at = "put_answer"
          /\ req'[r].cited = cited /\ req'[r].status = 0
        BY <1>1, <1>3, <1>4, <2>2 DEF ApiTypeOK, OnlyRequest, SameQuestion, Request, Places
    <2>4. Found(r)'
        BY <1>1, <1>2, <2>1, <2>3 DEF Found, Named, Said, SameQuestion
    <2>5. Planned(r)'
        BY <1>3, <2>3 DEF Planned, SameQuestion
    <2>6. AnswerTrue(r)'
        BY <2>3, NoAnswer
    <2>7. NameSafe(r)'
        BY <1>1, <2>3 DEF NameSafe, SameQuestion
    <2>8. Grows(r) /\ MessagesHaveRoots'
        BY <1>1, ReadsGrow, RootsStay
    <2>9. QED
        BY <2>3, <2>4, <2>5, <2>6, <2>7, <2>8, StepKeeps DEF RequestInv
<1>5. ASSUME settings.provider = "bedrock", Answers(r, 400)
      PROVE  AInv'
    <2>1. req'[r].status = 400 /\ req'[r].branch = "ask"
        BY <1>1, <1>2, <1>5, AnswersEffect DEF Statuses, SameQuestion
    <2>2. AnswerTrue(r)'
        BY <1>1, <1>5, <2>1 DEF AnswerTrue
    <2>3. QED
        BY <1>1, <1>5, <2>2, ReadAnswer DEF Statuses
<1>6. QED
    BY <1>4, <1>5 DEF AskModel, Replies

-----------------------------------------------------------------------------
(* Writes *)

\* A call that was applied may be followed by its answer being lost.
LEMMA AppliedUnanswered ==
    ASSUME AInv, NEW r \in Requests, Grows(r), MessagesHaveRoots',
           Answers(r, 500) \/ Answers(r, 0),
           \A o \in Owners : <<o, r>> \in documents' => SafeFilename(req[r].file)
    PROVE  AInv'
<1>1. CASE Answers(r, 500)
    BY <1>1, SilentAnswer
<1>2. CASE Answers(r, 0)
    BY <1>2, SilentAnswer
<1>3. QED
    BY <1>1, <1>2

\* A conversation is stored before its 201.
LEMMA CreateConversationKeeps ==
    ASSUME AInv, NEW r \in Requests, CreateConversation(r)
    PROVE  AInv'
<1>1. ApiTypeOK /\ Planned(r) /\ NameSafe(r) /\ req[r].at = "put_conversation"
    BY DEF AInv, RequestInv, CreateConversation
<1>2. req[r].owner \in Owners /\ req[r].branch = "create"
    BY <1>1 DEF Planned
<1>3. Own(r) \in Pairs /\ Own(r)[2] = r
    BY <1>2 DEF Own, Pairs
<1>4. /\ conversations' = conversations \cup {Own(r)} /\ fresh' = fresh \cup {Own(r)}
      /\ UNCHANGED <<settings, messages, documents, canceled, rows>>
      /\ ThenAnswer(r, 201)
    BY DEF CreateConversation
<1>5. Grows(r)
    BY <1>1, <1>3, <1>4 DEF Grows, ApiTypeOK
<1>6. MessagesHaveRoots'
    BY <1>4, <1>5, RootsStay
<1>7. \A o \in Owners : <<o, r>> \in documents' => SafeFilename(req[r].file)
    BY <1>1, <1>4 DEF NameSafe
<1>8. CASE Answers(r, 201)
    <2>1. req'[r].status = 201 /\ SameQuestion(r)
        BY <1>1, <1>8, AnswersEffect DEF Statuses
    <2>2. Own(r)' \in conversations'
        BY <1>4, <2>1 DEF Own, SameQuestion
    <2>3. Kept(r)'
        BY <1>2, <2>1, <2>2 DEF Kept, SameQuestion
    <2>4. AnswerTrue(r)'
        BY <2>1, <2>3, GoodAnswer
    <2>5. QED
        BY <1>5, <1>6, <1>7, <1>8, <2>4, TrueAnswer DEF Statuses
<1>9. QED
    BY <1>4, <1>5, <1>6, <1>7, <1>8, AppliedUnanswered DEF ThenAnswer

\* A question about a conversation is a message of its owner.
LEMMA SaidTyped ==
    ASSUME AInv, NEW r \in Requests, Named(r) \in conversations, NEW cited \in SUBSET Pairs,
           NEW role \in {"user", "assistant"}
    PROVE  /\ Said(r, role, cited) \in Message
           /\ <<Said(r, role, cited).owner, Said(r, role, cited).conversation>> = Named(r)
<1>1. Named(r) \in Pairs
    BY DEF AInv, ApiTypeOK
<1>2. req[r].owner \in Owners /\ req[r].id \in Requests
    BY <1>1 DEF Named, Pairs
<1>3. QED
    BY <1>2 DEF Said, Message, Named

\* A question is stored in a conversation that its owner has.
LEMMA SaveQuestionKeeps ==
    ASSUME AInv, NEW r \in Requests, SaveQuestion(r)
    PROVE  AInv'
<1>1. /\ ApiTypeOK /\ Found(r) /\ Planned(r) /\ NameSafe(r) /\ MessagesHaveRoots
      /\ req[r].at = "put_question"
    BY DEF AInv, RequestInv, SaveQuestion
<1>2. req[r].branch = "ask" /\ Named(r) \in conversations
    BY <1>1 DEF Found
<1>3. req[r].owner \in Owners /\ req[r].cited = {} /\ req[r].status = 0
    BY <1>1 DEF Planned
<1>4. /\ messages' = messages \cup {Said(r, "user", {})} /\ Then(r, "model")
      /\ UNCHANGED <<settings, conversations, documents, canceled, rows, fresh>>
    BY DEF SaveQuestion
<1>5. /\ Said(r, "user", {}) \in Message /\ Said(r, "user", {}).request = r
      /\ Said(r, "user", {}).role = "user" /\ Said(r, "user", {}).cited = {}
      /\ <<Said(r, "user", {}).owner, Said(r, "user", {}).conversation>> = Named(r)
    BY <1>2, SaidTyped DEF Said
<1>6. Grows(r)
    BY <1>1, <1>4, <1>5 DEF Grows, ApiTypeOK
<1>7. MessagesHaveRoots'
    BY <1>1, <1>2, <1>4, <1>5 DEF MessagesHaveRoots
<1>8. \A o \in Owners : <<o, r>> \in documents' => SafeFilename(req[r].file)
    BY <1>1, <1>4 DEF NameSafe
<1>9. CASE Goes(r, "model")
    <2>1. /\ OnlyRequest(r) /\ SameQuestion(r) /\ req'[r].at = "model"
          /\ req'[r].cited = {} /\ req'[r].status = 0
        BY <1>1, <1>3, <1>9, GoesEffect DEF Places
    <2>2. Named(r)' = Named(r) /\ Said(r, "user", {})' = Said(r, "user", {})
        BY <2>1 DEF Named, Said, SameQuestion
    <2>3. Found(r)'
        BY <1>2, <1>4, <2>1, <2>2 DEF Found, SameQuestion
    <2>4. Planned(r)'
        BY <1>3, <2>1 DEF Planned, SameQuestion
    <2>5. AnswerTrue(r)'
        BY <2>1, NoAnswer
    <2>6. NameSafe(r)'
        BY <1>8, <2>1 DEF NameSafe, SameQuestion
    <2>7. QED
        BY <1>6, <1>7, <2>1, <2>3, <2>4, <2>5, <2>6, StepKeeps DEF RequestInv
<1>10. QED
    BY <1>4, <1>6, <1>7, <1>8, <1>9, AppliedUnanswered DEF Then

\* An answer is stored beside its question, with citations of its owner's documents.
LEMMA SaveAnswerKeeps ==
    ASSUME AInv, NEW r \in Requests, SaveAnswer(r)
    PROVE  AInv'
<1>. DEFINE answer == Said(r, "assistant", req[r].cited)
<1>1. /\ ApiTypeOK /\ Found(r) /\ Planned(r) /\ NameSafe(r) /\ MessagesHaveRoots
      /\ req[r].at = "put_answer"
    BY DEF AInv, RequestInv, SaveAnswer
<1>2. /\ req[r].branch = "ask" /\ Named(r) \in conversations /\ Said(r, "user", {}) \in messages
      /\ \A item \in req[r].cited : item[1] = req[r].owner /\ item \in documents
    BY <1>1 DEF Found
<1>3. /\ messages' = messages \cup {answer} /\ ThenAnswer(r, 201)
      /\ UNCHANGED <<settings, conversations, documents, canceled, rows, fresh>>
    BY DEF SaveAnswer
<1>4. req[r].cited \in SUBSET Pairs
    BY <1>1 DEF ApiTypeOK, Request
<1>5. /\ answer \in Message /\ answer.request = r /\ answer.cited = req[r].cited
      /\ answer.owner = req[r].owner /\ answer.conversation = req[r].id
      /\ <<answer.owner, answer.conversation>> = Named(r)
    BY <1>2, <1>4, SaidTyped DEF Said
<1>6. /\ Said(r, "user", {}).role = "user" /\ Said(r, "user", {}).request = r
      /\ Said(r, "user", {}).owner = req[r].owner
      /\ Said(r, "user", {}).conversation = req[r].id
    BY DEF Said
<1>. HIDE DEF answer
<1>7. Grows(r)
    BY <1>1, <1>3, <1>5 DEF Grows, ApiTypeOK
<1>8. MessagesHaveRoots'
    <2>1. ASSUME NEW msg \in messages
          PROVE  /\ <<msg.owner, msg.conversation>> \in conversations'
                 /\ \A item \in msg.cited : item[1] = msg.owner /\ item \in documents'
                 /\ msg.role = "assistant" =>
                     \E q \in messages' : /\ q.role = "user" /\ q.request = msg.request
                                          /\ q.owner = msg.owner
                                          /\ q.conversation = msg.conversation
        BY <1>1, <1>3, <2>1 DEF MessagesHaveRoots
    <2>2. /\ <<answer.owner, answer.conversation>> \in conversations'
          /\ \A item \in answer.cited : item[1] = answer.owner /\ item \in documents'
          /\ \E q \in messages' : /\ q.role = "user" /\ q.request = answer.request
                                  /\ q.owner = answer.owner
                                  /\ q.conversation = answer.conversation
        BY <1>2, <1>3, <1>5, <1>6
    <2>3. ASSUME NEW msg \in messages'
          PROVE  /\ <<msg.owner, msg.conversation>> \in conversations'
                 /\ \A item \in msg.cited : item[1] = msg.owner /\ item \in documents'
                 /\ msg.role = "assistant" =>
                     \E q \in messages' : /\ q.role = "user" /\ q.request = msg.request
                                          /\ q.owner = msg.owner
                                          /\ q.conversation = msg.conversation
        <3>1. CASE msg \in messages
            BY <2>1, <3>1
        <3>2. CASE msg = answer
            BY <2>2, <3>2
        <3>3. QED
            BY <1>3, <3>1, <3>2
    <2>4. QED
        BY <2>3 DEF MessagesHaveRoots
<1>9. \A o \in Owners : <<o, r>> \in documents' => SafeFilename(req[r].file)
    BY <1>1, <1>3 DEF NameSafe
<1>10. CASE Answers(r, 201)
    <2>1. req'[r].status = 201 /\ SameQuestion(r) /\ req'[r].cited = req[r].cited
        BY <1>1, <1>10, AnswersEffect DEF Statuses
    <2>2. /\ Said(r, "user", {})' = Said(r, "user", {})
          /\ Said(r, "assistant", req[r].cited)' = answer
        BY <2>1 DEF Said, SameQuestion, answer
    <2>3. {Said(r, "user", {})', Said(r, "assistant", req[r].cited)'} \subseteq messages'
        BY <1>2, <1>3, <2>2
    <2>4. Kept(r)'
        BY <1>2, <2>1, <2>3 DEF Kept, SameQuestion
    <2>5. AnswerTrue(r)'
        BY <2>1, <2>4, GoodAnswer
    <2>6. QED
        BY <1>7, <1>8, <1>9, <1>10, <2>5, TrueAnswer DEF Statuses
<1>11. QED
    BY <1>3, <1>7, <1>8, <1>9, <1>10, AppliedUnanswered DEF ThenAnswer

\* A document is stored, under a filename that SAFE_FILENAME lets through, before
\* its URL is signed.
LEMMA CreateDocumentKeeps ==
    ASSUME AInv, NEW r \in Requests, CreateDocument(r)
    PROVE  AInv'
<1>1. ApiTypeOK /\ Planned(r) /\ req[r].at = "put_document"
    BY DEF AInv, RequestInv, CreateDocument
<1>2. /\ req[r].owner \in Owners /\ req[r].branch = "register" /\ SafeFilename(req[r].file)
      /\ req[r].cited = {} /\ req[r].status = 0
    BY <1>1 DEF Planned
<1>3. Own(r) \in Pairs /\ Own(r)[2] = r
    BY <1>2 DEF Own, Pairs
<1>4. /\ documents' = documents \cup {Own(r)} /\ fresh' = fresh \cup {Own(r)}
      /\ UNCHANGED <<settings, conversations, messages, canceled, rows>>
      /\ Then(r, "sign")
    BY DEF CreateDocument
<1>5. Grows(r)
    BY <1>1, <1>3, <1>4 DEF Grows, ApiTypeOK
<1>6. MessagesHaveRoots'
    BY <1>4, <1>5, RootsStay
<1>7. CASE Goes(r, "sign")
    <2>1. /\ OnlyRequest(r) /\ SameQuestion(r) /\ req'[r].at = "sign"
          /\ req'[r].cited = {} /\ req'[r].status = 0
        BY <1>1, <1>2, <1>7, GoesEffect DEF Places
    <2>2. Own(r)' \in documents'
        BY <1>4, <2>1 DEF Own, SameQuestion
    <2>3. Found(r)'
        BY <2>1, <2>2 DEF Found
    <2>4. Planned(r)'
        BY <1>2, <2>1 DEF Planned, SameQuestion
    <2>5. AnswerTrue(r)'
        BY <2>1, NoAnswer
    <2>6. NameSafe(r)'
        BY <1>2, <2>1 DEF NameSafe, SameQuestion
    <2>7. QED
        BY <1>5, <1>6, <2>1, <2>3, <2>4, <2>5, <2>6, StepKeeps DEF RequestInv
<1>8. QED
    BY <1>2, <1>4, <1>5, <1>6, <1>7, AppliedUnanswered DEF Then

\* The URL of a stored document.
LEMMA SignUrlKeeps ==
    ASSUME AInv, NEW r \in Requests, SignUrl(r)
    PROVE  AInv'
<1>1. /\ ApiTypeOK /\ Found(r) /\ Planned(r) /\ req[r].at = "sign" /\ Answers(r, 201)
      /\ UNCHANGED <<settings, conversations, messages, documents, canceled, rows, fresh>>
    BY DEF AInv, RequestInv, SignUrl
<1>2. Own(r) \in documents /\ req[r].branch = "register"
    BY <1>1 DEF Found, Planned
<1>3. req'[r].status = 201 /\ SameQuestion(r)
    BY <1>1, AnswersEffect DEF Statuses
<1>4. Own(r)' \in documents'
    BY <1>1, <1>2, <1>3 DEF Own, SameQuestion
<1>5. Kept(r)'
    BY <1>2, <1>3, <1>4 DEF Kept, SameQuestion
<1>6. AnswerTrue(r)'
    BY <1>3, <1>5, GoodAnswer
<1>7. QED
    BY <1>1, <1>6, ReadAnswer DEF Statuses

\* A document is marked before the 200 of its cancellation.
LEMMA MarkDocumentFailedKeeps ==
    ASSUME AInv, NEW r \in Requests, MarkDocumentFailed(r)
    PROVE  AInv'
<1>1. ApiTypeOK /\ Found(r) /\ NameSafe(r) /\ req[r].at = "mark"
    BY DEF AInv, RequestInv, MarkDocumentFailed
<1>2. req[r].branch = "cancel" /\ Named(r) \in documents
    BY <1>1 DEF Found
<1>3. /\ canceled' = canceled \cup {Named(r)} /\ ThenAnswer(r, 200)
      /\ UNCHANGED <<settings, conversations, messages, documents, rows, fresh>>
    BY DEF MarkDocumentFailed
<1>4. Grows(r)
    BY <1>1, <1>2, <1>3 DEF Grows, ApiTypeOK
<1>5. MessagesHaveRoots'
    BY <1>3, <1>4, RootsStay
<1>6. \A o \in Owners : <<o, r>> \in documents' => SafeFilename(req[r].file)
    BY <1>1, <1>3 DEF NameSafe
<1>7. CASE Answers(r, 200)
    <2>1. req'[r].status = 200 /\ SameQuestion(r)
        BY <1>1, <1>7, AnswersEffect DEF Statuses
    <2>2. Named(r)' \in canceled'
        BY <1>3, <2>1 DEF Named, SameQuestion
    <2>3. Kept(r)'
        BY <1>2, <2>1, <2>2 DEF Kept, SameQuestion
    <2>4. AnswerTrue(r)'
        BY <2>1, <2>3, GoodAnswer
    <2>5. QED
        BY <1>4, <1>5, <1>6, <1>7, <2>4, TrueAnswer DEF Statuses
<1>8. QED
    BY <1>3, <1>4, <1>5, <1>6, <1>7, AppliedUnanswered DEF ThenAnswer

-----------------------------------------------------------------------------
(* The invariant *)

\* No request has arrived and the tables are empty.
LEMMA InitHolds == ApiInit => AInv
<1>. SUFFICES ASSUME ApiInit PROVE AInv
    OBVIOUS
<1>1. NewRequest \in Request
    BY ApiAssumption DEF NewRequest, Request, Places, Branches, Statuses
<1>2. ApiTypeOK
    BY <1>1 DEF ApiInit, ApiTypeOK
<1>3. MessagesHaveRoots
    BY DEF ApiInit, MessagesHaveRoots
<1>4. ASSUME NEW r \in Requests
      PROVE  RequestInv(r)
    <2>1. /\ req[r].at = "new" /\ req[r].status = 0 /\ req[r].cited = {}
          /\ conversations = {} /\ documents = {} /\ messages = {}
        BY DEF ApiInit, NewRequest
    <2>2. ~Stored(r)
        BY <2>1 DEF Stored
    <2>3. Found(r) /\ Planned(r) /\ NameSafe(r)
        BY <2>1, <2>2 DEF Found, Planned, NameSafe
    <2>4. AnswerTrue(r)
        BY <2>1 DEF AnswerTrue
    <2>5. QED
        BY <2>3, <2>4 DEF RequestInv
<1>5. QED
    BY <1>2, <1>3, <1>4 DEF AInv

\* The table's replication and the worker touch no request.
LEMMA OutsideKeeps ==
    ASSUME AInv, NEW item \in Pairs, Replicate(item) \/ StoreRow(item)
    PROVE  AInv'
<1>1. /\ UNCHANGED <<settings, req, conversations, messages, documents, canceled>>
      /\ rows' \subseteq documents' /\ fresh' \subseteq fresh
    BY DEF Replicate, StoreRow, AInv, ApiTypeOK
<1>2. ApiTypeOK'
    BY <1>1 DEF AInv, ApiTypeOK
<1>3. MessagesHaveRoots'
    BY <1>1 DEF AInv, MessagesHaveRoots
<1>4. ASSUME NEW r \in Requests
      PROVE  RequestInv(r)'
    <2>1. RequestInv(r)
        BY DEF AInv
    <2>2. Found(r)'
        BY <1>1, <2>1 DEF RequestInv, Found, Named, Own, Said
    <2>3. Stored(r)' = Stored(r)
        BY <1>1 DEF Stored
    <2>4. Planned(r)'
        BY <1>1, <2>1, <2>3 DEF RequestInv, Planned
    <2>5. Kept(r) => Kept(r)'
        BY <1>1 DEF Kept, Own, Named, Said
    <2>6. AnswerTrue(r)'
        BY <1>1, <2>1, <2>3, <2>5 DEF RequestInv, AnswerTrue
    <2>7. NameSafe(r)'
        BY <1>1, <2>1 DEF RequestInv, NameSafe
    <2>8. QED
        BY <2>2, <2>4, <2>6, <2>7 DEF RequestInv
<1>5. QED
    BY <1>2, <1>3, <1>4 DEF AInv

\* A step that changes nothing.
LEMMA StutterKeeps ==
    ASSUME AInv, UNCHANGED vars
    PROVE  AInv'
    BY DEF AInv, vars, ApiTypeOK, MessagesHaveRoots, RequestInv, Found, Planned, AnswerTrue,
        NameSafe, Stored, Kept, Own, Named, Said

\* Every step of the API keeps the invariant.
LEMMA NextKeeps == AInv /\ [ApiNext]_vars => AInv'
<1>. SUFFICES ASSUME AInv, [ApiNext]_vars PROVE AInv'
    OBVIOUS
<1>1. ASSUME NEW r \in Requests, RequestStep(r)
      PROVE  AInv'
    <2>1. CASE Arrive(r)
        BY <2>1, ArriveKeeps
    <2>2. CASE Query(r) \/ FindConversation(r) \/ FindDocument(r)
        BY <2>2, QueryKeeps, FindConversationKeeps, FindDocumentKeeps
    <2>3. CASE AskModel(r) \/ SaveQuestion(r) \/ SaveAnswer(r)
        BY <2>3, AskModelKeeps, SaveQuestionKeeps, SaveAnswerKeeps
    <2>4. CASE CreateConversation(r) \/ MarkDocumentFailed(r)
        BY <2>4, CreateConversationKeeps, MarkDocumentFailedKeeps
    <2>5. CASE CreateDocument(r) \/ SignUrl(r)
        BY <2>5, CreateDocumentKeeps, SignUrlKeeps
    <2>6. CASE Fails(r)
        BY <2>6, FailsKeeps DEF Fails
    <2>7. QED
        BY <1>1, <2>1, <2>2, <2>3, <2>4, <2>5, <2>6 DEF RequestStep
<1>2. CASE UNCHANGED vars
    BY <1>2, StutterKeeps
<1>3. QED
    BY <1>1, <1>2, OutsideKeeps DEF ApiNext

\* So the invariant always holds.
LEMMA ApiInvariance == ApiSpec => []AInv
    BY InitHolds, NextKeeps, PTL DEF ApiSpec

-----------------------------------------------------------------------------
(* Theorems *)

\* Requests, tables and settings keep their types (handler.py:70-192).
THEOREM ApiTypeCorrect == ApiSpec => []ApiTypeOK
<1>1. AInv => ApiTypeOK
    BY DEF AInv
<1>2. QED
    BY <1>1, ApiInvariance, PTL

\* No message is ever without its conversation, no answer without its question and
\* no citation without its owner's document (handler.py:93-133), for any number of
\* requests and with any loss of answers and processes between the calls.
THEOREM MessagesKeepRoots == ApiSpec => []MessagesHaveRoots
<1>1. AInv => MessagesHaveRoots
    BY DEF AInv
<1>2. QED
    BY <1>1, ApiInvariance, PTL

\* What an answer says of the tables is so when it is given, and remains so
\* (handler.py:84-192).
THEOREM AnswersAreTrue == ApiSpec => []AnswersMatchTables
<1>1. AInv => AnswersMatchTables
    BY DEF AInv, RequestInv, AnswerTrue, AnswersMatchTables
<1>2. QED
    BY <1>1, ApiInvariance, PTL

\* A filename that SAFE_FILENAME lets through survives the encoding of S3's event,
\* and unquote_plus leaves it alone when it was never encoded.
LEMMA NameSurvives ==
    ASSUME NEW name \in Seq(Alphabet), SafeFilename(name)
    PROVE  /\ [i \in DOMAIN name |-> Unquoted(name[i])] = name
           /\ [i \in DOMAIN [j \in DOMAIN name |-> Quoted(name[j])] |->
                  Unquoted([j \in DOMAIN name |-> Quoted(name[j])][i])] = name
<1>1. Unquoted("x") = "x" /\ Unquoted("blank") = "blank" /\ Unquoted("plus") = "blank"
    BY Zenon DEF Unquoted
<1>2. Quoted("x") = "x" /\ Quoted("blank") = "plus"
    BY Zenon DEF Quoted
<1>3. \A i \in DOMAIN name : name[i] = "x" \/ name[i] = "blank"
    BY DEF SafeFilename
<1>4. \A i \in DOMAIN name : Unquoted(name[i]) = name[i]
    BY <1>1, <1>3
<1>5. \A i \in DOMAIN name : Unquoted(Quoted(name[i])) = name[i]
    BY <1>1, <1>2, <1>3
<1>6. name = [i \in DOMAIN name |-> name[i]]
    OBVIOUS
<1>7. QED
    BY <1>4, <1>5, <1>6

\* The worker reads the owner, document and key of every stored document back from
\* both kinds of message (worker.py:32-42, domain.py:33-66), whatever the filenames.
THEOREM KeysRoundTrip == ApiSpec => []KeysAreRecognised
<1>1. ASSUME AInv PROVE KeysAreRecognised
    <2>1. SUFFICES ASSUME NEW o \in Owners, NEW r \in Requests, <<o, r>> \in documents
          PROVE  LET key == DocumentKey(o, r, req[r].file) IN
                 /\ EventDocument(S3Record(key)) = <<o, r, key>>
                 /\ EventDocument(LocalRecord(o, r, key)) = <<o, r, key>>
        BY DEF KeysAreRecognised
    <2>. DEFINE name == req[r].file
               key  == DocumentKey(o, r, name)
               quoted == [j \in DOMAIN name |-> Quoted(name[j])]
    <2>2. SafeFilename(name)
        BY <1>1, <2>1 DEF AInv, RequestInv, NameSafe
    <2>3. name \in Seq(Alphabet)
        <3>1. name \in Names \cup {<<>>}
            BY <1>1 DEF AInv, ApiTypeOK, Request
        <3>2. name # <<>>
            BY <2>2 DEF SafeFilename
        <3>3. QED
            BY <3>1, <3>2, ApiAssumption
    <2>. HIDE DEF name
    <2>4. OnName(key, Quoted) = <<"private", o, r, "source", quoted>>
        BY DEF OnName, DocumentKey
    <2>5. OnName(<<"private", o, r, "source", quoted>>, Unquoted) = key
        <3>1. OnName(<<"private", o, r, "source", quoted>>, Unquoted)
                  = <<"private", o, r, "source", [i \in DOMAIN quoted |-> Unquoted(quoted[i])]>>
            <4>. HIDE DEF quoted, key
            <4>1. QED
                BY DEF OnName
        <3>2. [i \in DOMAIN quoted |-> Unquoted(quoted[i])] = name
            BY <2>2, <2>3, NameSurvives
        <3>3. QED
            BY <3>1, <3>2 DEF DocumentKey
    <2>6. OnName(key, Unquoted) = key
        <3>1. OnName(key, Unquoted)
                  = <<"private", o, r, "source", [i \in DOMAIN name |-> Unquoted(name[i])]>>
            BY DEF OnName, DocumentKey
        <3>2. QED
            BY <2>2, <2>3, <3>1, NameSurvives DEF DocumentKey
    <2>7. EventDocument(S3Record(key)) = <<o, r, key>>
        <3>1. S3Record(key).form = "Records" /\ OnName(S3Record(key).key, Unquoted) = key
            BY <2>4, <2>5 DEF S3Record
        <3>2. Len(key) = 5 /\ key[1] = "private" /\ key[4] = "source" /\ key[2] = o /\ key[3] = r
            BY DEF DocumentKey
        <3>. HIDE DEF key
        <3>3. QED
            BY <3>1, <3>2 DEF EventDocument
    <2>8. EventDocument(LocalRecord(o, r, key)) = <<o, r, key>>
        BY <2>6 DEF EventDocument, LocalRecord, DocumentKey
    <2>9. QED
        BY <2>7, <2>8 DEF name
<1>2. QED
    BY <1>1, ApiInvariance, PTL

-----------------------------------------------------------------------------
(* Behind the local server, what is owned is served *)

\* A due request that is about to look its item up looks where the item is, and
\* the read cannot miss it.
DueInv(r) ==
    req[r].due =>
        /\ req[r].status # 404
        /\ req[r].at = "lookup" =>
            \/ req[r].branch \in {"messages", "ask"} /\ Named(r) \in conversations \ fresh
            \/ req[r].branch \in {"document", "cancel"} /\ Named(r) \in documents \ fresh

DInv == \A r \in Requests : DueInv(r)

\* The local server cuts the id out of every path that has one.
LEMMA LocalPathId ==
    ASSUME Gateway = "local", NEW path \in Paths, Len(path) > 1
    PROVE  /\ PathId(path) = path[2]
           /\ \/ path = <<"conversations", path[2], "messages">>
              \/ path = <<"documents", path[2]>>
              \/ path = <<"documents", path[2], "cancel">>
    BY DEF Paths, PathId

\* So a due request takes the branch of its item.
LEMMA DueBranch ==
    ASSUME Gateway = "local", NEW owner, NEW method \in Methods, NEW path \in Paths,
           Due(owner, method, path)
    PROVE  \/ /\ Branch(method, path) \in {"messages", "ask"}
              /\ <<owner, PathId(path)>> \in conversations \ fresh
           \/ /\ Branch(method, path) \in {"document", "cancel"}
              /\ <<owner, PathId(path)>> \in documents \ fresh
<1>1. /\ Len(path) > 1
      /\ <<owner, path[2]>> \in
             (IF path[1] = "documents" THEN documents ELSE conversations) \ fresh
      /\ Len(path) = 2 => method = "GET"
      /\ path[Len(path)] = "cancel" => method = "POST"
    BY DEF Due
<1>2. PathId(path) = path[2]
    BY <1>1, LocalPathId
<1>3. method = "GET" \/ method = "POST"
    BY DEF Methods
<1>4. CASE path = <<"conversations", path[2], "messages">>
    <2>1. /\ path # <<"me">> /\ path # <<"conversations">> /\ path # <<"documents">>
          /\ path # <<"documents", "upload-url">> /\ path # <<"documents", PathId(path)>>
          /\ path # <<"documents", PathId(path), "cancel">> /\ path[1] # "documents"
        BY <1>4
    <2>2. path = <<"conversations", PathId(path), "messages">>
        BY <1>2, <1>4
    <2>3. path \notin {<<"conversations">>, <<"documents">>}
        BY <2>1
    <2>4. Branch(method, path) = IF method = "GET" THEN "messages" ELSE "ask"
        BY <2>1, <2>2, <2>3, Zenon DEF Branch
    <2>5. QED
        BY <1>1, <1>2, <2>1, <2>4
<1>5. CASE path = <<"documents", path[2]>>
    <2>1. /\ path # <<"me">> /\ path # <<"conversations">> /\ path # <<"documents">>
          /\ path # <<"conversations", PathId(path), "messages">>
          /\ path # <<"documents", PathId(path), "cancel">> /\ path[1] = "documents"
          /\ Len(path) = 2
        BY <1>5
    <2>2. path = <<"documents", PathId(path)>>
        BY <1>2, <1>5
    <2>3. path \notin {<<"conversations">>, <<"documents">>}
        BY <2>1
    <2>4. method = "GET" /\ method # "POST"
        BY <1>1, <2>1
    <2>5. Branch(method, path) = "document"
        BY <2>1, <2>2, <2>3, <2>4, Zenon DEF Branch
    <2>6. QED
        BY <1>1, <1>2, <2>1, <2>5
<1>6. CASE path = <<"documents", path[2], "cancel">>
    <2>1. /\ path # <<"me">> /\ path # <<"conversations">> /\ path # <<"documents">>
          /\ path # <<"documents", "upload-url">> /\ path # <<"documents", PathId(path)>>
          /\ path # <<"conversations", PathId(path), "messages">> /\ path[1] = "documents"
          /\ path[Len(path)] = "cancel"
        <3>1. Len(path) = 3 /\ path[1] = "documents" /\ path[3] = "cancel"
            BY <1>6
        <3>2. path[Len(path)] = "cancel"
            BY <3>1
        <3>3. /\ Len(<<"me">>) = 1 /\ Len(<<"conversations">>) = 1
              /\ Len(<<"documents">>) = 1 /\ Len(<<"documents", "upload-url">>) = 2
              /\ Len(<<"documents", PathId(path)>>) = 2
            OBVIOUS
        <3>4. path # <<"conversations", PathId(path), "messages">>
            BY <1>6
        <3>5. QED
            BY <3>1, <3>2, <3>3, <3>4
    <2>2. path = <<"documents", PathId(path), "cancel">>
        BY <1>2, <1>6
    <2>3. path \notin {<<"conversations">>, <<"documents">>}
        BY <2>1
    <2>4. method = "POST" /\ method # "GET"
        BY <1>1, <2>1
    <2>5. Branch(method, path) = "cancel"
        BY <2>1, <2>2, <2>3, <2>4, Zenon DEF Branch
    <2>6. QED
        BY <1>1, <1>2, <2>1, <2>5
<1>7. QED
    BY <1>1, <1>4, <1>5, <1>6, LocalPathId

\* An arriving request that is due is not answered 404.
LEMMA ArriveDue ==
    ASSUME AInv, Gateway = "local", NEW r \in Requests, Arrive(r)
    PROVE  DueInv(r)'
<1>1. PICK owner \in Owners \cup {None}, method \in Methods, path \in Paths,
           text \in BOOLEAN, file \in Names \cup {<<>>} :
        req' = [req EXCEPT ![r] = Arrived(owner, method, path, text, file)]
    BY Zenon DEF Arrive
<1>2. PICK branch \in Branches : branch = Branch(method, path)
    BY BranchTyped
<1>3. PICK first : first = Checked(owner, branch, file)
    OBVIOUS
<1>4. /\ req'[r].due = Due(owner, method, path) /\ req'[r].branch = branch
      /\ req'[r].status = first.status /\ req'[r].owner = owner
      /\ req'[r].id = PathId(path)
    BY <1>1, <1>2, <1>3 DEF Arrived, AInv, ApiTypeOK
<1>5. ASSUME Due(owner, method, path) PROVE DueInv(r)'
    <2>1. \/ branch \in {"messages", "ask"} /\ <<owner, PathId(path)>> \in conversations \ fresh
          \/ branch \in {"document", "cancel"} /\ <<owner, PathId(path)>> \in documents \ fresh
        BY <1>2, <1>5, DueBranch
    <2>2. first.status # 404
        <3>1. branch # "none"
            BY <2>1
        <3>2. \A status : Answered(status).status = status
            BY DEF Answered
        <3>3. \A place : Begins(place).status = 0
            BY DEF Begins
        <3>4. QED
            BY <1>3, <3>1, <3>2, <3>3, CheckedTyped
    <2>3. UNCHANGED <<conversations, documents, fresh>>
        BY DEF Arrive
    <2>4. QED
        BY <1>4, <2>1, <2>2, <2>3 DEF DueInv, Named
<1>6. CASE ~Due(owner, method, path)
    BY <1>4, <1>6 DEF DueInv
<1>7. QED
    BY <1>5, <1>6

\* Another request's item stays where every read returns it: what becomes fresh
\* was not stored before.
LEMMA OthersDue ==
    ASSUME AInv, NEW r \in Requests, NEW s \in Requests, s # r, req'[s] = req[s],
           conversations \subseteq conversations', documents \subseteq documents',
           \A item \in fresh' : item \in fresh \/ (item = Own(r) /\ ~Stored(r)),
           DueInv(s)
    PROVE  DueInv(s)'
<1>1. Named(s)' = Named(s)
    BY DEF Named
<1>2. ASSUME Named(s) \in (conversations \cup documents) \ fresh
      PROVE  Named(s) \notin fresh'
    <2>1. PICK o \in Owners, i \in Requests : Named(s) = <<o, i>>
        BY <1>2 DEF AInv, ApiTypeOK, Pairs
    <2>2. Named(s) = Own(r) => Stored(r)
        BY <1>2, <2>1 DEF Own, Stored
    <2>3. QED
        BY <1>2, <2>2
<1>3. QED
    BY <1>1, <1>2 DEF DueInv

\* A request that goes on, or is answered otherwise, is not answered 404.
LEMMA NotMissing ==
    ASSUME AInv, NEW r \in Requests, DueInv(r),
           \/ \E place \in Places \ {"lookup"} : Goes(r, place)
           \/ \E status \in Statuses \ {404} : Answers(r, status)
    PROVE  DueInv(r)'
<1>1. /\ req'[r].due = req[r].due /\ req'[r].at # "lookup"
      /\ req'[r].status = req[r].status \/ req'[r].status # 404
    BY GoesEffect, AnswersEffect DEF AInv, SameQuestion
<1>2. QED
    BY <1>1 DEF DueInv

\* Nor is a due one that looks its item up.
LEMMA LookUpDue ==
    ASSUME AInv, NEW r \in Requests, DueInv(r), req[r].at = "lookup",
           NEW items, \E found \in Sees(items, Named(r)) :
               \/ ~found /\ Answers(r, 404)
               \/ \E place \in Places \ {"lookup"} : Goes(r, place)
               \/ \E status \in Statuses \ {404} : Answers(r, status),
           req[r].due => Named(r) \in items \ fresh
    PROVE  DueInv(r)'
<1>1. CASE req[r].due
    <2>1. \A found \in Sees(items, Named(r)) : found
        BY <1>1 DEF Sees
    <2>2. QED
        BY <2>1, NotMissing
<1>2. CASE ~req[r].due
    <2>1. \/ \E place \in Places : Goes(r, place)
          \/ \E status \in Statuses : Answers(r, status)
        BY DEF Statuses
    <2>2. req'[r].due = req[r].due
        BY <2>1, GoesEffect, AnswersEffect DEF AInv, SameQuestion
    <2>3. QED
        BY <1>2, <2>2 DEF DueInv
<1>3. QED
    BY <1>1, <1>2 DEF AInv, ApiTypeOK, Request

\* The step of a request, seen from its own answer.
LEMMA OwnDue ==
    ASSUME AInv, Gateway = "local", NEW r \in Requests, DueInv(r), RequestStep(r)
    PROVE  DueInv(r)'
<1>1. CASE Arrive(r)
    BY <1>1, ArriveDue
<1>2. CASE FindConversation(r)
    <2>1. /\ req[r].at = "lookup" /\ req[r].branch \in {"messages", "ask"}
          /\ req[r].due => Named(r) \in conversations \ fresh
        BY <1>2 DEF FindConversation, DueInv
    <2>2. \E found \in Sees(conversations, Named(r)) :
               \/ ~found /\ Answers(r, 404)
               \/ \E place \in {"query", "put_question"} : Goes(r, place)
               \/ Answers(r, 400)
        <3>1. PICK found \in Sees(conversations, Named(r)) :
                \/ ~found /\ Answers(r, 404)
                \/ found /\ req[r].branch = "messages" /\ Goes(r, "query")
                \/ found /\ req[r].branch = "ask" /\ req[r].text /\ Goes(r, "put_question")
                \/ found /\ req[r].branch = "ask" /\ ~req[r].text /\ Answers(r, 400)
            BY <1>2, Zenon DEF FindConversation
        <3>2. QED
            BY <3>1
    <2>3. {"query", "put_question"} \subseteq Places \ {"lookup"} /\ 400 \in Statuses \ {404}
        BY DEF Places, Statuses
    <2>4. QED
        BY <2>1, <2>2, <2>3, LookUpDue
<1>3. CASE FindDocument(r)
    <2>1. /\ req[r].at = "lookup" /\ req[r].branch \in {"document", "cancel"}
          /\ req[r].due => Named(r) \in documents \ fresh
        BY <1>3 DEF FindDocument, DueInv
    <2>2. \E found \in Sees(documents, Named(r)) :
               \/ ~found /\ Answers(r, 404)
               \/ Goes(r, "mark")
               \/ Answers(r, 200)
        <3>1. PICK found \in Sees(documents, Named(r)) :
                \/ ~found /\ Answers(r, 404)
                \/ found /\ req[r].branch = "document" /\ Answers(r, 200)
                \/ found /\ req[r].branch = "cancel" /\ Goes(r, "mark")
            BY <1>3, Zenon DEF FindDocument
        <3>2. QED
            BY <3>1
    <2>3. "mark" \in Places \ {"lookup"} /\ 200 \in Statuses \ {404}
        BY DEF Places, Statuses
    <2>4. QED
        BY <2>1, <2>2, <2>3, LookUpDue
<1>4. CASE AskModel(r)
    <2>1. CASE Answers(r, 400)
        BY <2>1, NotMissing DEF Statuses
    <2>2. ASSUME NEW cited, req' = [req EXCEPT ![r].at = "put_answer", ![r].cited = cited]
          PROVE  DueInv(r)'
        BY <2>2 DEF DueInv, AInv, ApiTypeOK, Request
    <2>3. QED
        BY <1>4, <2>1, <2>2 DEF AskModel, Replies
<1>5. CASE \/ Query(r) \/ CreateConversation(r) \/ SaveQuestion(r) \/ SaveAnswer(r)
           \/ CreateDocument(r) \/ SignUrl(r) \/ MarkDocumentFailed(r) \/ Fails(r)
    <2>1. \/ Goes(r, "model") \/ Goes(r, "sign") \/ Answers(r, 200) \/ Answers(r, 201)
          \/ Answers(r, 500) \/ Answers(r, 0)
        BY <1>5 DEF Query, CreateConversation, SaveQuestion, SaveAnswer, CreateDocument,
            SignUrl, MarkDocumentFailed, Fails, Then, ThenAnswer
    <2>2. {"model", "sign"} \subseteq Places \ {"lookup"}
        BY DEF Places
    <2>3. {0, 200, 201, 500} \subseteq Statuses \ {404}
        BY DEF Statuses
    <2>4. QED
        BY <2>1, <2>2, <2>3, NotMissing
<1>6. QED
    BY <1>1, <1>2, <1>3, <1>4, <1>5 DEF RequestStep


\* What a step of r does to the tables and to the other requests.
LEMMA StepFrame ==
    ASSUME AInv, NEW r \in Requests, RequestStep(r)
    PROVE  /\ conversations \subseteq conversations' /\ documents \subseteq documents'
           /\ \A s \in Requests \ {r} : req'[s] = req[s]
           /\ \A item \in fresh' : item \in fresh \/ (item = Own(r) /\ ~Stored(r))
<1>1. req \in [Requests -> Request] /\ Planned(r)
    BY DEF AInv, ApiTypeOK, RequestInv
<1>2. CASE Arrive(r) \/ AskModel(r)
    <2>1. conversations' = conversations /\ documents' = documents /\ fresh' = fresh
        BY <1>2 DEF Arrive, AskModel, Replies
    <2>2. CASE Arrive(r)
        <3>1. PICK value : req' = [req EXCEPT ![r] = value]
            BY <2>2, Zenon DEF Arrive
        <3>2. QED
            BY <1>1, <2>1, <3>1
    <2>3. CASE AskModel(r)
        <3>1. \A s \in Requests \ {r} : req'[s] = req[s]
            BY <1>1, <2>3 DEF AskModel, Replies, Answers
        <3>2. QED
            BY <2>1, <3>1
    <2>4. QED
        BY <1>2, <2>2, <2>3
<1>3. CASE \/ Query(r) \/ FindConversation(r) \/ FindDocument(r) \/ SaveQuestion(r)
           \/ SaveAnswer(r) \/ SignUrl(r) \/ MarkDocumentFailed(r) \/ Fails(r)
    <2>1. conversations' = conversations /\ documents' = documents /\ fresh' = fresh
        BY <1>3 DEF Query, FindConversation, FindDocument, SaveQuestion, SaveAnswer, SignUrl,
            MarkDocumentFailed, Fails
    <2>2. \/ \E place \in Places : Goes(r, place)
          \/ \E status \in Statuses : Answers(r, status)
        <3>1. CASE Query(r) \/ SaveAnswer(r) \/ SignUrl(r) \/ MarkDocumentFailed(r) \/ Fails(r)
            BY <3>1 DEF Query, SaveAnswer, SignUrl, MarkDocumentFailed, Fails, ThenAnswer, Statuses
        <3>2. CASE SaveQuestion(r)
            BY <3>2 DEF SaveQuestion, Then, Statuses, Places
        <3>3. CASE FindConversation(r)
            <4>1. PICK found \in Sees(conversations, Named(r)) :
                    \/ ~found /\ Answers(r, 404)
                    \/ found /\ req[r].branch = "messages" /\ Goes(r, "query")
                    \/ found /\ req[r].branch = "ask" /\ req[r].text /\ Goes(r, "put_question")
                    \/ found /\ req[r].branch = "ask" /\ ~req[r].text /\ Answers(r, 400)
                BY <3>3, Zenon DEF FindConversation
            <4>2. QED
                BY <4>1 DEF Places, Statuses
        <3>4. CASE FindDocument(r)
            BY <3>4 DEF FindDocument, Places, Statuses
        <3>5. QED
            BY <1>3, <3>1, <3>2, <3>3, <3>4
    <2>3. QED
        <3>1. OnlyRequest(r)
            BY <2>2, GoesEffect, AnswersEffect DEF AInv
        <3>2. QED
            BY <2>1, <3>1 DEF OnlyRequest
<1>4. CASE CreateConversation(r) \/ CreateDocument(r)
    <2>1. ~Stored(r)
        BY <1>1, <1>4 DEF Planned, CreateConversation, CreateDocument
    <2>2. QED
        BY <1>1, <1>4, <2>1 DEF CreateConversation, CreateDocument, Then, ThenAnswer, Goes, Answers
<1>5. QED
    BY <1>2, <1>3, <1>4 DEF RequestStep

\* Every step keeps the due requests from a 404.
LEMMA NextDue ==
    ASSUME Gateway = "local", AInv, DInv, [ApiNext]_vars
    PROVE  DInv'
<1>1. ASSUME NEW r \in Requests, RequestStep(r), NEW s \in Requests
      PROVE  DueInv(s)'
    <2>1. DueInv(r) /\ DueInv(s)
        BY DEF DInv
    <2>2. CASE s = r
        BY <1>1, <2>1, <2>2, OwnDue
    <2>3. CASE s # r
        BY <1>1, <2>1, <2>3, StepFrame, OthersDue
    <2>4. QED
        BY <2>2, <2>3
<1>2. ASSUME NEW item \in Pairs, Replicate(item) \/ StoreRow(item), NEW s \in Requests
      PROVE  DueInv(s)'
    BY <1>2 DEF DInv, DueInv, Named, Replicate, StoreRow
<1>3. ASSUME UNCHANGED vars, NEW s \in Requests
      PROVE  DueInv(s)'
    BY <1>3 DEF DInv, DueInv, Named, vars
<1>4. QED
    BY <1>1, <1>2, <1>3 DEF ApiNext, DInv

\* Behind the local server no request for an item of its caller's that every read
\* returns is answered 404 (local_server.py:84-107, handler.py:93-181).
THEOREM OwnedServedLocally ==
    ASSUME Gateway = "local"
    PROVE  ApiSpec => []OwnedIsServed
<1>1. ApiInit => DInv
    BY DEF ApiInit, DInv, DueInv, NewRequest
<1>2. AInv /\ DInv /\ [ApiNext]_vars => DInv'
    BY NextDue
<1>3. DInv => OwnedIsServed
    BY DEF DInv, DueInv, OwnedIsServed
<1>4. QED
    BY <1>1, <1>2, <1>3, ApiInvariance, PTL DEF ApiSpec

-----------------------------------------------------------------------------
(* The API implements ChatStore *)

\* A request that is not over has stored no answer.
Unanswered(r) ==
    req[r].at # "over" => \A msg \in messages : msg.request = r => msg.role = "user"

CInv == \A r \in Requests : Unanswered(r)

\* What a step of r adds to the messages.
LEMMA MessagesEffect ==
    ASSUME NEW r \in Requests, RequestStep(r)
    PROVE  /\ req[r].at # "over"
           /\ \/ UNCHANGED <<messages, conversations>>
              \/ CreateConversation(r) \/ SaveQuestion(r) \/ SaveAnswer(r)
BY DEF RequestStep, Arrive, Query, FindConversation, FindDocument, AskModel, CreateConversation,
    SaveQuestion, SaveAnswer, CreateDocument, SignUrl, MarkDocumentFailed, Fails

\* Only the last call of a question stores its answer.
LEMMA NextUnanswered ==
    ASSUME AInv, CInv, [ApiNext]_vars
    PROVE  CInv'
<1>1. ASSUME NEW r \in Requests, RequestStep(r), NEW s \in Requests
      PROVE  Unanswered(s)'
    <2>1. Unanswered(s) /\ Unanswered(r) /\ ApiTypeOK
        BY DEF CInv, AInv
    <2>2. s # r => req'[s] = req[s]
        BY <1>1, StepFrame
    <2>3. CASE UNCHANGED messages
        BY <1>1, <2>1, <2>2, <2>3, MessagesEffect DEF Unanswered
    <2>4. CASE SaveQuestion(r)
        BY <1>1, <2>1, <2>2, <2>4, MessagesEffect DEF Unanswered, SaveQuestion, Said
    <2>5. CASE SaveAnswer(r)
        <3>1. req'[r].at = "over"
            BY <2>1, <2>5, AnswersEffect DEF SaveAnswer, ThenAnswer, Statuses
        <3>2. \A msg \in messages' : msg \in messages \/ msg.request = r
            BY <2>5 DEF SaveAnswer, Said
        <3>3. QED
            BY <2>1, <2>2, <3>1, <3>2 DEF Unanswered
    <2>6. QED
        BY <1>1, <2>3, <2>4, <2>5, MessagesEffect DEF CreateConversation
<1>2. ASSUME NEW item \in Pairs, Replicate(item) \/ StoreRow(item)
      PROVE  CInv'
    BY <1>2 DEF CInv, Unanswered, Replicate, StoreRow
<1>3. ASSUME UNCHANGED vars
      PROVE  CInv'
    BY <1>3 DEF CInv, Unanswered, vars
<1>4. QED
    BY <1>1, <1>2, <1>3 DEF ApiNext, CInv

\* A message stored adds the pair of its request to the pairs of its role.
LEMMA StoringAdds ==
    ASSUME NEW msg, messages' = messages \cup {msg}, NEW role
    PROVE  InTable(role)' =
               IF msg.role = role
               THEN InTable(role) \cup {<<<<msg.owner, msg.conversation>>, msg.request>>}
               ELSE InTable(role)
BY DEF InTable

\* The three writes to the chat table are the abstract ones.
LEMMA WriteRefines ==
    ASSUME AInv, CInv, NEW r \in Requests,
           CreateConversation(r) \/ SaveQuestion(r) \/ SaveAnswer(r)
    PROVE  ChatStore!Next
<1>1. ApiTypeOK /\ Found(r) /\ Planned(r) /\ Unanswered(r)
    BY DEF AInv, RequestInv, CInv
<1>2. CASE CreateConversation(r)
    <2>1. req[r].owner \in Owners /\ ~Stored(r)
        BY <1>1, <1>2 DEF Planned, CreateConversation
    <2>2. Own(r) \in Pairs /\ Own(r) \notin conversations
        BY <2>1 DEF Own, Pairs, Stored
    <2>3. conversations' = conversations \cup {Own(r)} /\ messages' = messages
        BY <1>2 DEF CreateConversation
    <2>4. ChatStore!Create(Own(r))
        BY <2>2, <2>3 DEF ChatStore!Create, InTable
    <2>5. QED
        BY <2>2, <2>4 DEF ChatStore!Next
<1>3. CASE SaveQuestion(r) \/ SaveAnswer(r)
    <2>1. Named(r) \in conversations /\ Named(r) \in Pairs
        BY <1>1, <1>3 DEF Found, SaveQuestion, SaveAnswer, ApiTypeOK
    <2>2. \A role \in {"user", "assistant"}, cited \in SUBSET Pairs :
            /\ Said(r, role, cited).role = role /\ Said(r, role, cited).request = r
            /\ <<Said(r, role, cited).owner, Said(r, role, cited).conversation>> = Named(r)
        BY DEF Said, Named
    <2>3. CASE SaveQuestion(r)
        <3>1. messages' = messages \cup {Said(r, "user", {})} /\ conversations' = conversations
            BY <2>3 DEF SaveQuestion
        <3>2. /\ InTable("user")' = InTable("user") \cup {<<Named(r), r>>}
              /\ InTable("assistant")' = InTable("assistant")
            BY <2>2, <3>1, StoringAdds
        <3>3. \A other \in Pairs : <<other, r>> \notin InTable("user")
            <4>1. \A msg \in messages : msg.request # r
                BY <1>1, <2>3 DEF Planned, Stored, SaveQuestion
            <4>2. QED
                BY <4>1 DEF InTable
        <3>4. ChatStore!Ask(Named(r), r)
            BY <2>1, <3>1, <3>2, <3>3 DEF ChatStore!Ask
        <3>5. QED
            BY <2>1, <3>4 DEF ChatStore!Next
    <2>4. CASE SaveAnswer(r)
        <3>1. req[r].cited \in SUBSET Pairs
            BY <1>1 DEF ApiTypeOK, Request
        <3>2. /\ messages' = messages \cup {Said(r, "assistant", req[r].cited)}
              /\ conversations' = conversations
            BY <2>4 DEF SaveAnswer
        <3>3. /\ InTable("assistant")' = InTable("assistant") \cup {<<Named(r), r>>}
              /\ InTable("user")' = InTable("user")
            BY <2>2, <3>1, <3>2, StoringAdds
        <3>4. <<Named(r), r>> \in InTable("user")
            <4>1. Said(r, "user", {}) \in messages
                BY <1>1, <2>4 DEF Found, SaveAnswer
            <4>2. QED
                BY <2>2, <4>1 DEF InTable
        <3>5. <<Named(r), r>> \notin InTable("assistant")
            <4>1. \A msg \in messages : msg.request = r => msg.role = "user"
                BY <1>1, <2>4 DEF Unanswered, SaveAnswer
            <4>2. QED
                BY <4>1 DEF InTable
        <3>6. ChatStore!Answer(Named(r), r)
            BY <3>2, <3>3, <3>4, <3>5 DEF ChatStore!Answer
        <3>7. QED
            BY <2>1, <3>6 DEF ChatStore!Next
    <2>5. QED
        BY <1>3, <2>3, <2>4
<1>4. QED
    BY <1>2, <1>3

\* Every other step is not seen in the chat table.
LEMMA ChatStepRefines ==
    AInv /\ CInv /\ [ApiNext]_vars => [ChatStore!Next]_(ChatStore!vars)
<1> SUFFICES ASSUME AInv, CInv, [ApiNext]_vars PROVE [ChatStore!Next]_(ChatStore!vars)
    OBVIOUS
<1>1. CASE UNCHANGED <<messages, conversations>>
    BY <1>1 DEF ChatStore!vars, InTable
<1>2. CASE \E r \in Requests : CreateConversation(r) \/ SaveQuestion(r) \/ SaveAnswer(r)
    BY <1>2, WriteRefines
<1>3. QED
    BY <1>1, <1>2, MessagesEffect DEF ApiNext, Replicate, StoreRow, vars

\* The requests of all owners, each of which may fail or die at any of its calls,
\* keep the chat table's promise to every conversation.
THEOREM ApiImplementsChatStore == ApiSpec => ChatStoreSpec
<1>1. ApiInit => ChatStore!Init /\ CInv
    BY DEF ApiInit, ChatStore!Init, InTable, CInv, Unanswered
<1>2. AInv /\ CInv /\ [ApiNext]_vars => CInv'
    BY NextUnanswered
<1>3. QED
    BY <1>1, <1>2, ChatStepRefines, ApiInvariance, PTL DEF ApiSpec, ChatStoreSpec, ChatStore!Spec
=============================================================================
