--------------------------- MODULE ConversationFlow ---------------------------
(***************************************************************************)
(* Chat: the browser's useConversations hook with the composer that guards  *)
(* it, and the API's conversation routes behind it.                         *)
(*                                                                          *)
(* The browser shows one conversation and one list of messages.  It fetches *)
(* the messages whenever another conversation is selected, never cancelling *)
(* an earlier fetch, and adds a question and a placeholder of its own when  *)
(* one is sent.  The server works on a question whether or not the browser  *)
(* still waits for it.  Code between two awaits is one action.              *)
(***************************************************************************)
EXTENDS Integers, Sequences

CONSTANTS
    Convs,      \* conversation ids (uuid4: never reused)
    Questions,  \* bound on the questions ever sent
    None,
    MaxFetches  \* bound on the fetches of one conversation in flight

ASSUME ChatAssumption ==
    /\ None \notin Convs \cup Questions
    /\ {"no", "sent"} \cap Convs = {}
    /\ MaxFetches \in Nat \ {0}

VARIABLES
    shown,     \* conversationId: the conversation selected
    listed,    \* conversations: how many entries of each are in the sidebar
    messages,  \* messages: what is on the screen
    chatBusy,
    abort,     \* abortRef.current: the question whose request it would abort
    call,      \* where the sendMessage call of each question is
    conv,      \* the conversation each question was sent in
    creating,  \* the createConversation call: "no", "sent" or the new one
    listing,   \* the request for the sidebar is in flight
    fetches,   \* requests for messages in flight, of each conversation
    created,   \* chat table: the CONVERSATION items
    log        \* chat table: the MESSAGE items of each, in the order of created_at

vars == <<shown, listed, messages, chatBusy, abort, call, conv, creating,
          listing, fetches, created, log>>

screen == <<shown, listed, messages, chatBusy, abort, call, conv, creating,
            listing, fetches>>

-----------------------------------------------------------------------------

\* A message on the screen: what a question became.  "thinking", "canceled" and
\* "failed" stand where its answer would.
Parts        == {"question", "thinking", "answer", "canceled", "failed"}
Message      == [of : Questions, part : Parts]
Say(q, part) == [of |-> q, part |-> part]

Ended == {"answered", "canceled", "failed", "refused"}

TypeOK ==
    /\ shown \in Convs \cup {None}
    /\ created \subseteq Convs
    /\ listed \in [Convs -> Nat] /\ \A c \in Convs : listed[c] > 0 => c \in created
    /\ shown # None => shown \in created
    /\ messages \in Seq(Message)
    /\ chatBusy \in BOOLEAN
    /\ abort \in Questions \cup {None}
    /\ call \in [Questions -> {"new", "sent"} \cup Ended]
    /\ conv \in [Questions -> Convs \cup {None}]
    /\ \A q \in Questions : call[q] = "new" \/ conv[q] \in created
    /\ creating \in {"no", "sent"} \cup created
    /\ listing \in BOOLEAN
    /\ fetches \in [Convs -> 0..MaxFetches]
    /\ log \in [Convs -> Seq([of : Questions, part : {"question", "answer"}])]

\* The user has signed in, perhaps with conversations from an earlier visit: the
\* sidebar is being fetched.
Init ==
    /\ shown = None /\ messages = << >>
    /\ listed = [c \in Convs |-> 0]
    /\ chatBusy = FALSE /\ abort = None
    /\ call = [q \in Questions |-> "new"]
    /\ conv = [q \in Questions |-> None]
    /\ creating = "no"
    /\ listing = TRUE
    /\ fetches = [c \in Convs |-> 0]
    /\ created \in SUBSET Convs
    /\ log = [c \in Convs |-> << >>]

Holds(s, m) == \E i \in DOMAIN s : s[i] = m

\* The user message and the assistant message the API has saved.
Saved(q, part) == call[q] # "new" /\ Holds(log[conv[q]], Say(q, part))

-----------------------------------------------------------------------------
(* The sidebar and the conversation shown *)

\* GET /conversations answers with an older or the current list; setConversations
\* replaces what the browser has added in the meantime.
Listed ==
    /\ listing
    /\ listing' = FALSE
    /\ \E some \in SUBSET created :
        listed' = [c \in Convs |-> IF c \in some THEN 1 ELSE 0]
    /\ UNCHANGED <<shown, messages, chatBusy, abort, call, conv, creating,
                   fetches, created, log>>

ListingFails ==
    /\ listing
    /\ listing' = FALSE
    /\ UNCHANGED <<shown, listed, messages, chatBusy, abort, call, conv,
                   creating, fetches, created, log>>

\* The effect of setConversationId: the messages of c are requested.  Selecting
\* what is shown has no effect.
Fetch(c) ==
    /\ fetches[c] < MaxFetches
    /\ fetches' = [fetches EXCEPT ![c] = @ + 1]

\* Mutant of Select: another conversation, another composer.
SelectFreeing(c) ==
    /\ listed[c] > 0 /\ c # shown
    /\ shown' = c
    /\ chatBusy' = FALSE
    /\ Fetch(c)
    /\ UNCHANGED <<listed, messages, abort, call, conv, creating,
                   listing, created, log>>

\* A conversation of the sidebar is clicked.  The messages stay until the new
\* ones arrive.
Select(c) ==
    /\ listed[c] > 0 /\ c # shown
    /\ shown' = c
    /\ Fetch(c)
    /\ UNCHANGED <<listed, messages, chatBusy, abort, call, conv, creating,
                   listing, created, log>>

\* GET /conversations/{id}/messages answers with an older or the current state
\* of c, whatever conversation is shown by now.
Fetched(c) ==
    /\ fetches[c] > 0
    /\ fetches' = [fetches EXCEPT ![c] = @ - 1]
    /\ \E n \in 0..Len(log[c]) : messages' = SubSeq(log[c], 1, n)
    /\ UNCHANGED <<shown, listed, chatBusy, abort, call, conv, creating,
                   listing, created, log>>

FetchFails(c) ==
    /\ fetches[c] > 0
    /\ fetches' = [fetches EXCEPT ![c] = @ - 1]
    /\ UNCHANGED <<shown, listed, messages, chatBusy, abort, call, conv,
                   creating, listing, created, log>>

-----------------------------------------------------------------------------
(* createConversation *)

\* The button is enabled while no call is under way.  That it is not while an
\* upload shows only makes the user wait.
CreateConversation ==
    /\ ~chatBusy
    /\ chatBusy' = TRUE
    /\ creating' = "sent"
    /\ UNCHANGED <<shown, listed, messages, abort, call, conv, listing,
                   fetches, created, log>>

\* Mutant of SaveConversation: the id is answered before the item is saved.
SaveConversationLater(c) ==
    /\ creating = "sent"
    /\ c \notin created
    /\ creating' = c
    /\ UNCHANGED <<shown, listed, messages, chatBusy, abort, call, conv,
                   listing, fetches, created, log>>

\* POST /conversations: put_item under attribute_not_exists.
SaveConversation(c) ==
    /\ creating = "sent"
    /\ c \notin created
    /\ created' = created \cup {c}
    /\ creating' = c
    /\ UNCHANGED <<shown, listed, messages, chatBusy, abort, call, conv,
                   listing, fetches, log>>

\* The new conversation is put at the top of the sidebar, also when the list that
\* has arrived meanwhile shows it already.
ConversationCreated ==
    /\ creating \in Convs
    /\ listed' = [listed EXCEPT ![creating] = @ + 1]
    /\ shown' = creating
    /\ messages' = << >>
    /\ Fetch(creating)
    /\ creating' = "no"
    /\ chatBusy' = FALSE
    /\ UNCHANGED <<abort, call, conv, listing, created, log>>

\* An error or an answer of 401, the conversation saved or not.
CreationFails ==
    /\ creating # "no"
    /\ creating' = "no"
    /\ chatBusy' = FALSE
    /\ UNCHANGED <<shown, listed, messages, abort, call, conv, listing,
                   fetches, created, log>>

-----------------------------------------------------------------------------
(* sendMessage *)

\* The composer: a text that can be edited and sent, or a cancel button.
ComposerDisabled == shown = None \/ chatBusy
CancelShown      == shown # None /\ chatBusy

SendMessage(q) ==
    /\ ~ComposerDisabled
    /\ call[q] = "new"
    /\ call' = [call EXCEPT ![q] = "sent"]
    /\ conv' = [conv EXCEPT ![q] = shown]
    /\ messages' = messages \o <<Say(q, "question"), Say(q, "thinking")>>
    /\ abort' = q
    /\ chatBusy' = TRUE
    /\ UNCHANGED <<shown, listed, creating, listing, fetches, created, log>>

\* The placeholder of q, if it is still on the screen, becomes m.
Replace(q, m) ==
    messages' = [i \in DOMAIN messages |->
                    IF messages[i] = Say(q, "thinking") THEN m ELSE messages[i]]

\* The call is over: its finally clause clears the flags, whoever's they are.
End(q, how) ==
    /\ call' = [call EXCEPT ![q] = how]
    /\ chatBusy' = FALSE
    /\ abort' = None
    /\ UNCHANGED <<shown, listed, conv, creating, listing, fetches, created, log>>

\* Mutant of Answered: the answer is added at the end of what is shown.
AnsweredAtEnd(q) ==
    /\ call[q] = "sent"
    /\ Saved(q, "answer")
    /\ messages' = Append(SelectSeq(messages, LAMBDA m : m # Say(q, "thinking")),
                          Say(q, "answer"))
    /\ End(q, "answered")

\* The server's answer takes the place of the placeholder.
Answered(q) ==
    /\ call[q] = "sent"
    /\ Saved(q, "answer")
    /\ Replace(q, Say(q, "answer"))
    /\ End(q, "answered")

\* Mutant of Fails: the flags are cleared after an answer only.
FailsBusy(q) ==
    /\ call[q] = "sent"
    /\ Replace(q, Say(q, "failed"))
    /\ call' = [call EXCEPT ![q] = "failed"]
    /\ UNCHANGED <<shown, listed, chatBusy, abort, conv, creating, listing,
                   fetches, created, log>>

\* The request, the server or its answer is lost.
Fails(q) ==
    /\ call[q] = "sent"
    /\ Replace(q, Say(q, "failed"))
    /\ End(q, "failed")

\* An answer of 401, before the server does anything: the placeholder stays.
Refused(q) ==
    /\ call[q] = "sent"
    /\ ~Saved(q, "question")
    /\ End(q, "refused")
    /\ UNCHANGED messages

\* Mutant of CancelChat: the composer is freed, the placeholder is left.
CancelChatOnly ==
    \E q \in Questions :
        /\ CancelShown /\ q = abort /\ call[q] = "sent"
        /\ End(q, "canceled")
        /\ UNCHANGED messages

\* The cancel button: nothing happens unless a request is
\* abort's; that one is rejected, and the server is not told.
CancelChat ==
    \E q \in Questions :
        /\ CancelShown /\ q = abort /\ call[q] = "sent"
        /\ Replace(q, Say(q, "canceled"))
        /\ End(q, "canceled")

-----------------------------------------------------------------------------
(* POST /conversations/{id}/messages *)

\* conversation_owned, and the user message is saved.
SaveQuestion(q) ==
    /\ call[q] \notin {"new", "refused"}
    /\ ~Saved(q, "question")
    /\ log' = [log EXCEPT ![conv[q]] = Append(@, Say(q, "question"))]
    /\ UNCHANGED <<screen, created>>

\* Mutant of SaveAnswer: the question is saved elsewhere, in its own time.
SaveAnswerAnyway(q) ==
    /\ call[q] \notin {"new", "refused"}
    /\ ~Saved(q, "answer")
    /\ log' = [log EXCEPT ![conv[q]] = Append(@, Say(q, "answer"))]
    /\ UNCHANGED <<screen, created>>

\* Retrieval and the model have answered: the assistant message is saved.
SaveAnswer(q) ==
    /\ Saved(q, "question")
    /\ ~Saved(q, "answer")
    /\ log' = [log EXCEPT ![conv[q]] = Append(@, Say(q, "answer"))]
    /\ UNCHANGED <<screen, created>>

-----------------------------------------------------------------------------

CallStep(q) == Answered(q) \/ Fails(q) \/ Refused(q)

Next ==
    \/ Listed \/ ListingFails
    \/ \E c \in Convs : Select(c) \/ Fetched(c) \/ FetchFails(c) \/ SaveConversation(c)
    \/ CreateConversation \/ ConversationCreated \/ CreationFails \/ CancelChat
    \/ \E q \in Questions : \/ SendMessage(q) \/ CallStep(q)
                            \/ SaveQuestion(q) \/ SaveAnswer(q)

\* Requests are answered or fail; the user and the server's work owe nothing.
Fairness ==
    /\ WF_vars(ConversationCreated \/ CreationFails)
    /\ \A q \in Questions : WF_vars(CallStep(q))

Spec == Init /\ [][Next]_vars /\ Fairness

-----------------------------------------------------------------------------
(* Properties *)

Sending == {q \in Questions : call[q] = "sent"}

\* chatBusy, one flag for two kinds of calls, admits one call at a time, and the
\* cancel button aborts that one: the finally clauses clear nobody else's flags
\* (useConversations.ts:57-59, 111-114).
OneChatCall ==
    /\ Sending = IF abort = None THEN {} ELSE {abort}
    /\ chatBusy = (Sending # {} \/ creating # "no")
    /\ Sending # {} => creating = "no"

\* However fetches and answers cross, nothing is on the screen or in the table
\* twice (useConversations.ts:80-89).
NoMessageTwice ==
    /\ \A i, j \in DOMAIN messages : messages[i] = messages[j] => i = j
    /\ \A c \in Convs : \A i, j \in DOMAIN log[c] : log[c][i] = log[c][j] => i = j

\* Every answer on the screen stands below its question and is in the table, to
\* be found when the conversation is opened again (handler.py:112-136).
AnswersAreBacked ==
    \A j \in DOMAIN messages :
        messages[j].part = "answer" =>
            /\ Saved(messages[j].of, "answer")
            /\ \E i \in 1..(j - 1) : messages[i] = Say(messages[j].of, "question")

\* A placeholder on the screen has a call that will replace it; only an answer
\* of 401 leaves one behind (useConversations.ts:90-110).
ThinkingIsDriven ==
    \A i \in DOMAIN messages :
        messages[i].part = "thinking" => call[messages[i].of] \in {"sent", "refused"}

\* The composer is enabled again after every call.
ComposerIsFreed == chatBusy ~> ~chatBusy

-----------------------------------------------------------------------------
(* Refinement *)

InLog(part) == {cq \in Convs \X Questions : Holds(log[cq[1]], Say(cq[2], part))}

\* The browser and the routes behind it keep the chat table's promise, whatever
\* is canceled, fails or is refused while the server works (handler.py:93-136).
ChatStore ==
    INSTANCE ChatStore WITH
        Conversations <- Convs,
        asked         <- InLog("question"),
        answered      <- InLog("answer")

ChatStoreSpec == ChatStore!Spec
=============================================================================
