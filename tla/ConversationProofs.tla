-------------------------- MODULE ConversationProofs --------------------------
(***************************************************************************)
(* Proofs about ConversationFlow.tla, for any number of conversations,      *)
(* questions and fetches in flight.  The inductive invariant IInv says that *)
(* the screen and every log of the chat table hold at most one question and *)
(* one reply of each question sent, the reply below its question.           *)
(***************************************************************************)
EXTENDS ConversationFlow, TLAPS

-----------------------------------------------------------------------------
(* The inductive invariant *)

IsQuestion(m) == m.part = "question"

\* One question and one reply of each.
Distinct(s) ==
    \A i, j \in DOMAIN s :
        s[i].of = s[j].of /\ IsQuestion(s[i]) = IsQuestion(s[j]) => i = j

\* A reply stands below its question.
Ordered(s) ==
    \A j \in DOMAIN s :
        ~IsQuestion(s[j]) => \E i \in 1..(j - 1) : s[i] = Say(s[j].of, "question")

LogOK ==
    \A c \in Convs :
        /\ Distinct(log[c]) /\ Ordered(log[c])
        /\ \A i \in DOMAIN log[c] : /\ call[log[c][i].of] \notin {"new", "refused"}
                                    /\ conv[log[c][i].of] = c

EntryOK(m) ==
    /\ call[m.of] # "new"
    /\ m.part = "thinking" => call[m.of] \in {"sent", "refused"}
    /\ m.part = "answer" => Saved(m.of, "answer")

ScreenOK ==
    /\ Distinct(messages) /\ Ordered(messages)
    /\ \A i \in DOMAIN messages : EntryOK(messages[i])

IInv == TypeOK /\ OneChatCall /\ LogOK /\ ScreenOK

-----------------------------------------------------------------------------
(* Steps that leave messages and logs alone *)

\* The screen of a user who has just signed in.
LEMMA InitInvariant == Init => IInv
<1> SUFFICES ASSUME Init PROVE IInv
    OBVIOUS
<1>1. TypeOK
    <2>1. messages \in Seq(Message)
        BY DEF Init
    <2>2. log \in [Convs -> Seq([of : Questions, part : {"question", "answer"}])]
        BY DEF Init
    <2>3. fetches \in [Convs -> 0..MaxFetches]
        BY ChatAssumption DEF Init
    <2>4. /\ listed \in [Convs -> Nat]
          /\ \A c \in Convs : listed[c] > 0 => c \in created
        BY DEF Init
    <2> QED
        BY <2>1, <2>2, <2>3, <2>4 DEF Init, TypeOK
<1>2. OneChatCall
    BY DEF Init, OneChatCall, Sending
<1>3. LogOK /\ ScreenOK
    BY DEF Init, LogOK, ScreenOK, Distinct, Ordered
<1> QED
    BY <1>1, <1>2, <1>3 DEF IInv

\* What must be shown of a step that touches no message.
LEMMA QuietStep ==
    ASSUME IInv, TypeOK', OneChatCall',
           UNCHANGED <<messages, call, conv, log>>
    PROVE  IInv'
<1>1. LogOK'
    BY DEF IInv, LogOK, Distinct, Ordered
<1>2. ScreenOK'
    BY DEF IInv, ScreenOK, Distinct, Ordered, EntryOK, Saved, Holds
<1> QED
    BY <1>1, <1>2 DEF IInv

\* A fetch more, or one less, in flight.
LEMMA FetchTyped ==
    ASSUME TypeOK, NEW c \in Convs, Fetch(c)
    PROVE  fetches' \in [Convs -> 0..MaxFetches]
<1>1. fetches[c] \in 0..MaxFetches /\ fetches[c] + 1 \in 0..MaxFetches
    BY ChatAssumption DEF TypeOK, Fetch
<1> QED
    BY <1>1 DEF TypeOK, Fetch

LEMMA FetchOverTyped ==
    ASSUME TypeOK, NEW c \in Convs, fetches[c] > 0,
           fetches' = [fetches EXCEPT ![c] = @ - 1]
    PROVE  fetches' \in [Convs -> 0..MaxFetches]
<1>1. fetches[c] \in 0..MaxFetches /\ fetches[c] - 1 \in 0..MaxFetches
    BY ChatAssumption DEF TypeOK
<1> QED
    BY <1>1 DEF TypeOK

\* Selecting, listing and failing fetches keep IInv.
LEMMA SidebarKeeps ==
    ASSUME IInv,
           \/ Listed \/ ListingFails
           \/ \E c \in Convs : Select(c) \/ FetchFails(c)
    PROVE  IInv'
<1>1. UNCHANGED <<messages, call, conv, log, chatBusy, abort, creating, created>>
    BY DEF Listed, ListingFails, Select, FetchFails
<1>2. OneChatCall'
    BY <1>1 DEF IInv, OneChatCall, Sending
<1>3. /\ shown' \in Convs \cup {None} /\ (shown' # None => shown' \in created')
    BY <1>1 DEF IInv, TypeOK, Listed, ListingFails, Select, FetchFails
<1>7. listed' \in [Convs -> Nat] /\ \A c \in Convs : listed'[c] > 0 => c \in created'
    <2>1. CASE Listed
        <3>1. PICK some \in SUBSET created :
                listed' = [c \in Convs |-> IF c \in some THEN 1 ELSE 0]
            BY <2>1 DEF Listed
        <3> QED
            BY <1>1, <3>1
    <2>2. CASE UNCHANGED listed
        BY <1>1, <2>2 DEF IInv, TypeOK
    <2> QED
        BY <2>1, <2>2 DEF ListingFails, Select, FetchFails
<1>4. listing' \in BOOLEAN
    BY DEF IInv, TypeOK, Listed, ListingFails, Select, FetchFails
<1>5. fetches' \in [Convs -> 0..MaxFetches]
    <2>1. CASE UNCHANGED fetches
        BY <2>1 DEF IInv, TypeOK
    <2>2. ASSUME NEW c \in Convs, Select(c)
          PROVE  fetches' \in [Convs -> 0..MaxFetches]
        BY <2>2, FetchTyped DEF IInv, Select
    <2>3. ASSUME NEW c \in Convs, FetchFails(c)
          PROVE  fetches' \in [Convs -> 0..MaxFetches]
        BY <2>3, FetchOverTyped DEF IInv, FetchFails
    <2> QED
        BY <2>1, <2>2, <2>3 DEF Listed, ListingFails
<1>6. TypeOK'
    BY <1>1, <1>3, <1>4, <1>5, <1>7 DEF IInv, TypeOK
<1> QED
    BY <1>1, <1>2, <1>6, QuietStep

\* Creating a conversation keeps IInv until the answer arrives.
LEMMA CreationKeeps ==
    ASSUME IInv,
           \/ CreateConversation \/ CreationFails
           \/ \E c \in Convs : SaveConversation(c)
    PROVE  IInv'
<1>1. UNCHANGED <<messages, call, conv, log, shown, listed, abort, listing, fetches>>
    BY DEF CreateConversation, CreationFails, SaveConversation
<1>2. OneChatCall'
    <2>1. Sending' = Sending
        BY <1>1 DEF Sending
    <2>2. CASE CreateConversation
        BY <1>1, <2>1, <2>2 DEF IInv, TypeOK, OneChatCall, CreateConversation
    <2>3. CASE CreationFails
        BY <1>1, <2>1, <2>3 DEF IInv, TypeOK, OneChatCall, CreationFails
    <2>4. ASSUME NEW c \in Convs, SaveConversation(c)
          PROVE  OneChatCall'
        BY <1>1, <2>1, <2>4, ChatAssumption
           DEF IInv, TypeOK, OneChatCall, SaveConversation
    <2> QED
        BY <2>2, <2>3, <2>4
<1>3. created \subseteq created' /\ created' \subseteq Convs
    BY DEF IInv, TypeOK, CreateConversation, CreationFails, SaveConversation
<1>4. chatBusy' \in BOOLEAN /\ creating' \in {"no", "sent"} \cup created'
    BY DEF IInv, TypeOK, CreateConversation, CreationFails, SaveConversation
<1>5. TypeOK'
    BY <1>1, <1>3, <1>4 DEF IInv, TypeOK
<1> QED
    BY <1>1, <1>2, <1>5, QuietStep

-----------------------------------------------------------------------------
(* Sequences of messages *)

\* What is in a list of S is in S.
LEMMA Element ==
    ASSUME NEW S, NEW s \in Seq(S), NEW i \in DOMAIN s
    PROVE  s[i] \in S /\ DOMAIN s = 1..Len(s) /\ Len(s) \in Nat
OBVIOUS

\* A message that is new keeps a list distinct, and ordered if it is a question
\* or finds its question in the list.
LEMMA AppendKeeps ==
    ASSUME NEW S, NEW s \in Seq(S), NEW m \in S,
           Distinct(s), Ordered(s),
           \A i \in DOMAIN s : s[i].of = m.of => IsQuestion(s[i]) # IsQuestion(m),
           IsQuestion(m) \/ Holds(s, Say(m.of, "question"))
    PROVE  /\ Append(s, m) \in Seq(S)
           /\ Distinct(Append(s, m)) /\ Ordered(Append(s, m))
           /\ DOMAIN Append(s, m) = 1..(Len(s) + 1)
           /\ DOMAIN s = 1..Len(s)
           /\ \A i \in DOMAIN s : Append(s, m)[i] = s[i]
           /\ Append(s, m)[Len(s) + 1] = m
<1> DEFINE t == Append(s, m)
<1>1. /\ t \in Seq(S) /\ DOMAIN t = 1..(Len(s) + 1) /\ DOMAIN s = 1..Len(s)
      /\ Len(s) \in Nat
      /\ \A i \in 1..Len(s) : t[i] = s[i]
      /\ t[Len(s) + 1] = m
    OBVIOUS
<1>2. Distinct(t)
    <2> SUFFICES ASSUME NEW i \in DOMAIN t, NEW j \in DOMAIN t,
                        t[i].of = t[j].of, IsQuestion(t[i]) = IsQuestion(t[j])
                 PROVE  i = j
        BY DEF Distinct
    <2>1. CASE i \in DOMAIN s /\ j \in DOMAIN s
        BY <1>1, <2>1 DEF Distinct
    <2>2. CASE i \in DOMAIN s /\ j = Len(s) + 1
        BY <1>1, <2>2
    <2>3. CASE i = Len(s) + 1 /\ j \in DOMAIN s
        BY <1>1, <2>3
    <2> QED
        BY <1>1, <2>1, <2>2, <2>3
<1>3. Ordered(t)
    <2> SUFFICES ASSUME NEW j \in DOMAIN t, ~IsQuestion(t[j])
                 PROVE  \E i \in 1..(j - 1) : t[i] = Say(t[j].of, "question")
        BY DEF Ordered
    <2>1. CASE j \in DOMAIN s
        <3>1. PICK i \in 1..(j - 1) : s[i] = Say(s[j].of, "question")
            BY <1>1, <2>1 DEF Ordered
        <3> QED
            BY <1>1, <2>1, <3>1
    <2>2. CASE j = Len(s) + 1
        BY <1>1, <2>2 DEF Holds
    <2> QED
        BY <1>1, <2>1, <2>2
<1> QED
    BY <1>1, <1>2, <1>3

\* The beginning of a list is as good as the list.
LEMMA PrefixKeeps ==
    ASSUME NEW S, NEW s \in Seq(S), NEW n \in 0..Len(s), Distinct(s), Ordered(s)
    PROVE  LET t == SubSeq(s, 1, n) IN
           /\ t \in Seq(S) /\ Distinct(t) /\ Ordered(t)
           /\ DOMAIN t \subseteq DOMAIN s
           /\ \A i \in DOMAIN t : t[i] = s[i]
<1> DEFINE t == SubSeq(s, 1, n)
<1>1. /\ t \in Seq(S) /\ DOMAIN t = 1..n /\ DOMAIN s = 1..Len(s) /\ n \in Nat
      /\ \A i \in 1..n : t[i] = s[i]
    OBVIOUS
<1>2. DOMAIN t \subseteq DOMAIN s
    BY <1>1
<1>3. Distinct(t)
    BY <1>1, <1>2 DEF Distinct
<1>4. Ordered(t)
    <2> SUFFICES ASSUME NEW j \in DOMAIN t, ~IsQuestion(t[j])
                 PROVE  \E i \in 1..(j - 1) : t[i] = Say(t[j].of, "question")
        BY DEF Ordered
    <2>1. PICK i \in 1..(j - 1) : s[i] = Say(s[j].of, "question")
        BY <1>1, <1>2 DEF Ordered
    <2> QED
        BY <1>1, <2>1
<1> QED
    BY <1>1, <1>2, <1>3, <1>4

\* What is on the screen is a message.
LEMMA ScreenTyped ==
    ASSUME TypeOK
    PROVE  \A i \in DOMAIN messages : messages[i] \in Message
BY Element DEF TypeOK

-----------------------------------------------------------------------------
(* The server *)

\* A message saved for a question that was sent keeps IInv.
LEMMA SavingKeeps ==
    ASSUME IInv, NEW q \in Questions, SaveQuestion(q) \/ SaveAnswer(q)
    PROVE  IInv'
<1> DEFINE c == conv[q]
           S == [of : Questions, part : {"question", "answer"}]
<1>0. call[q] # "new" /\ c \in Convs /\ log[c] \in Seq(S)
    BY DEF IInv, TypeOK, SaveQuestion, SaveAnswer, Saved
<1>1. PICK m \in S : /\ log' = [log EXCEPT ![c] = Append(@, m)]
                     /\ m.of = q
                     /\ ~Holds(log[c], m)
                     /\ IsQuestion(m) \/ Holds(log[c], Say(q, "question"))
    <2>1. Say(q, "question") \in S /\ Say(q, "answer") \in S
        BY DEF Say
    <2>2. CASE SaveQuestion(q)
        BY <1>0, <2>1, <2>2 DEF SaveQuestion, Saved, Say, IsQuestion
    <2>3. CASE SaveAnswer(q)
        BY <1>0, <2>1, <2>3 DEF SaveAnswer, Saved, Say
    <2> QED
        BY <2>2, <2>3
<1>2. \A i \in DOMAIN log[c] : log[c][i].of = m.of => IsQuestion(log[c][i]) # IsQuestion(m)
    <2> SUFFICES ASSUME NEW i \in DOMAIN log[c], log[c][i].of = m.of,
                        IsQuestion(log[c][i]) = IsQuestion(m)
                 PROVE  FALSE
        OBVIOUS
    <2>1. log[c][i] \in S
        BY <1>0, Element
    <2>2. log[c][i] = m
        BY <2>1 DEF IsQuestion
    <2> QED
        BY <1>1, <2>2 DEF Holds
<1>3. /\ Append(log[c], m) \in Seq(S)
      /\ Distinct(Append(log[c], m)) /\ Ordered(Append(log[c], m))
      /\ DOMAIN Append(log[c], m) = 1..(Len(log[c]) + 1)
      /\ DOMAIN log[c] = 1..Len(log[c])
      /\ \A i \in DOMAIN log[c] : Append(log[c], m)[i] = log[c][i]
      /\ Append(log[c], m)[Len(log[c]) + 1] = m
    <2>1. Distinct(log[c]) /\ Ordered(log[c])
        BY <1>0 DEF IInv, LogOK
    <2>2. IsQuestion(m) \/ Holds(log[c], Say(m.of, "question"))
        BY <1>1
    <2> HIDE DEF S
    <2> QED
        BY <1>0, <1>2, <2>1, <2>2, AppendKeeps
<1>4. UNCHANGED <<screen, created>>
    BY DEF SaveQuestion, SaveAnswer
<1>5. \A d \in Convs : log'[d] = IF d = c THEN Append(log[c], m) ELSE log[d]
    BY <1>0, <1>1 DEF IInv, TypeOK
<1>6. call[q] # "refused"
    <2>1. CASE SaveQuestion(q)
        BY <2>1 DEF SaveQuestion
    <2>2. CASE SaveAnswer(q)
        <3>1. PICK i \in DOMAIN log[c] : log[c][i] = Say(q, "question")
            BY <2>2 DEF SaveAnswer, Saved, Holds
        <3> QED
            BY <1>0, <3>1 DEF IInv, LogOK, Say
    <2> QED
        BY <2>1, <2>2
<1>7. TypeOK'
    <2>1. log' \in [Convs -> Seq(S)]
        BY <1>0, <1>1, <1>3 DEF IInv, TypeOK
    <2> QED
        BY <1>4, <2>1 DEF IInv, TypeOK, screen
<1>8. OneChatCall'
    BY <1>4 DEF IInv, OneChatCall, Sending, screen
<1>9. LogOK'
    <2> SUFFICES ASSUME NEW d \in Convs
                 PROVE  /\ Distinct(log'[d]) /\ Ordered(log'[d])
                        /\ \A i \in DOMAIN log'[d] :
                              /\ call[log'[d][i].of] \notin {"new", "refused"}
                              /\ conv[log'[d][i].of] = d
        BY <1>4 DEF LogOK, screen
    <2>1. CASE d # c
        BY <1>5, <2>1 DEF IInv, LogOK
    <2>2. CASE d = c
        <3>1. \A i \in DOMAIN log[c] : /\ call[log[c][i].of] \notin {"new", "refused"}
                                       /\ conv[log[c][i].of] = c
            BY <1>0 DEF IInv, LogOK
        <3> QED
            BY <1>0, <1>1, <1>3, <1>5, <1>6, <2>2, <3>1
    <2> QED
        BY <2>1, <2>2
<1>10. \A p \in Questions : Saved(p, "answer") => Saved(p, "answer")'
    <2> SUFFICES ASSUME NEW p \in Questions, Saved(p, "answer")
                 PROVE  Saved(p, "answer")'
        OBVIOUS
    <2>1. call[p] # "new" /\ conv[p] \in Convs
        BY DEF IInv, TypeOK, Saved
    <2>2. PICK i \in DOMAIN log[conv[p]] : log[conv[p]][i] = Say(p, "answer")
        BY DEF Saved, Holds
    <2>3. i \in DOMAIN log'[conv[p]] /\ log'[conv[p]][i] = Say(p, "answer")
        <3>1. CASE conv[p] # c
            BY <1>5, <2>1, <2>2, <3>1
        <3>2. CASE conv[p] = c
            <4>1. i \in DOMAIN log[c] /\ log[c][i] = Say(p, "answer") /\ Len(log[c]) \in Nat
                BY <1>0, <2>2, <3>2, Element
            <4>2. log'[c] = Append(log[c], m)
                BY <1>0, <1>5
            <4>3. i \in 1..(Len(log[c]) + 1)
                BY <1>3, <4>1
            <4> QED
                BY <1>3, <3>2, <4>1, <4>2, <4>3
        <3> QED
            BY <3>1, <3>2
    <2> QED
        BY <1>4, <2>1, <2>3 DEF Saved, Holds, screen
<1>11. ScreenOK'
    <2>1. messages' = messages /\ call' = call
        BY <1>4 DEF screen
    <2>2. \A i \in DOMAIN messages : messages[i].of \in Questions
        BY ScreenTyped DEF IInv, Message
    <2>3. \A i \in DOMAIN messages : EntryOK(messages[i])'
        BY <1>10, <2>1, <2>2 DEF IInv, ScreenOK, EntryOK
    <2> QED
        BY <2>1, <2>3 DEF IInv, ScreenOK, Distinct, Ordered
<1> QED
    BY <1>7, <1>8, <1>9, <1>11 DEF IInv

-----------------------------------------------------------------------------
(* The end of a sendMessage call *)

\* What the finally clause leaves, whatever became of the messages.
LEMMA EndFrame ==
    ASSUME IInv, NEW q \in Questions, NEW how \in Ended, call[q] = "sent",
           End(q, how), messages' \in Seq(Message),
           how = "refused" => ~Saved(q, "question")
    PROVE  /\ TypeOK' /\ OneChatCall' /\ LogOK'
           /\ call' = [call EXCEPT ![q] = how]
           /\ UNCHANGED <<conv, log>>
           /\ \A p \in Questions : Saved(p, "answer") => Saved(p, "answer")'
<1>1. /\ call' = [call EXCEPT ![q] = how]
      /\ chatBusy' = FALSE /\ abort' = None
      /\ UNCHANGED <<shown, listed, conv, creating, listing, fetches, created, log>>
    BY DEF End
<1>2. \A p \in Questions : call'[p] = IF p = q THEN how ELSE call[p]
    BY <1>1 DEF IInv, TypeOK
<1>3. how \notin {"new", "sent"}
    BY DEF Ended
<1>4. TypeOK'
    <2>1. call' \in [Questions -> {"new", "sent"} \cup Ended]
        BY <1>1 DEF IInv, TypeOK
    <2>2. \A p \in Questions : call'[p] = "new" \/ conv'[p] \in created'
        BY <1>1, <1>2 DEF IInv, TypeOK
    <2> QED
        BY <1>1, <2>1, <2>2 DEF IInv, TypeOK
<1>5. OneChatCall'
    <2>1. Sending = {q} /\ creating = "no"
        <3>1. q \in Sending
            BY DEF Sending
        <3> QED
            BY <3>1 DEF IInv, OneChatCall
    <2>2. Sending' = {}
        BY <1>2, <1>3, <2>1 DEF Sending
    <2> QED
        BY <1>1, <2>1, <2>2 DEF OneChatCall
<1>6. \A c \in Convs : \A i \in DOMAIN log[c] :
          /\ log[c][i].of \in Questions
          /\ log[c][i].of = q => how # "refused"
    <2> SUFFICES ASSUME NEW c \in Convs, NEW i \in DOMAIN log[c]
                 PROVE  /\ log[c][i].of \in Questions
                        /\ log[c][i].of = q => how # "refused"
        OBVIOUS
    <2>1. /\ log[c] \in Seq([of : Questions, part : {"question", "answer"}])
          /\ Ordered(log[c]) /\ conv[log[c][i].of] = c
        BY DEF IInv, TypeOK, LogOK
    <2>2. /\ log[c][i] \in [of : Questions, part : {"question", "answer"}]
          /\ DOMAIN log[c] = 1..Len(log[c]) /\ Len(log[c]) \in Nat
        BY <2>1, Element
    <2>3. ASSUME log[c][i].of = q
          PROVE  Saved(q, "question")
        <3>1. CASE IsQuestion(log[c][i])
            <4>1. log[c][i] = Say(q, "question")
                BY <2>2, <2>3, <3>1 DEF IsQuestion, Say
            <4> QED
                BY <2>1, <2>3, <4>1 DEF Saved, Holds
        <3>2. CASE ~IsQuestion(log[c][i])
            <4>1. PICK k \in 1..(i - 1) : log[c][k] = Say(q, "question")
                BY <2>1, <2>3, <3>2 DEF Ordered
            <4>2. k \in DOMAIN log[c]
                BY <2>2
            <4> QED
                BY <2>1, <2>3, <4>1, <4>2 DEF Saved, Holds
        <3> QED
            BY <3>1, <3>2
    <2> QED
        BY <2>2, <2>3
<1>7. LogOK'
    BY <1>1, <1>2, <1>3, <1>6 DEF IInv, LogOK, Distinct, Ordered
<1>8. \A p \in Questions : Saved(p, "answer") => Saved(p, "answer")'
    BY <1>1, <1>2, <1>3 DEF Saved, Holds
<1> QED
    BY <1>1, <1>4, <1>5, <1>7, <1>8

\* An answer, a failure or a cancel: the placeholder is replaced.
LEMMA ReplacedKeeps ==
    ASSUME IInv, NEW q \in Questions, NEW how \in Ended \ {"refused"},
           NEW part \in {"answer", "canceled", "failed"},
           call[q] = "sent", End(q, how), Replace(q, Say(q, part)),
           part = "answer" => Saved(q, "answer")
    PROVE  IInv'
<1> DEFINE m == Say(q, part)
           h == Say(q, "thinking")
<1>1. /\ messages \in Seq(Message) /\ Len(messages) \in Nat
      /\ DOMAIN messages = 1..Len(messages)
      /\ \A i \in DOMAIN messages : messages[i] \in Message
    BY ScreenTyped DEF IInv, TypeOK
<1>2. /\ m \in Message /\ m.of = q /\ m.part = part /\ ~IsQuestion(m)
      /\ h.of = q /\ h.part = "thinking" /\ ~IsQuestion(h)
    BY DEF Say, Message, Parts, IsQuestion
<1>3. /\ DOMAIN messages' = DOMAIN messages
      /\ \A i \in DOMAIN messages :
            messages'[i] = IF messages[i] = h THEN m ELSE messages[i]
    BY DEF Replace
<1>4. messages' \in Seq(Message)
    <2>1. messages' = [i \in 1..Len(messages) |-> IF messages[i] = h THEN m ELSE messages[i]]
        BY <1>1 DEF Replace
    <2>2. \A i \in 1..Len(messages) : (IF messages[i] = h THEN m ELSE messages[i]) \in Message
        BY <1>1, <1>2
    <2> HIDE DEF m, h
    <2> QED
        BY <1>1, <2>1, <2>2
<1>5. \A i \in DOMAIN messages :
          /\ messages'[i].of = messages[i].of
          /\ IsQuestion(messages'[i]) = IsQuestion(messages[i])
          /\ IsQuestion(messages[i]) => messages'[i] = messages[i]
    <2> SUFFICES ASSUME NEW i \in DOMAIN messages
                 PROVE  /\ messages'[i].of = messages[i].of
                        /\ IsQuestion(messages'[i]) = IsQuestion(messages[i])
                        /\ IsQuestion(messages[i]) => messages'[i] = messages[i]
        OBVIOUS
    <2>1. CASE messages[i] = h
        BY <1>2, <1>3, <2>1 DEF IsQuestion
    <2>2. CASE messages[i] # h
        BY <1>3, <2>2
    <2> QED
        BY <2>1, <2>2
<1>6. Distinct(messages)'
    BY <1>3, <1>5 DEF IInv, ScreenOK, Distinct
<1>7. Ordered(messages)'
    <2> SUFFICES ASSUME NEW j \in DOMAIN messages, ~IsQuestion(messages[j])
                 PROVE  \E i \in 1..(j - 1) : messages'[i] = Say(messages[j].of, "question")
        BY <1>3, <1>5 DEF Ordered
    <2>1. PICK i \in 1..(j - 1) : messages[i] = Say(messages[j].of, "question")
        BY DEF IInv, ScreenOK, Ordered
    <2>2. i \in DOMAIN messages /\ IsQuestion(messages[i])
        BY <1>1, <2>1 DEF IsQuestion, Say
    <2> QED
        BY <1>5, <2>1, <2>2
<1>8. /\ TypeOK' /\ OneChatCall' /\ LogOK'
      /\ call' = [call EXCEPT ![q] = how]
      /\ \A p \in Questions : Saved(p, "answer") => Saved(p, "answer")'
    <2>1. how \in Ended /\ how # "refused"
        OBVIOUS
    <2> QED
        BY <1>4, <2>1, EndFrame
<1>9. \A i \in DOMAIN messages : EntryOK(messages[i])'
    <2> SUFFICES ASSUME NEW i \in DOMAIN messages PROVE EntryOK(messages[i])'
        OBVIOUS
    <2>1. messages[i].of \in Questions /\ EntryOK(messages[i]) /\ how \notin {"new", "sent"}
        BY <1>1 DEF Message, IInv, ScreenOK, Ended
    <2>2. \A p \in Questions : call'[p] = IF p = q THEN how ELSE call[p]
        BY <1>8 DEF IInv, TypeOK
    <2>3. CASE messages[i] = h
        <3>1. /\ messages'[i].of = q /\ messages'[i].part = part
              /\ part # "thinking" /\ call'[q] # "new"
            BY <1>2, <1>3, <2>1, <2>2, <2>3
        <3>2. part = "answer" => Saved(q, "answer")'
            BY <1>8
        <3> QED
            BY <3>1, <3>2 DEF EntryOK, Saved
    <2>4. CASE messages[i] # h
        <3>1. messages'[i] = messages[i]
            BY <1>3, <2>4
        <3>2. messages[i].of = q => messages[i].part # "thinking"
            BY <1>1, <2>4 DEF Message, Say
        <3>3. messages[i].part = "answer" => Saved(messages[i].of, "answer")'
            BY <1>8, <2>1, <3>1 DEF EntryOK
        <3>4. /\ call'[messages[i].of] # "new"
              /\ messages[i].part = "thinking" => call'[messages[i].of] \in {"sent", "refused"}
            BY <2>1, <2>2, <3>2 DEF EntryOK
        <3> QED
            BY <3>1, <3>3, <3>4 DEF EntryOK, Saved
    <2> QED
        BY <2>3, <2>4
<1>10. ScreenOK'
    BY <1>3, <1>6, <1>7, <1>9 DEF ScreenOK
<1> QED
    BY <1>8, <1>10 DEF IInv

\* A call's end keeps IInv.
LEMMA EndKeeps ==
    ASSUME IInv, CancelChat \/ \E q \in Questions : CallStep(q)
    PROVE  IInv'
<1>1. ASSUME NEW q \in Questions, Answered(q) PROVE IInv'
    BY <1>1, ReplacedKeeps DEF Answered, Ended
<1>2. ASSUME NEW q \in Questions, Fails(q) PROVE IInv'
    BY <1>2, ReplacedKeeps DEF Fails, Ended
<1>3. CASE CancelChat
    BY <1>3, ReplacedKeeps DEF CancelChat, Ended
<1>4. ASSUME NEW q \in Questions, Refused(q) PROVE IInv'
    <2>1. /\ call[q] = "sent" /\ ~Saved(q, "question") /\ End(q, "refused")
          /\ messages' = messages
        BY <1>4 DEF Refused
    <2>2. "refused" \in Ended /\ messages' \in Seq(Message)
        BY <2>1 DEF Ended, IInv, TypeOK
    <2>3. /\ TypeOK' /\ OneChatCall' /\ LogOK'
          /\ call' = [call EXCEPT ![q] = "refused"]
          /\ \A p \in Questions : Saved(p, "answer") => Saved(p, "answer")'
        BY <2>1, <2>2, EndFrame
    <2>4. \A i \in DOMAIN messages : EntryOK(messages[i])'
        <3> SUFFICES ASSUME NEW i \in DOMAIN messages PROVE EntryOK(messages[i])'
            OBVIOUS
        <3>1. messages[i].of \in Questions /\ EntryOK(messages[i])
            BY ScreenTyped DEF Message, IInv, ScreenOK
        <3> QED
            BY <2>1, <2>3, <3>1 DEF EntryOK, IInv, TypeOK
    <2> QED
        BY <2>1, <2>3, <2>4 DEF IInv, ScreenOK, Distinct, Ordered
<1> QED
    BY <1>1, <1>2, <1>3, <1>4 DEF CallStep

-----------------------------------------------------------------------------
(* What replaces or extends the screen *)

\* Messages fetched, of whatever conversation, are a beginning of its log.
LEMMA FetchedKeeps ==
    ASSUME IInv, NEW c \in Convs, Fetched(c)
    PROVE  IInv'
<1> DEFINE S == [of : Questions, part : {"question", "answer"}]
<1>1. PICK n \in 0..Len(log[c]) : messages' = SubSeq(log[c], 1, n)
    BY DEF Fetched
<1>2. UNCHANGED <<shown, listed, chatBusy, abort, call, conv, creating,
                  listing, created, log>>
    BY DEF Fetched
<1>3. /\ log[c] \in Seq(S) /\ Distinct(log[c]) /\ Ordered(log[c])
      /\ \A i \in DOMAIN log[c] : /\ call[log[c][i].of] \notin {"new", "refused"}
                                  /\ conv[log[c][i].of] = c
    BY DEF IInv, TypeOK, LogOK
<1>4. /\ messages' \in Seq(S) /\ Distinct(messages') /\ Ordered(messages')
      /\ DOMAIN messages' \subseteq DOMAIN log[c]
      /\ \A i \in DOMAIN messages' : messages'[i] = log[c][i]
    <2> HIDE DEF S
    <2> QED
        BY <1>1, <1>3, PrefixKeeps
<1>5. TypeOK'
    <2>1. messages' \in Seq(Message)
        <3>1. S \subseteq Message
            BY DEF Message, Parts
        <3> HIDE DEF S
        <3> QED
            BY <1>4, <3>1
    <2>2. fetches' \in [Convs -> 0..MaxFetches]
        BY FetchOverTyped DEF IInv, Fetched
    <2> QED
        BY <1>2, <2>1, <2>2 DEF IInv, TypeOK
<1>6. OneChatCall'
    BY <1>2 DEF IInv, OneChatCall, Sending
<1>7. LogOK'
    BY <1>2 DEF IInv, LogOK, Distinct, Ordered
<1>8. ScreenOK'
    <2>1. ASSUME NEW i \in DOMAIN messages' PROVE EntryOK(messages[i])'
        <3>1. /\ i \in DOMAIN log[c] /\ messages'[i] = log[c][i]
              /\ call[log[c][i].of] \notin {"new", "refused"} /\ conv[log[c][i].of] = c
            BY <1>3, <1>4, <2>1
        <3>2. log[c][i] \in S
            BY <1>3, <3>1, Element
        <3>3. log[c][i].part = "answer" => log[c][i] = Say(log[c][i].of, "answer")
            BY <3>2 DEF Say
        <3>4. log[c][i].part = "answer" => Saved(log[c][i].of, "answer")
            BY <3>1, <3>3 DEF Saved, Holds
        <3> QED
            BY <1>2, <3>1, <3>2, <3>4 DEF EntryOK, Saved
    <2> QED
        BY <1>4, <2>1 DEF ScreenOK, Distinct, Ordered
<1> QED
    BY <1>5, <1>6, <1>7, <1>8 DEF IInv

\* A new conversation shows nothing.
LEMMA ConversationCreatedKeeps ==
    ASSUME IInv, ConversationCreated
    PROVE  IInv'
<1>1. /\ creating \in created /\ messages' = << >>
      /\ listed' = [listed EXCEPT ![creating] = @ + 1] /\ shown' = creating
      /\ creating' = "no" /\ chatBusy' = FALSE /\ Fetch(creating)
      /\ UNCHANGED <<abort, call, conv, listing, created, log>>
    BY ChatAssumption DEF IInv, TypeOK, ConversationCreated
<1>2. TypeOK'
    <2>1. fetches' \in [Convs -> 0..MaxFetches]
        BY <1>1, FetchTyped DEF IInv, TypeOK
    <2>2. messages' \in Seq(Message)
        BY <1>1
    <2>3. listed' \in [Convs -> Nat] /\ \A c \in Convs : listed'[c] > 0 => c \in created'
        BY <1>1 DEF IInv, TypeOK
    <2> QED
        BY <1>1, <2>1, <2>2, <2>3 DEF IInv, TypeOK
<1>3. OneChatCall'
    BY <1>1, ChatAssumption DEF IInv, TypeOK, OneChatCall, Sending
<1>4. LogOK'
    BY <1>1 DEF IInv, LogOK, Distinct, Ordered
<1>5. ScreenOK'
    BY <1>1 DEF ScreenOK, Distinct, Ordered
<1> QED
    BY <1>2, <1>3, <1>4, <1>5 DEF IInv

\* A question no message is about gets its question and its placeholder.
LEMMA SendMessageKeeps ==
    ASSUME IInv, NEW q \in Questions, SendMessage(q)
    PROVE  IInv'
<1> DEFINE m == Say(q, "question")
           h == Say(q, "thinking")
           t == Append(messages, m)
<1>1. /\ ~chatBusy /\ shown \in created /\ call[q] = "new"
      /\ call' = [call EXCEPT ![q] = "sent"] /\ conv' = [conv EXCEPT ![q] = shown]
      /\ messages' = messages \o <<m, h>>
      /\ abort' = q /\ chatBusy' = TRUE
      /\ UNCHANGED <<shown, listed, creating, listing, fetches, created, log>>
    BY DEF SendMessage, ComposerDisabled, IInv, TypeOK
<1>2. /\ \A p \in Questions : call'[p] = IF p = q THEN "sent" ELSE call[p]
      /\ \A p \in Questions : conv'[p] = IF p = q THEN shown ELSE conv[p]
    BY <1>1 DEF IInv, TypeOK
<1>3. /\ messages \in Seq(Message) /\ Distinct(messages) /\ Ordered(messages)
      /\ \A i \in DOMAIN messages :
            /\ messages[i].of \in Questions /\ messages[i].of # q /\ EntryOK(messages[i])
    BY <1>1, ScreenTyped DEF IInv, TypeOK, ScreenOK, EntryOK, Message
<1>4. /\ m \in Message /\ m.of = q /\ IsQuestion(m)
      /\ h \in Message /\ h.of = q /\ ~IsQuestion(h) /\ h.part = "thinking"
      /\ m.part = "question"
    BY DEF Say, Message, Parts, IsQuestion
<1>5. /\ t \in Seq(Message) /\ Distinct(t) /\ Ordered(t)
      /\ DOMAIN t = 1..(Len(messages) + 1) /\ DOMAIN messages = 1..Len(messages)
      /\ \A i \in DOMAIN messages : t[i] = messages[i]
      /\ t[Len(messages) + 1] = m
      /\ Len(messages) \in Nat
    <2>1. \A i \in DOMAIN messages :
              messages[i].of = m.of => IsQuestion(messages[i]) # IsQuestion(m)
        BY <1>3, <1>4
    <2>2. Len(messages) \in Nat
        BY <1>3
    <2> HIDE DEF m, h
    <2> QED
        BY <1>3, <1>4, <2>1, <2>2, AppendKeeps
<1>6. messages' = Append(t, h)
    <2> HIDE DEF m, h
    <2> QED
        BY <1>1, <1>3, <1>4
<1>7. /\ Append(t, h) \in Seq(Message) /\ Distinct(Append(t, h)) /\ Ordered(Append(t, h))
      /\ DOMAIN Append(t, h) = 1..(Len(t) + 1) /\ DOMAIN t = 1..Len(t)
      /\ \A i \in DOMAIN t : Append(t, h)[i] = t[i]
      /\ Append(t, h)[Len(t) + 1] = h
    <2>1. ASSUME NEW i \in DOMAIN t, t[i].of = h.of
          PROVE  IsQuestion(t[i]) # IsQuestion(h)
        <3>1. i = Len(messages) + 1
            BY <1>3, <1>4, <1>5, <2>1
        <3> QED
            BY <1>4, <1>5, <3>1
    <2>2. Holds(t, Say(h.of, "question"))
        <3>1. Len(messages) + 1 \in DOMAIN t
            BY <1>5
        <3> QED
            BY <1>4, <1>5, <3>1 DEF Holds
    <2> HIDE DEF t, h
    <2> QED
        BY <1>4, <1>5, <2>1, <2>2, AppendKeeps
<1>8. \A i \in DOMAIN messages' :
          \/ i \in DOMAIN messages /\ messages'[i] = messages[i]
          \/ messages'[i] = m \/ messages'[i] = h
    <2>1. Len(t) = Len(messages) + 1
        BY <1>5
    <2> HIDE DEF t, m, h
    <2> QED
        BY <1>5, <1>6, <1>7, <2>1
<1>9. \A c \in Convs : \A i \in DOMAIN log[c] :
          /\ log[c][i].of \in Questions /\ log[c][i].of # q
    <2> SUFFICES ASSUME NEW c \in Convs, NEW i \in DOMAIN log[c]
                 PROVE  log[c][i].of \in Questions /\ log[c][i].of # q
        OBVIOUS
    <2>1. log[c][i] \in [of : Questions, part : {"question", "answer"}]
        BY Element DEF IInv, TypeOK
    <2> QED
        BY <1>1, <2>1 DEF IInv, LogOK
<1>10. TypeOK'
    <2>1. messages' \in Seq(Message)
        BY <1>6, <1>7
    <2>2. call' \in [Questions -> {"new", "sent"} \cup Ended]
        BY <1>1 DEF IInv, TypeOK
    <2>3. conv' \in [Questions -> Convs \cup {None}]
        BY <1>1 DEF IInv, TypeOK
    <2>4. \A p \in Questions : call'[p] = "new" \/ conv'[p] \in created'
        BY <1>1, <1>2 DEF IInv, TypeOK
    <2>5. UNCHANGED <<shown, listed, creating, listing, fetches, created, log>>
        BY <1>1
    <2>6. chatBusy' \in BOOLEAN /\ abort' \in Questions \cup {None}
        BY <1>1
    <2> QED
        BY <2>1, <2>2, <2>3, <2>4, <2>5, <2>6 DEF IInv, TypeOK
<1>11. OneChatCall'
    <2>1. Sending = {} /\ creating = "no"
        BY <1>1 DEF IInv, OneChatCall
    <2>2. Sending' = {q}
        BY <1>2, <2>1 DEF Sending
    <2>3. q # None
        BY ChatAssumption
    <2> QED
        BY <1>1, <2>1, <2>2, <2>3 DEF OneChatCall
<1>12. LogOK'
    BY <1>1, <1>2, <1>9 DEF IInv, LogOK, Distinct, Ordered
<1>13. \A p \in Questions : p # q /\ Saved(p, "answer") => Saved(p, "answer")'
    BY <1>1, <1>2 DEF Saved, Holds
<1>14. ScreenOK'
    <2>1. ASSUME NEW i \in DOMAIN messages' PROVE EntryOK(messages[i])'
        <3>1. CASE messages'[i] = m \/ messages'[i] = h
            BY <1>2, <1>4, <3>1 DEF EntryOK
        <3>2. CASE i \in DOMAIN messages /\ messages'[i] = messages[i]
            <4>1. /\ messages[i].of \in Questions /\ messages[i].of # q
                  /\ EntryOK(messages[i])
                BY <1>3, <3>2
            <4>2. messages[i].part = "answer" => Saved(messages[i].of, "answer")'
                BY <1>13, <3>2, <4>1 DEF EntryOK
            <4> QED
                BY <1>2, <3>2, <4>1, <4>2 DEF EntryOK
        <3> QED
            BY <1>8, <2>1, <3>1, <3>2
    <2> QED
        BY <1>6, <1>7, <2>1 DEF ScreenOK, Distinct, Ordered
<1> QED
    BY <1>10, <1>11, <1>12, <1>14 DEF IInv

-----------------------------------------------------------------------------
(* Theorems *)

LEMMA StepInvariant == IInv /\ [Next]_vars => IInv'
<1> SUFFICES ASSUME IInv, [Next]_vars PROVE IInv'
    OBVIOUS
<1>1. CASE UNCHANGED vars
    <2>1. TypeOK' /\ OneChatCall' /\ UNCHANGED <<messages, call, conv, log>>
        BY <1>1 DEF vars, IInv, TypeOK, OneChatCall, Sending
    <2> QED
        BY <2>1, QuietStep
<1>2. CASE Listed \/ ListingFails \/ \E c \in Convs : Select(c) \/ FetchFails(c)
    BY <1>2, SidebarKeeps
<1>3. CASE \/ CreateConversation \/ CreationFails
           \/ \E c \in Convs : SaveConversation(c)
    BY <1>3, CreationKeeps
<1>4. CASE ConversationCreated
    BY <1>4, ConversationCreatedKeeps
<1>5. CASE \E c \in Convs : Fetched(c)
    BY <1>5, FetchedKeeps
<1>6. CASE CancelChat \/ \E q \in Questions : CallStep(q)
    BY <1>6, EndKeeps
<1>7. CASE \E q \in Questions : SendMessage(q)
    BY <1>7, SendMessageKeeps
<1>8. CASE \E q \in Questions : SaveQuestion(q) \/ SaveAnswer(q)
    BY <1>8, SavingKeeps
<1> QED
    BY <1>1, <1>2, <1>3, <1>4, <1>5, <1>6, <1>7, <1>8 DEF Next

\* IInv holds of every reachable state.
THEOREM Invariance == Spec => []IInv
<1>1. Init => IInv
    BY InitInvariant
<1>2. IInv /\ [Next]_vars => IInv'
    BY StepInvariant
<1> QED
    BY <1>1, <1>2, PTL DEF Spec

\* The state of the hook and of the chat table is well formed.
THEOREM TypeCorrect == Spec => []TypeOK
<1>1. IInv => TypeOK
    BY DEF IInv
<1> QED
    BY <1>1, Invariance, PTL

\* chatBusy admits one call at a time, and abortRef holds that call's request.
THEOREM OneCallAtATime == Spec => []OneChatCall
<1>1. IInv => OneChatCall
    BY DEF IInv
<1> QED
    BY <1>1, Invariance, PTL

\* Nothing is on the screen or in a conversation's log twice.
THEOREM NothingTwice == Spec => []NoMessageTwice
<1>1. IInv => NoMessageTwice
    BY DEF IInv, ScreenOK, LogOK, Distinct, NoMessageTwice
<1> QED
    BY <1>1, Invariance, PTL

\* An answer on the screen is below its question and in the table.
THEOREM AnswersStayBacked == Spec => []AnswersAreBacked
<1>1. IInv => AnswersAreBacked
    BY DEF IInv, ScreenOK, Ordered, EntryOK, IsQuestion, AnswersAreBacked
<1> QED
    BY <1>1, Invariance, PTL

\* A placeholder has a call that will replace it, or was answered with a 401.
THEOREM ThinkingHasACall == Spec => []ThinkingIsDriven
<1>1. IInv => ThinkingIsDriven
    BY DEF IInv, ScreenOK, EntryOK, ThinkingIsDriven
<1> QED
    BY <1>1, Invariance, PTL

-----------------------------------------------------------------------------
(* The browser and the server implement ChatStore *)

\* A list with one message more holds that message too.
LEMMA HoldsAppended ==
    ASSUME NEW S, NEW s \in Seq(S), NEW m \in S, NEW x
    PROVE  Holds(Append(s, m), x) <=> Holds(s, x) \/ x = m
<1> DEFINE t == Append(s, m)
<1>1. /\ DOMAIN t = 1..(Len(s) + 1) /\ DOMAIN s = 1..Len(s) /\ Len(s) \in Nat
      /\ \A i \in 1..Len(s) : t[i] = s[i]
      /\ t[Len(s) + 1] = m
    OBVIOUS
<1> HIDE DEF t
<1>2. ASSUME NEW i \in DOMAIN t, t[i] = x PROVE Holds(s, x) \/ x = m
    BY <1>1, <1>2 DEF Holds
<1>3. ASSUME NEW i \in DOMAIN s, s[i] = x PROVE \E k \in DOMAIN t : t[k] = x
    BY <1>1, <1>3
<1>4. x = m => \E k \in DOMAIN t : t[k] = x
    BY <1>1
<1>5. (\E k \in DOMAIN t : t[k] = x) <=> Holds(s, x) \/ x = m
    BY <1>2, <1>3, <1>4 DEF Holds
<1> QED
    BY <1>5 DEF Holds, t

\* A user or an assistant message is saved: its pair joins the pairs of its part.
LEMMA SavingAdds ==
    ASSUME IInv, NEW q \in Questions, NEW part \in {"question", "answer"},
           call[q] # "new",
           log' = [log EXCEPT ![conv[q]] = Append(@, Say(q, part))]
    PROVE  /\ conv[q] \in Convs
           /\ InLog(part)' = InLog(part) \cup {<<conv[q], q>>}
           /\ \A other \in {"question", "answer"} \ {part} : InLog(other)' = InLog(other)
<1> DEFINE c == conv[q]
           S == [of : Questions, part : {"question", "answer"}]
<1>1. c \in Convs /\ log[c] \in Seq(S) /\ Say(q, part) \in S
    BY DEF IInv, TypeOK, Say
<1>2. \A d \in Convs : log'[d] = IF d = c THEN Append(log[c], Say(q, part)) ELSE log[d]
    BY <1>1 DEF IInv, TypeOK
<1>3. \A p \in Questions, kind \in {"question", "answer"} :
        Say(p, kind) = Say(q, part) <=> p = q /\ kind = part
    BY DEF Say
<1>4. \A d \in Convs, p \in Questions, kind \in {"question", "answer"} :
        Holds(log'[d], Say(p, kind)) <=>
            Holds(log[d], Say(p, kind)) \/ (d = c /\ p = q /\ kind = part)
    <2> SUFFICES ASSUME NEW d \in Convs, NEW p \in Questions,
                        NEW kind \in {"question", "answer"}
                 PROVE  Holds(log'[d], Say(p, kind)) <=>
                            Holds(log[d], Say(p, kind)) \/ (d = c /\ p = q /\ kind = part)
        OBVIOUS
    <2>1. CASE d = c
        <3>1. Holds(Append(log[c], Say(q, part)), Say(p, kind)) <=>
                Holds(log[c], Say(p, kind)) \/ Say(p, kind) = Say(q, part)
            <4> HIDE DEF S
            <4> QED
                BY <1>1, HoldsAppended
        <3> QED
            BY <1>2, <1>3, <2>1, <3>1
    <2>2. CASE d # c
        BY <1>2, <2>2
    <2> QED
        BY <2>1, <2>2
<1>5. InLog(part)' = InLog(part) \cup {<<c, q>>}
    BY <1>1, <1>4 DEF InLog
<1>6. \A other \in {"question", "answer"} \ {part} : InLog(other)' = InLog(other)
    BY <1>4 DEF InLog
<1> QED
    BY <1>1, <1>5, <1>6

\* A question is in the log of the conversation it was sent in, and in no other.
LEMMA LoggedWhereSent ==
    ASSUME IInv, NEW c \in Convs, NEW q \in Questions, NEW part,
           <<c, q>> \in InLog(part)
    PROVE  conv[q] = c /\ call[q] # "new" /\ Saved(q, part)
<1>1. PICK i \in DOMAIN log[c] : log[c][i] = Say(q, part)
    BY DEF InLog, Holds
<1>2. log[c][i].of = q
    BY <1>1 DEF Say
<1>3. call[q] # "new" /\ conv[q] = c
    BY <1>2 DEF IInv, LogOK
<1> QED
    BY <1>1, <1>3 DEF Saved, Holds

\* The server's two writes are the abstract ones.
LEMMA SavingRefines ==
    ASSUME IInv, NEW q \in Questions, SaveQuestion(q) \/ SaveAnswer(q)
    PROVE  ChatStore!Next
<1>1. call[q] # "new" /\ conv[q] \in Convs /\ conv[q] \in created /\ created' = created
    BY DEF IInv, TypeOK, SaveQuestion, SaveAnswer, Saved
<1>2. CASE SaveQuestion(q)
    <2>1. log' = [log EXCEPT ![conv[q]] = Append(@, Say(q, "question"))]
          /\ ~Saved(q, "question")
        BY <1>2 DEF SaveQuestion
    <2>2. InLog("question")' = InLog("question") \cup {<<conv[q], q>>}
          /\ InLog("answer")' = InLog("answer")
        BY <1>1, <2>1, SavingAdds
    <2>3. \A other \in Convs : <<other, q>> \notin InLog("question")
        BY <2>1, LoggedWhereSent
    <2>4. ChatStore!Ask(conv[q], q)
        BY <1>1, <2>2, <2>3 DEF ChatStore!Ask
    <2> QED
        BY <1>1, <2>4 DEF ChatStore!Next
<1>3. CASE SaveAnswer(q)
    <2>1. log' = [log EXCEPT ![conv[q]] = Append(@, Say(q, "answer"))]
          /\ Saved(q, "question") /\ ~Saved(q, "answer")
        BY <1>3 DEF SaveAnswer
    <2>2. InLog("answer")' = InLog("answer") \cup {<<conv[q], q>>}
          /\ InLog("question")' = InLog("question")
        BY <1>1, <2>1, SavingAdds
    <2>3. <<conv[q], q>> \in InLog("question") \ InLog("answer")
        BY <1>1, <2>1 DEF InLog, Saved
    <2>4. ChatStore!Answer(conv[q], q)
        BY <1>1, <2>2, <2>3 DEF ChatStore!Answer
    <2> QED
        BY <1>1, <2>4 DEF ChatStore!Next
<1> QED
    BY <1>2, <1>3

\* Every other step creates a conversation or is not seen in the table.
LEMMA StepRefines == IInv /\ [Next]_vars => [ChatStore!Next]_(ChatStore!vars)
<1> SUFFICES ASSUME IInv, [Next]_vars PROVE [ChatStore!Next]_(ChatStore!vars)
    OBVIOUS
<1>1. CASE \E q \in Questions : SaveQuestion(q) \/ SaveAnswer(q)
    BY <1>1, SavingRefines
<1>2. CASE log' = log /\ created' = created
    BY <1>2 DEF ChatStore!vars, InLog
<1>3. CASE \E c \in Convs : SaveConversation(c)
    <2>1. PICK c \in Convs : c \notin created /\ created' = created \cup {c} /\ log' = log
        BY <1>3 DEF SaveConversation
    <2>2. ChatStore!Create(c)
        BY <2>1 DEF ChatStore!Create, InLog
    <2> QED
        BY <2>2 DEF ChatStore!Next
<1> QED
    BY <1>1, <1>2, <1>3
    DEF Next, vars, Listed, ListingFails, Select, Fetched, FetchFails, CreateConversation,
        ConversationCreated, CreationFails, CancelChat, SendMessage, CallStep, Answered, Fails,
        Refused, End

\* Whatever the browser cancels, loses or is refused, the chat table only gains
\* conversations, a question once and in one of them, and its answer after it.
THEOREM ImplementsChatStore == Spec => ChatStoreSpec
<1>1. Init => ChatStore!Init
    BY DEF Init, ChatStore!Init, InLog, Holds
<1> QED
    BY <1>1, StepRefines, Invariance, PTL DEF Spec, ChatStoreSpec, ChatStore!Spec
=============================================================================
