------------------------------ MODULE ChatStore ------------------------------
(***************************************************************************)
(* What the chat table promises, whatever browsers, requests and failures    *)
(* stand before it: conversations come to be, a question is kept in one of   *)
(* them and once, its answer in the same one, after it and once; nothing     *)
(* is ever taken away.  ConversationFlow and ApiHandler implement this.      *)
(***************************************************************************)

CONSTANTS
    Conversations,
    Questions       \* each sent by one POST /conversations/{id}/messages

VARIABLES
    created,        \* the conversations there are
    asked,          \* <<conversation, question>> of the user messages
    answered        \* <<conversation, question>> of the assistant messages

vars == <<created, asked, answered>>

\* There may be conversations from before, read or not.
Init == created \subseteq Conversations /\ asked = {} /\ answered = {}

Create(c) ==
    /\ c \notin created
    /\ created' = created \cup {c}
    /\ UNCHANGED <<asked, answered>>

\* Only in a conversation that is there, and a question is in no two of them.
Ask(c, q) ==
    /\ c \in created
    /\ \A other \in Conversations : <<other, q>> \notin asked
    /\ asked' = asked \cup {<<c, q>>}
    /\ UNCHANGED <<created, answered>>

Answer(c, q) ==
    /\ <<c, q>> \in asked \ answered
    /\ answered' = answered \cup {<<c, q>>}
    /\ UNCHANGED <<created, asked>>

Next ==
    \E c \in Conversations :
        Create(c) \/ \E q \in Questions : Ask(c, q) \/ Answer(c, q)

Spec == Init /\ [][Next]_vars
=============================================================================
