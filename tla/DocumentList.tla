---------------------------- MODULE DocumentList ----------------------------
(***************************************************************************)
(* The document list of the useDocuments hook beside its uploads: one       *)
(* request for the list at a time, refused by refreshingRef otherwise; an   *)
(* interval that asks for it while something is being ingested or the list  *)
(* says so; and the last refresh of every upload.  The uploads are those of *)
(* UploadFlow.tla.                                                          *)
(***************************************************************************)
EXTENDS UploadFlow

CONSTANTS
    Listed,   \* documents followed in the list
    Effect    \* what asks for the list besides uploads: the hook's effects

ASSUME ListAssumption ==
    /\ Listed \subseteq Uploads
    /\ Effect \notin Uploads \cup {None}

VARIABLES
    server,      \* each document in the table
    list,        \* what the screen says of it
    others,      \* whether it shows any other document, of this visit or an
                 \* earlier one, that is pending or processing
    refreshing,  \* refreshingRef.current
    asking       \* the callers whose request for the list is under way

listVars == <<list, others, refreshing, asking>>
hookVars == <<vars, server, listVars>>

-----------------------------------------------------------------------------

\* A document is open while its status is pending or processing.
States  == {"absent", "open", "settled"}
Shown   == [Listed -> States]
Nothing == [u \in Listed |-> "absent"]

Callers == Uploads \cup {Effect}

HookTypeOK ==
    /\ TypeOK
    /\ server \in Shown /\ list \in Shown /\ others \in BOOLEAN
    /\ refreshing \in BOOLEAN
    /\ asking \subseteq Callers

\* The first effect asks for the list at sign-in.
HookInit ==
    /\ Init
    /\ server = Nothing /\ list = Nothing /\ others = FALSE
    /\ refreshing = TRUE
    /\ asking = {Effect}

-----------------------------------------------------------------------------
(* refreshDocuments *)

\* A call that finds another one under way returns at once.
RefreshDocuments(c) ==
    \/ refreshing /\ UNCHANGED listVars
    \/ /\ ~refreshing
       /\ refreshing' = TRUE
       /\ asking' = asking \cup {c}
       /\ UNCHANGED <<list, others>>

\* The finally clause.
RequestEnds(c) ==
    /\ refreshing' = FALSE
    /\ asking' = asking \ {c}

\* The states a document may be read in: the query ran at some moment since the
\* request was sent, and is eventually consistent.
UpTo(state) == IF state = "settled" THEN States ELSE {"absent", state}

ListArrives(c) ==
    /\ c \in asking
    /\ list' \in {shown \in Shown : \A u \in Listed : shown[u] \in UpTo(server[u])}
    /\ others' \in BOOLEAN
    /\ RequestEnds(c)
    /\ UNCHANGED <<vars, server>>

\* Mutant of ListFails: the reference is reset on success only.
ListFailsBusy(c) ==
    /\ c \in asking
    /\ asking' = asking \ {c}
    /\ UNCHANGED <<vars, server, list, others, refreshing>>

\* The request fails or is answered 401: the list stays.
ListFails(c) ==
    /\ c \in asking
    /\ RequestEnds(c)
    /\ UNCHANGED <<vars, server, list, others>>

\* Mutant of NeedsPolling: only the upload under way counts.
NeedsPollingForUpload == phase.at = "ingesting"

NeedsPolling == phase.at = "ingesting" \/ others \/ \E u \in Listed : list[u] = "open"

\* The interval fires.
Tick ==
    /\ NeedsPolling
    /\ RefreshDocuments(Effect)
    /\ UNCHANGED <<vars, server>>

-----------------------------------------------------------------------------
(* Uploads, and their documents in the table *)

\* A poll finds the document ready, and the list is asked for.
FoundReadyRefreshing(u) ==
    /\ FoundReady(u) /\ (u \in Listed => server[u] = "settled")
    /\ RefreshDocuments(u)
    /\ UNCHANGED server

\* The refresh is over, or was none.
RefreshReturns(u) ==
    /\ u \notin asking
    /\ Refreshed(u)
    /\ UNCHANGED <<server, listVars>>

UploadStep(u) ==
    /\ \/ Hashed(u) \/ (UrlReceived(u) /\ (u \in Listed => server[u] # "absent"))
       \/ Uploaded(u) \/ StillIngesting(u) \/ Awake(u) \/ Fails(u) \/ Refused(u)
    /\ UNCHANGED <<server, listVars>>

UserStep ==
    /\ CancelSending \/ CancelIngesting \/ \E u \in Uploads : UploadFile(u)
    /\ UNCHANGED <<server, listVars>>

\* The API creates the document an upload asks a URL for.
DocumentCreated(u) ==
    /\ call[u] = "requesting" /\ server[u] = "absent"
    /\ server' = [server EXCEPT ![u] = "open"]
    /\ UNCHANGED <<vars, listVars>>

\* It is ingested, fails or is canceled.
DocumentSettled(u) ==
    /\ server[u] = "open" /\ call[u] # "requesting"
    /\ server' = [server EXCEPT ![u] = "settled"]
    /\ UNCHANGED <<vars, listVars>>

-----------------------------------------------------------------------------

HookCall(u) == UploadStep(u) \/ FoundReadyRefreshing(u) \/ RefreshReturns(u)

RequestStep(c) == ListArrives(c) \/ ListFails(c)

HookNext ==
    \/ \E u \in Uploads : HookCall(u)
    \/ \E u \in Listed : DocumentCreated(u) \/ DocumentSettled(u)
    \/ \E c \in Callers : RequestStep(c)
    \/ Tick \/ UserStep

\* Timers fire, and requests are answered or fail; those for the list do not fail
\* for ever, nor are their answers out of date for ever.
HookFairness ==
    /\ WF_hookVars(Tick)
    /\ SF_hookVars(ListArrives(Effect) /\ list' = server)
    /\ \A u \in Listed : WF_hookVars(DocumentCreated(u))
    /\ \A u \in Uploads : WF_hookVars(HookCall(u))
    /\ \A c \in Callers : WF_hookVars(RequestStep(c))

HookSpec == HookInit /\ [][HookNext]_hookVars /\ HookFairness

-----------------------------------------------------------------------------
(* Properties *)

\* refreshingRef is up exactly while one request for the list is under way, by
\* whichever caller: up for good, it would freeze the list
\* (useDocuments.ts:32-41).
OneRefresh ==
    /\ refreshing = (asking # {})
    /\ \A c, e \in asking : c = e

\* The screen does not say for ever that a settled document is unfinished, after
\* its upload has ended, failed or been canceled too (useDocuments.ts:49-59).
NotShownOpenForEver ==
    \A u \in Listed : server[u] = "settled" ~> list[u] # "open"
=============================================================================
