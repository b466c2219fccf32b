------------------------------ MODULE UploadFlow ------------------------------
(***************************************************************************)
(* The browser's useDocuments hook: the uploadFile calls the user starts,   *)
(* each an asynchronous function that hashes, asks for a URL, PUTs the file *)
(* and polls the document, and what they share: the phase on the screen,    *)
(* xhrRef and pollAbortRef.                                                 *)
(*                                                                          *)
(* JavaScript runs one piece of code at a time, from one await to the next; *)
(* the rejection an abort causes is handled before the next event.  Each    *)
(* such piece is an action.  What the server answers is left open: the      *)
(* document's own life is that of Ingestion.tla.                            *)
(***************************************************************************)
EXTENDS Integers

CONSTANTS
    Uploads,    \* calls of uploadFile, and the document each creates
    None,
    MaxPolls    \* polls before the ten minutes are over

ASSUME UploadAssumption ==
    /\ None \notin Uploads
    /\ MaxPolls \in Nat \ {0}

VARIABLES
    phase,   \* uploadPhase: what the screen shows, and of which document
    call,    \* where each call of uploadFile is
    xhr,     \* xhrRef.current: the call whose request it is
    poll,    \* pollAbortRef.current: the call whose controller it is
    polls,   \* polls each call has made
    asked    \* documents cancelDocument has been called for

vars == <<phase, call, xhr, poll, polls, asked>>

-----------------------------------------------------------------------------

Working  == {"hashing", "requesting", "sending", "polling", "sleeping", "refreshing"}
Ended    == {"done", "canceled", "failed", "refused"}
Pollers  == {"polling", "sleeping"}

\* The phases in which App disables the upload button, the first two without a
\* document yet.
Busy == {"hashing", "requesting_url", "uploading", "ingesting"}

\* The phases in which App shows a cancel button.
Cancelable == {"uploading", "ingesting"}

Phase    == [at : Busy \cup {"idle", "canceled", "error"}, doc : Uploads \cup {None}]
Show(at) == [at |-> at, doc |-> None]

TypeOK ==
    /\ phase \in Phase
    /\ (phase.at \in Cancelable) = (phase.doc # None)
    /\ call \in [Uploads -> {"new"} \cup Working \cup Ended]
    /\ xhr \in Uploads \cup {None} /\ poll \in Uploads \cup {None}
    /\ polls \in [Uploads -> 0..MaxPolls]
    /\ asked \subseteq Uploads

Init ==
    /\ phase = Show("idle")
    /\ call = [u \in Uploads |-> "new"]
    /\ xhr = None /\ poll = None
    /\ polls = [u \in Uploads |-> 0]
    /\ asked = {}

\* The call whose awaits the current controller would abort.
Polling == {u \in Uploads : u = poll /\ call[u] \in Pollers}

-----------------------------------------------------------------------------
(* uploadFile *)

\* The form's button is enabled between uploads.  That it is not while the chat
\* is busy only makes the user wait.
MayUpload == phase.at \notin Busy

UploadFile(u) ==
    /\ MayUpload
    /\ call[u] = "new"
    /\ call' = [call EXCEPT ![u] = "hashing"]
    /\ phase' = Show("hashing")
    /\ UNCHANGED <<xhr, poll, polls, asked>>

Hashed(u) ==
    /\ call[u] = "hashing"
    /\ call' = [call EXCEPT ![u] = "requesting"]
    /\ phase' = Show("requesting_url")
    /\ UNCHANGED <<xhr, poll, polls, asked>>

\* The upload URL arrives: the PUT is sent.
UrlReceived(u) ==
    /\ call[u] = "requesting"
    /\ call' = [call EXCEPT ![u] = "sending"]
    /\ xhr' = u
    /\ phase' = [at |-> "uploading", doc |-> u]
    /\ UNCHANGED <<poll, polls, asked>>

\* Mutant of Uploaded: pollUntilReady leaves an earlier poller alone.
UploadedBeside(u) ==
    /\ call[u] = "sending"
    /\ poll' = u
    /\ call' = [call EXCEPT ![u] = "polling"]
    /\ phase' = [at |-> "ingesting", doc |-> u]
    /\ UNCHANGED <<xhr, polls, asked>>

\* The PUT succeeds: the phase is set and pollUntilReady aborts the controller
\* of an earlier poller, whose catch clause then cancels its document, shows
\* "canceled" and clears xhrRef.
Uploaded(u) ==
    /\ call[u] = "sending"
    /\ poll' = u
    /\ call' = [v \in Uploads |-> IF v = u THEN "polling"
                                  ELSE IF v \in Polling THEN "canceled"
                                  ELSE call[v]]
    /\ asked' = asked \cup Polling
    /\ IF Polling = {}
       THEN /\ phase' = [at |-> "ingesting", doc |-> u]
            /\ UNCHANGED xhr
       ELSE /\ phase' = Show("canceled")
            /\ xhr' = None
    /\ UNCHANGED polls

\* A poll finds the document pending or processing.
StillIngesting(u) ==
    /\ call[u] = "polling"
    /\ call' = [call EXCEPT ![u] = "sleeping"]
    /\ phase' = [at |-> "ingesting", doc |-> u]
    /\ polls' = [polls EXCEPT ![u] = IF @ < MaxPolls THEN @ + 1 ELSE @]
    /\ UNCHANGED <<xhr, poll, asked>>

\* A poll finds it ready: what is left is the refresh of the list.
FoundReady(u) ==
    /\ call[u] = "polling"
    /\ call' = [call EXCEPT ![u] = "refreshing"]
    /\ UNCHANGED <<phase, xhr, poll, polls, asked>>

\* The call is over: its finally clause clears xhrRef, whoever's request it is.
End(u, how) ==
    /\ call' = [call EXCEPT ![u] = how]
    /\ xhr' = None
    /\ UNCHANGED <<poll, polls>>

\* Mutant of Awake: no time limit.
AwakeForEver(u) ==
    /\ call[u] = "sleeping"
    /\ call' = [call EXCEPT ![u] = "polling"]
    /\ UNCHANGED <<phase, xhr, poll, polls, asked>>

\* After 600 ms the next poll, unless the ten minutes are over.
Awake(u) ==
    /\ call[u] = "sleeping"
    /\ IF polls[u] < MaxPolls
       THEN /\ call' = [call EXCEPT ![u] = "polling"]
            /\ UNCHANGED <<phase, xhr, poll, polls, asked>>
       ELSE /\ End(u, "failed")
            /\ phase' = Show("error")
            /\ UNCHANGED asked

\* refreshDocuments never throws (and does nothing while another refresh runs).
Refreshed(u) ==
    /\ call[u] = "refreshing"
    /\ End(u, "done")
    /\ phase' = Show("idle")
    /\ UNCHANGED asked

\* Mutant of Fails: the error is only kept for the list's error line.
FailsSilently(u) ==
    /\ call[u] \in {"hashing", "requesting", "sending", "polling"}
    /\ End(u, "failed")
    /\ UNCHANGED <<phase, asked>>

\* Hashing, a request or the PUT fails, or the document is found failed.
Fails(u) ==
    /\ call[u] \in {"hashing", "requesting", "sending", "polling"}
    /\ End(u, "failed")
    /\ phase' = Show("error")
    /\ UNCHANGED asked

\* The API answers 401: the catch clause leaves the phase as it is.
Refused(u) ==
    /\ call[u] \in {"requesting", "polling"}
    /\ End(u, "refused")
    /\ UNCHANGED <<phase, asked>>

-----------------------------------------------------------------------------
(* cancelUpload *)

\* While the screen shows an upload: abort the request of xhrRef.  The call it
\* belongs to cancels its document.
CancelSending ==
    /\ phase.at = "uploading"
    /\ \E u \in Uploads :
        /\ u = xhr /\ call[u] = "sending"
        /\ End(u, "canceled")
        /\ phase' = Show("canceled")
        /\ asked' = asked \cup {u}

\* Mutant of CancelIngesting: the poller is not aborted.
CancelIngestingOnly ==
    /\ phase.at = "ingesting"
    /\ phase' = Show("canceled")
    /\ asked' = asked \cup {phase.doc}
    /\ UNCHANGED <<call, xhr, poll, polls>>

\* While it shows an ingestion: abort the poller, which then cancels its
\* document, and cancel the document shown.
CancelIngesting ==
    /\ phase.at = "ingesting"
    /\ phase' = Show("canceled")
    /\ asked' = asked \cup {phase.doc} \cup Polling
    /\ call' = [u \in Uploads |-> IF u \in Polling THEN "canceled" ELSE call[u]]
    /\ xhr' = IF Polling = {} THEN xhr ELSE None
    /\ UNCHANGED <<poll, polls>>

-----------------------------------------------------------------------------

CallStep(u) ==
    \/ Hashed(u) \/ UrlReceived(u) \/ Uploaded(u) \/ StillIngesting(u)
    \/ FoundReady(u) \/ Awake(u) \/ Refreshed(u) \/ Fails(u) \/ Refused(u)

Next ==
    \/ \E u \in Uploads : UploadFile(u) \/ CallStep(u)
    \/ CancelSending \/ CancelIngesting

\* Requests are answered or fail, and timers fire; the user owes nothing.
Spec == Init /\ [][Next]_vars /\ \A u \in Uploads : WF_vars(CallStep(u))

-----------------------------------------------------------------------------
(* Properties *)

\* A screen that says it is busy, with no way to upload, has a call at work
\* that will change it; only an answer of 401 can leave it stuck
\* (useDocuments.ts:121-132).
BusyIsDriven ==
    LET Drives(u, places) == call[u] \in places \cup {"refused"} IN
    /\ phase.at = "hashing" => \E u \in Uploads : call[u] = "hashing"
    /\ phase.at = "requesting_url" => \E u \in Uploads : Drives(u, {"requesting"})
    /\ phase.at = "uploading" => call[phase.doc] = "sending"
    /\ phase.at = "ingesting" => Drives(phase.doc, Pollers \cup {"refreshing"})

\* However uploads overlap, at most one call polls: its controller is the one
\* cancelUpload would abort (useDocuments.ts:136-138).
OnePoller == \A u \in Uploads : call[u] \in Pollers => u = poll

\* No call goes on uploading or polling a document it has asked to cancel
\* (useDocuments.ts:121-125, 183-192).
AskedStops == \A u \in asked : call[u] \notin Pollers \cup {"sending"}

\* The most events that a call which is at a place, after so many polls, may still
\* see: every poll but the last is followed by a sleep.
EventsLeft(place, made) ==
    CASE place = "new"        -> 2 * MaxPolls + 5
      [] place = "hashing"    -> 2 * MaxPolls + 4
      [] place = "requesting" -> 2 * MaxPolls + 3
      [] place = "sending"    -> 2 * MaxPolls + 2
      [] place = "sleeping"   -> 2 * (MaxPolls - made) + 2
      [] place = "polling"    -> 2 * (MaxPolls - made) + 1
      [] place = "refreshing" -> 1
      [] OTHER                -> 0

\* A call of uploadFile only moves towards its end, whatever is answered, aborted
\* or started beside it: it never sends twice, never polls longer than its ten
\* minutes, and does nothing once it is over (useDocuments.ts:61-181).
CallsAdvance ==
    [][\A u \in Uploads : call'[u] # call[u] =>
           EventsLeft(call'[u], polls'[u]) \in 0..(EventsLeft(call[u], polls[u]) - 1)]_vars

\* Every upload the user starts ends, whatever the server answers.
UploadsEnd == \A u \in Uploads : call[u] = "hashing" ~> call[u] \in Ended
=============================================================================
