--------------------------- MODULE UploadFlowProofs ---------------------------
(***************************************************************************)
(* Proofs about UploadFlow.tla, for any number of uploads and any time      *)
(* limit, and about DocumentList.tla, which implements it.  The three       *)
(* safety properties lean on each other: what a cancel button stops is      *)
(* right because at most one call polls, and because a busy screen names a  *)
(* call that is at work.                                                    *)
(***************************************************************************)
EXTENDS DocumentList, TLAPS

\* A document is only asked to be canceled by a call that is over, or so far
\* that nothing stops it any more: it never sends or polls again.
AskedLate == \A u \in asked : call[u] \in Ended \cup {"refreshing"}

IInv == TypeOK /\ BusyIsDriven /\ OnePoller /\ AskedLate

USE DEF Working, Ended, Pollers, Busy, Cancelable

\* What follows from the types for one call, and for the poller.
LEMMA PollingCall ==
    ASSUME IInv
    PROVE  /\ \A u \in Uploads : u \in Polling <=> (u = poll /\ call[u] \in Pollers)
           /\ \A u \in Uploads : call[u] \in Pollers => u \in Polling
           /\ Polling \subseteq Uploads
    BY DEF IInv, OnePoller, Polling

\* Before anything is uploaded.
LEMMA InitInvariant == Init => IInv
    BY UploadAssumption
    DEF Init, IInv, TypeOK, Phase, Show, BusyIsDriven, OnePoller, AskedLate

\* The steps that move one call, and show a phase that names it if it is busy
\* with a document.
LEMMA CallStepKeeps ==
    ASSUME IInv, NEW u \in Uploads, CallStep(u) \/ UploadFile(u)
    PROVE  IInv'
<1> USE UploadAssumption
<1>1. ASSUME UploadFile(u) PROVE IInv'
    <2>1. TypeOK'
        BY <1>1 DEF IInv, TypeOK, Phase, Show, UploadFile, MayUpload
    <2>2. BusyIsDriven'
        BY <1>1 DEF IInv, TypeOK, Show, UploadFile, MayUpload, BusyIsDriven
    <2>3. OnePoller' /\ AskedLate'
        BY <1>1 DEF IInv, TypeOK, UploadFile, MayUpload, OnePoller, AskedLate
    <2> QED  BY <2>1, <2>2, <2>3 DEF IInv
<1>2. ASSUME Hashed(u) PROVE IInv'
    <2>1. TypeOK'
        BY <1>2 DEF IInv, TypeOK, Phase, Show, Hashed
    <2>2. BusyIsDriven'
        BY <1>2 DEF IInv, TypeOK, Show, Hashed, BusyIsDriven
    <2>3. OnePoller' /\ AskedLate'
        BY <1>2 DEF IInv, TypeOK, Hashed, OnePoller, AskedLate
    <2> QED  BY <2>1, <2>2, <2>3 DEF IInv
<1>3. ASSUME UrlReceived(u) PROVE IInv'
    <2>1. TypeOK'
        BY <1>3 DEF IInv, TypeOK, Phase, UrlReceived
    <2>2. BusyIsDriven'
        BY <1>3 DEF IInv, TypeOK, UrlReceived, BusyIsDriven
    <2>3. OnePoller' /\ AskedLate'
        BY <1>3 DEF IInv, TypeOK, UrlReceived, OnePoller, AskedLate
    <2> QED  BY <2>1, <2>2, <2>3 DEF IInv
<1>4. ASSUME Uploaded(u) PROVE IInv'
    <2>1. \A v \in Uploads : call'[v] = IF v = u THEN "polling"
                                        ELSE IF v \in Polling THEN "canceled"
                                        ELSE call[v]
        BY <1>4 DEF Uploaded
    <2>2. call' \in [Uploads -> {"new"} \cup Working \cup Ended]
        BY <1>4 DEF IInv, TypeOK, Uploaded
    <2>3. TypeOK'
        BY <1>4, <2>2, PollingCall DEF IInv, TypeOK, Phase, Show, Uploaded
    <2>4. BusyIsDriven'
        BY <1>4, <2>1 DEF IInv, TypeOK, Phase, Show, Uploaded, BusyIsDriven
    <2>5. OnePoller'
        BY <1>4, <2>1, PollingCall DEF Uploaded, OnePoller
    <2>6. u \notin asked
        BY <1>4 DEF IInv, AskedLate, Uploaded
    <2>7. AskedLate'
        BY <1>4, <2>1, <2>6, PollingCall DEF IInv, TypeOK, Uploaded, AskedLate
    <2> QED  BY <2>3, <2>4, <2>5, <2>7 DEF IInv
<1>5. ASSUME StillIngesting(u) PROVE IInv'
    <2>1. TypeOK'
        BY <1>5 DEF IInv, TypeOK, Phase, StillIngesting
    <2>2. BusyIsDriven'
        BY <1>5 DEF IInv, TypeOK, StillIngesting, BusyIsDriven
    <2>3. OnePoller' /\ AskedLate'
        BY <1>5 DEF IInv, TypeOK, StillIngesting, OnePoller, AskedLate
    <2> QED  BY <2>1, <2>2, <2>3 DEF IInv
<1>6. ASSUME FoundReady(u) PROVE IInv'
    <2>1. TypeOK'
        BY <1>6 DEF IInv, TypeOK, FoundReady
    <2>2. BusyIsDriven'
        BY <1>6 DEF IInv, TypeOK, Phase, FoundReady, BusyIsDriven
    <2>3. OnePoller' /\ AskedLate'
        BY <1>6 DEF IInv, TypeOK, FoundReady, OnePoller, AskedLate
    <2> QED  BY <2>1, <2>2, <2>3 DEF IInv
<1>7. ASSUME call[u] = "sleeping", call' = [call EXCEPT ![u] = "polling"],
             UNCHANGED <<phase, xhr, poll, polls, asked>>
      PROVE  IInv'
    <2>1. TypeOK'
        BY <1>7 DEF IInv, TypeOK
    <2>2. BusyIsDriven'
        BY <1>7 DEF IInv, TypeOK, Phase, BusyIsDriven
    <2>3. OnePoller' /\ AskedLate'
        BY <1>7 DEF IInv, TypeOK, OnePoller, AskedLate
    <2> QED  BY <2>1, <2>2, <2>3 DEF IInv
<1>8. ASSUME NEW how \in Ended, NEW at \in {"idle", "error"},
             End(u, how), phase' = Show(at), UNCHANGED asked
      PROVE  IInv'
    <2>1. TypeOK'
        BY <1>8 DEF IInv, TypeOK, Phase, Show, End
    <2>2. BusyIsDriven'
        BY <1>8 DEF Show, BusyIsDriven
    <2>3. OnePoller' /\ AskedLate'
        BY <1>8 DEF IInv, TypeOK, End, OnePoller, AskedLate
    <2> QED  BY <2>1, <2>2, <2>3 DEF IInv
<1>9. ASSUME Refused(u) PROVE IInv'
    <2>1. TypeOK'
        BY <1>9 DEF IInv, TypeOK, End, Refused
    <2>2. BusyIsDriven'
        BY <1>9 DEF IInv, TypeOK, Phase, End, Refused, BusyIsDriven
    <2>3. OnePoller' /\ AskedLate'
        BY <1>9 DEF IInv, TypeOK, End, Refused, OnePoller, AskedLate
    <2> QED  BY <2>1, <2>2, <2>3 DEF IInv
<1>10. ASSUME Awake(u) \/ Refreshed(u) \/ Fails(u) PROVE IInv'
    BY <1>10, <1>7, <1>8 DEF Awake, Refreshed, Fails
<1> QED
    BY <1>1, <1>2, <1>3, <1>4, <1>5, <1>6, <1>9, <1>10 DEF CallStep

\* The cancel button: the document on the screen is not polled by anyone but
\* the call whose controller is aborted.
LEMMA CancelKeeps ==
    ASSUME IInv, CancelSending \/ CancelIngesting
    PROVE  IInv'
<1> USE UploadAssumption
<1>1. ASSUME CancelSending PROVE IInv'
    <2>1. PICK u \in Uploads : /\ u = xhr /\ call[u] = "sending"
                               /\ End(u, "canceled")
                               /\ phase' = Show("canceled")
                               /\ asked' = asked \cup {u}
        BY <1>1 DEF CancelSending
    <2>2. TypeOK'
        BY <2>1 DEF IInv, TypeOK, Phase, Show, End
    <2>3. BusyIsDriven'
        BY <2>1 DEF Show, BusyIsDriven
    <2>4. OnePoller' /\ AskedLate'
        BY <2>1 DEF IInv, TypeOK, End, OnePoller, AskedLate
    <2> QED  BY <2>2, <2>3, <2>4 DEF IInv
<1>2. ASSUME CancelIngesting PROVE IInv'
    <2>1. phase.doc \in Uploads /\ call[phase.doc] \in Pollers \cup {"refreshing", "refused"}
        BY <1>2 DEF IInv, TypeOK, Phase, BusyIsDriven, CancelIngesting
    <2>2. \A u \in Uploads : call'[u] = IF u \in Polling THEN "canceled" ELSE call[u]
        BY <1>2 DEF CancelIngesting
    <2>3. call' \in [Uploads -> {"new"} \cup Working \cup Ended]
        BY <1>2 DEF IInv, TypeOK, CancelIngesting
    <2>4. TypeOK'
        BY <1>2, <2>1, <2>3, PollingCall DEF IInv, TypeOK, Phase, Show, CancelIngesting
    <2>5. BusyIsDriven'
        BY <1>2 DEF Show, CancelIngesting, BusyIsDriven
    <2>6. OnePoller'
        BY <1>2, <2>2, PollingCall DEF CancelIngesting, OnePoller
    <2>7. AskedLate'
        BY <1>2, <2>1, <2>2, PollingCall DEF IInv, TypeOK, CancelIngesting, AskedLate
    <2> QED  BY <2>4, <2>5, <2>6, <2>7 DEF IInv
<1> QED
    BY <1>1, <1>2

\* The inductive invariant holds in every reachable state.
THEOREM Invariance == Spec => []IInv
<1>1. IInv /\ UNCHANGED vars => IInv'
    BY DEF vars, IInv, TypeOK, BusyIsDriven, OnePoller, AskedLate
<1>2. IInv /\ [Next]_vars => IInv'
    BY <1>1, CallStepKeeps, CancelKeeps DEF Next
<1> QED
    BY InitInvariant, <1>2, PTL DEF Spec

\* The hook's state keeps its types (useDocuments.ts:17-24).
THEOREM TypeCorrect == Spec => []TypeOK
<1>1. IInv => TypeOK
    BY DEF IInv
<1> QED
    BY <1>1, Invariance, PTL

\* The screen is never left busy by anything but an answer of 401
\* (useDocuments.ts:121-132).
THEOREM ScreenIsDriven == Spec => []BusyIsDriven
<1>1. IInv => BusyIsDriven
    BY DEF IInv
<1> QED
    BY <1>1, Invariance, PTL

\* At most one call polls, and cancelUpload holds its controller
\* (useDocuments.ts:136-138).
THEOREM PollerIsUnique == Spec => []OnePoller
<1>1. IInv => OnePoller
    BY DEF IInv
<1> QED
    BY <1>1, Invariance, PTL

\* A call that has asked for its document to be canceled neither sends nor
\* polls, then or later (useDocuments.ts:121-125, 183-192).
THEOREM AskedMeansStopped == Spec => []AskedStops
<1>1. IInv => AskedStops
    BY DEF IInv, AskedLate, AskedStops
<1> QED
    BY <1>1, Invariance, PTL

-----------------------------------------------------------------------------
(* The document list *)

HookInv == HookTypeOK /\ OneRefresh

\* The list changes none of the state an upload decides by.
LEMMA HookStepRunsUploads == HookNext => [Next]_vars
<1>1. ASSUME NEW u \in Uploads, HookCall(u) PROVE [Next]_vars
    BY <1>1 DEF HookCall, UploadStep, FoundReadyRefreshing, RefreshReturns,
        Next, CallStep
<1>2. ASSUME NEW u \in Listed, DocumentCreated(u) \/ DocumentSettled(u)
      PROVE  [Next]_vars
    BY <1>2 DEF DocumentCreated, DocumentSettled
<1>3. ASSUME NEW c \in Callers, RequestStep(c) PROVE [Next]_vars
    BY <1>3 DEF RequestStep, ListArrives, ListFails
<1>4. ASSUME Tick \/ UserStep PROVE [Next]_vars
    BY <1>4 DEF Tick, UserStep, Next
<1> QED  BY <1>1, <1>2, <1>3, <1>4 DEF HookNext

\* The hook with its list implements the uploads alone, whose theorems hold of
\* it too (useDocuments.ts:26-132).
THEOREM ListLeavesUploads == HookSpec => Init /\ [][Next]_vars
<1>1. UNCHANGED hookVars => UNCHANGED vars
    BY DEF hookVars
<1>2. [HookNext]_hookVars => [Next]_vars
    BY <1>1, HookStepRunsUploads
<1>3. HookInit => Init
    BY DEF HookInit
<1> QED
    BY <1>2, <1>3, PTL DEF HookSpec

\* The steps that ask for the list, or leave it alone.
LEMMA AskingKeeps ==
    ASSUME HookInv, TypeOK', NEW c \in Callers, RefreshDocuments(c),
           UNCHANGED server
    PROVE  HookInv'
    BY DEF HookInv, HookTypeOK, OneRefresh, RefreshDocuments, listVars

LEMMA HookStepKeeps ==
    ASSUME HookInv, HookNext, TypeOK'
    PROVE  HookInv'
<1>1. ASSUME NEW u \in Uploads, HookCall(u) PROVE HookInv'
    <2>1. CASE UploadStep(u) \/ RefreshReturns(u)
        BY <2>1 DEF HookInv, HookTypeOK, OneRefresh, UploadStep, RefreshReturns,
            listVars
    <2>2. CASE FoundReadyRefreshing(u)
        BY <2>2, AskingKeeps DEF FoundReadyRefreshing, Callers
    <2> QED  BY <1>1, <2>1, <2>2 DEF HookCall
<1>2. ASSUME NEW u \in Listed, DocumentCreated(u) \/ DocumentSettled(u)
      PROVE  HookInv'
    BY <1>2 DEF HookInv, HookTypeOK, OneRefresh, DocumentCreated,
        DocumentSettled, listVars, Shown, States
<1>3. ASSUME NEW c \in Callers, RequestStep(c) PROVE HookInv'
    <2>1. list' \in Shown /\ others' \in BOOLEAN /\ server' = server
        BY <1>3 DEF RequestStep, ListArrives, ListFails, HookInv, HookTypeOK
    <2>2. c \in asking /\ asking' = asking \ {c} /\ refreshing' = FALSE
        BY <1>3 DEF RequestStep, ListArrives, ListFails, RequestEnds
    <2>3. OneRefresh'
        BY <2>2 DEF HookInv, OneRefresh
    <2> QED  BY <2>1, <2>2, <2>3 DEF HookInv, HookTypeOK
<1>4. ASSUME Tick PROVE HookInv'
    BY <1>4, AskingKeeps DEF Tick, Callers
<1>5. ASSUME UserStep PROVE HookInv'
    BY <1>5 DEF HookInv, HookTypeOK, OneRefresh, UserStep, listVars
<1> QED  BY <1>1, <1>2, <1>3, <1>4, <1>5 DEF HookNext

LEMMA HookInvariance == HookSpec => [](IInv /\ HookInv)
<1>1. HookInit => HookInv /\ IInv
    <2>1. HookInit => IInv
        BY InitInvariant DEF HookInit
    <2>2. HookInit => OneRefresh
        BY DEF HookInit, OneRefresh
    <2>3. HookInit => Nothing \in Shown /\ {Effect} \subseteq Callers
        BY DEF Shown, Nothing, States, Callers
    <2> QED  BY <2>1, <2>2, <2>3 DEF HookInit, HookInv, HookTypeOK, IInv
<1>2. IInv /\ [Next]_vars => IInv'
    BY CallStepKeeps, CancelKeeps
    DEF Next, vars, IInv, TypeOK, BusyIsDriven, OnePoller, AskedLate
<1>3. IInv /\ HookInv /\ [HookNext]_hookVars => (IInv /\ HookInv)'
    <2> SUFFICES ASSUME IInv, HookInv, [HookNext]_hookVars
                 PROVE  (IInv /\ HookInv)'
        OBVIOUS
    <2>1. [Next]_vars
        BY HookStepRunsUploads DEF hookVars
    <2>2. IInv' /\ TypeOK'
        BY <2>1, <1>2 DEF IInv
    <2>3. CASE HookNext
        BY <2>2, <2>3, HookStepKeeps
    <2>4. CASE UNCHANGED hookVars
        BY <2>2, <2>4 DEF HookInv, HookTypeOK, OneRefresh, hookVars, listVars
    <2> QED  BY <2>2, <2>3, <2>4
<1> QED
    BY <1>1, <1>3, PTL DEF HookSpec

\* The hook's whole state keeps its types (useDocuments.ts:17-24).
THEOREM HookTypeCorrect == HookSpec => []HookTypeOK
<1>1. HookInv => HookTypeOK
    BY DEF HookInv
<1> QED
    BY <1>1, HookInvariance, PTL

\* refreshingRef is up exactly while one request for the list is under way
\* (useDocuments.ts:32-41).
THEOREM RefreshIsUnique == HookSpec => []OneRefresh
<1>1. HookInv => OneRefresh
    BY DEF HookInv
<1> QED
    BY <1>1, HookInvariance, PTL

\* With the list beside them, overlapping uploads still leave the screen driven,
\* poll one at a time and stop when asked (useDocuments.ts:121-138, 183-192).
THEOREM UploadsSafeBesideList == HookSpec => [](BusyIsDriven /\ OnePoller /\ AskedStops)
<1>1. IInv => BusyIsDriven /\ OnePoller /\ AskedStops
    BY DEF IInv, AskedLate, AskedStops
<1> QED
    BY <1>1, HookInvariance, PTL

-----------------------------------------------------------------------------
(* A call only moves towards its end *)

Started == {"new", "hashing", "requesting", "sending"}

\* A call has not polled before its PUT is over, and polls again only while the
\* ten minutes last.
PollsCounted ==
    \A u \in Uploads : /\ call[u] \in Started => polls[u] = 0
                       /\ call[u] = "polling" => polls[u] < MaxPolls

CountInv == TypeOK /\ PollsCounted

\* What a step may do to a call.
Moves(u) ==
    call'[u] # call[u] =>
        EventsLeft(call'[u], polls'[u]) \in 0..(EventsLeft(call[u], polls[u]) - 1)

\* What a place is worth, as a number.
LEMMA PlaceWorth ==
    ASSUME NEW place \in {"new"} \cup Working \cup Ended, NEW made \in 0..MaxPolls
    PROVE  LET e == EventsLeft(place, made) IN
           /\ MaxPolls \in Nat /\ MaxPolls - made \in Nat /\ e \in Nat
           /\ place = "new" => e = 2 * MaxPolls + 5
           /\ place = "hashing" => e = 2 * MaxPolls + 4
           /\ place = "requesting" => e = 2 * MaxPolls + 3
           /\ place = "sending" => e = 2 * MaxPolls + 2
           /\ place = "sleeping" => e = 2 * (MaxPolls - made) + 2
           /\ place = "polling" => e = 2 * (MaxPolls - made) + 1
           /\ place = "refreshing" => e = 1
           /\ place \in Ended => e = 0
BY UploadAssumption DEF EventsLeft

\* A call that is at work and ends has moved.
LEMMA EndMoves ==
    ASSUME CountInv, NEW u \in Uploads, call[u] \in Working,
           call'[u] \in Ended, polls'[u] = polls[u]
    PROVE  Moves(u)
<1>1. polls[u] \in 0..MaxPolls
    BY DEF CountInv, TypeOK
<1>2. EventsLeft(call'[u], polls'[u]) = 0
    BY <1>1, PlaceWorth
<1>3. EventsLeft(call[u], polls[u]) \in Nat \ {0}
    BY <1>1, PlaceWorth
<1> QED
    BY <1>2, <1>3 DEF Moves

\* A call before its first poll goes on to the next place.
LEMMA StartMoves ==
    ASSUME CountInv, NEW u \in Uploads, polls'[u] = polls[u],
           \/ call[u] = "new" /\ call'[u] = "hashing"
           \/ call[u] = "hashing" /\ call'[u] = "requesting"
           \/ call[u] = "requesting" /\ call'[u] = "sending"
           \/ call[u] = "sending" /\ call'[u] = "polling"
    PROVE  Moves(u)
<1>1. polls[u] = 0 /\ 0 \in 0..MaxPolls
    BY UploadAssumption DEF CountInv, PollsCounted, Started
<1> DEFINE left == EventsLeft(call[u], polls[u])
           next == EventsLeft(call'[u], polls'[u])
<1>2. left \in Nat /\ next \in Nat
    BY <1>1, PlaceWorth
<1>3. next < left
    BY <1>1, PlaceWorth
<1> QED
    BY <1>2, <1>3 DEF Moves

\* A step of a call moves that call and leaves the count right; only the end of a
\* PUT touches another call: it ends the one that polls.
LEMMA CallStepMoves ==
    ASSUME CountInv, TypeOK', NEW u \in Uploads, CallStep(u) \/ UploadFile(u),
           NEW v \in Uploads
    PROVE  /\ Moves(v)
           /\ call'[v] \in Started => polls'[v] = 0
           /\ call'[v] = "polling" => polls'[v] < MaxPolls
<1> USE UploadAssumption DEF CountInv
<1>1. /\ polls \in [Uploads -> 0..MaxPolls] /\ polls[v] \in 0..MaxPolls
      /\ call \in [Uploads -> {"new"} \cup Working \cup Ended]
    BY DEF TypeOK
<1>2. /\ call[v] \in Started => polls[v] = 0
      /\ call[v] = "polling" => polls[v] < MaxPolls
    BY DEF PollsCounted
<1>3. CASE call'[v] = call[v] /\ polls'[v] = polls[v]
    BY <1>2, <1>3 DEF Moves
<1>4. CASE v # u /\ ~Uploaded(u)
    <2>1. call'[v] = call[v] /\ polls'[v] = polls[v]
        BY <1>1, <1>4 DEF CallStep, UploadFile, Hashed, UrlReceived, StillIngesting,
                          FoundReady, Awake, Refreshed, Fails, Refused, End
    <2> QED  BY <2>1, <1>3
<1>5. CASE Uploaded(u) /\ v # u
    <2>1. CASE v \in Polling
        <3>1. call[v] \in Working /\ call'[v] = "canceled" /\ polls'[v] = polls[v]
            BY <1>5, <2>1 DEF Uploaded, Polling
        <3> QED  BY <3>1, EndMoves DEF Started
    <2>2. CASE v \notin Polling
        BY <1>3, <1>5, <2>2 DEF Uploaded
    <2> QED  BY <2>1, <2>2
<1>6. CASE v = u /\ (UploadFile(u) \/ Hashed(u) \/ UrlReceived(u) \/ Uploaded(u))
    <2>1. /\ polls'[v] = polls[v] /\ call[v] \in Started
          /\ \/ call[v] = "new" /\ call'[v] = "hashing"
             \/ call[v] = "hashing" /\ call'[v] = "requesting"
             \/ call[v] = "requesting" /\ call'[v] = "sending"
             \/ call[v] = "sending" /\ call'[v] = "polling"
        BY <1>1, <1>6 DEF UploadFile, Hashed, UrlReceived, Uploaded, Started
    <2> QED  BY <2>1, <1>2, StartMoves
<1>7. CASE v = u /\ StillIngesting(u)
    <2>1. /\ call[v] = "polling" /\ call'[v] = "sleeping"
          /\ polls[v] < MaxPolls /\ polls'[v] = polls[v] + 1
        BY <1>1, <1>2, <1>7 DEF StillIngesting
    <2>2. polls'[v] \in 0..MaxPolls
        BY DEF TypeOK
    <2>3. /\ EventsLeft(call[v], polls[v]) = 2 * (MaxPolls - polls[v]) + 1
          /\ EventsLeft(call'[v], polls'[v]) = 2 * (MaxPolls - polls'[v]) + 2
        BY <1>1, <2>1, <2>2, PlaceWorth
    <2>4. Moves(v)
        BY <1>1, <2>1, <2>3 DEF Moves
    <2> QED  BY <2>1, <2>4 DEF Started
<1>8. CASE v = u /\ FoundReady(u)
    <2>1. call[v] = "polling" /\ call'[v] = "refreshing" /\ polls'[v] = polls[v]
        BY <1>1, <1>8 DEF FoundReady
    <2>2. /\ EventsLeft(call[v], polls[v]) = 2 * (MaxPolls - polls[v]) + 1
          /\ EventsLeft(call'[v], polls'[v]) = 1
        BY <1>1, <2>1, PlaceWorth
    <2>3. Moves(v)
        BY <1>1, <1>2, <2>1, <2>2 DEF Moves
    <2> QED  BY <2>1, <2>3 DEF Started
<1>9. CASE v = u /\ Awake(u)
    <2>1. CASE polls[u] < MaxPolls
        <3>1. call[v] = "sleeping" /\ call'[v] = "polling" /\ polls'[v] = polls[v]
            BY <1>1, <1>9, <2>1 DEF Awake
        <3>2. /\ EventsLeft(call[v], polls[v]) = 2 * (MaxPolls - polls[v]) + 2
              /\ EventsLeft(call'[v], polls'[v]) = 2 * (MaxPolls - polls[v]) + 1
            BY <1>1, <3>1, PlaceWorth
        <3>3. Moves(v)
            BY <1>1, <3>2 DEF Moves
        <3> QED  BY <1>9, <2>1, <3>1, <3>3 DEF Started
    <2>2. CASE ~(polls[u] < MaxPolls)
        <3>1. call[v] = "sleeping" /\ call'[v] = "failed" /\ polls'[v] = polls[v]
            BY <1>1, <1>9, <2>2 DEF Awake, End
        <3> QED  BY <3>1, EndMoves DEF Started
    <2> QED  BY <2>1, <2>2
<1>10. CASE v = u /\ (Refreshed(u) \/ Fails(u) \/ Refused(u))
    <2>1. call[v] \in Working /\ call'[v] \in Ended /\ polls'[v] = polls[v]
        BY <1>1, <1>10 DEF Refreshed, Fails, Refused, End
    <2> QED  BY <2>1, EndMoves DEF Started
<1> QED
    BY <1>4, <1>5, <1>6, <1>7, <1>8, <1>9, <1>10 DEF CallStep

\* A cancel ends calls, and moves no other.
LEMMA CancelMoves ==
    ASSUME CountInv, CancelSending \/ CancelIngesting, NEW v \in Uploads
    PROVE  /\ Moves(v)
           /\ call'[v] \in Started => polls'[v] = 0
           /\ call'[v] = "polling" => polls'[v] < MaxPolls
<1>1. call \in [Uploads -> {"new"} \cup Working \cup Ended]
    BY DEF CountInv, TypeOK
<1>2. /\ polls'[v] = polls[v]
      /\ \/ call'[v] = call[v]
         \/ call[v] \in Working /\ call'[v] \in Ended
    BY <1>1 DEF CancelSending, CancelIngesting, End, Polling
<1>3. CASE call'[v] = call[v]
    BY <1>2, <1>3 DEF CountInv, PollsCounted, Moves
<1>4. CASE call[v] \in Working /\ call'[v] \in Ended
    BY <1>2, <1>4, EndMoves DEF Started
<1> QED
    BY <1>2, <1>3, <1>4

\* Every step moves calls towards their ends and counts their polls.
LEMMA StepMoves ==
    ASSUME CountInv, TypeOK', [Next]_vars, NEW v \in Uploads
    PROVE  /\ Moves(v)
           /\ call'[v] \in Started => polls'[v] = 0
           /\ call'[v] = "polling" => polls'[v] < MaxPolls
<1>1. CASE UNCHANGED vars
    BY <1>1 DEF vars, CountInv, PollsCounted, Moves
<1>2. CASE Next
    BY <1>2, CallStepMoves, CancelMoves DEF Next
<1> QED
    BY <1>1, <1>2

\* Whatever is answered, aborted or started beside it, with the document list too,
\* a call only moves towards its end: it polls at most MaxPolls times and is over
\* for good after 2 * MaxPolls + 5 events at most (useDocuments.ts:61-181).
THEOREM CallsAreBounded == HookSpec => CallsAdvance
<1>1. IInv /\ HookInv => TypeOK
    BY DEF IInv
<1>2. Init => PollsCounted
    BY UploadAssumption DEF Init, PollsCounted, Started
<1>3. TypeOK /\ TypeOK' /\ PollsCounted /\ [Next]_vars => PollsCounted'
    BY StepMoves DEF CountInv, PollsCounted
<1>4. TypeOK /\ TypeOK' /\ PollsCounted /\ [Next]_vars =>
          [\A u \in Uploads : Moves(u)]_vars
    BY StepMoves DEF CountInv
<1> QED
    BY <1>1, <1>2, <1>3, <1>4, ListLeavesUploads, HookInvariance, PTL
    DEF CallsAdvance, Moves
=============================================================================
