-------------------------- MODULE DocumentLifecycle --------------------------
(***************************************************************************)
(* What the ingestion service promises about one owner's documents, without *)
(* workers, deliveries, retries or cached reads: a document is created      *)
(* once, claimed at most once, its chunk rows are appended in index order   *)
(* by whoever holds that single claim, it is published at most once and     *)
(* only when every chunk row is there, and after publication its rows never *)
(* change.  Ingestion.tla shows that the worker and the API implement this. *)
(***************************************************************************)
EXTENDS Integers

CONSTANTS
    Docs,
    MaxChunks   \* most chunk rows a document can have

VARIABLES
    status,     \* status attribute of each DOCUMENT item, "absent" before it exists
    stored,     \* indexes of the CHUNK rows of each document
    claimed,    \* documents whose single claim has been taken
    published   \* documents that have been marked ready, at any time

vars == <<status, stored, claimed, published>>

Statuses == {"absent", "pending", "processing", "ready", "failed"}

Init ==
    /\ status = [d \in Docs |-> "absent"]
    /\ stored = [d \in Docs |-> {}]
    /\ claimed = {}
    /\ published = {}

Create(d) ==
    /\ status[d] = "absent"
    /\ status' = [status EXCEPT ![d] = "pending"]
    /\ UNCHANGED <<stored, claimed, published>>

Claim(d) ==
    /\ status[d] = "pending"
    /\ d \notin claimed
    /\ status' = [status EXCEPT ![d] = "processing"]
    /\ claimed' = claimed \cup {d}
    /\ UNCHANGED <<stored, published>>

\* Rows are appended: the next row is the first index not stored yet.
Append(d) ==
    /\ d \in claimed \ published
    /\ \E i \in 0..(MaxChunks - 1) : /\ stored[d] = 0..(i - 1)
                                     /\ stored' = [stored EXCEPT ![d] = 0..i]
    /\ UNCHANGED <<status, claimed, published>>

\* The rows are exactly 0..n-1 when the document becomes ready for the first
\* and only time.  A document canceled in the meantime is published too: the
\* promise does not exclude it (see CanceledIsNeverReady in Ingestion.tla).
Publish(d) ==
    /\ d \in claimed \ published
    /\ \E n \in 0..MaxChunks : stored[d] = 0..(n - 1)
    /\ status' = [status EXCEPT ![d] = "ready"]
    /\ published' = published \cup {d}
    /\ UNCHANGED <<stored, claimed>>

Fail(d) ==
    /\ status[d] # "absent"
    /\ status' = [status EXCEPT ![d] = "failed"]
    /\ UNCHANGED <<stored, claimed, published>>

Next == \E d \in Docs : Create(d) \/ Claim(d) \/ Append(d) \/ Publish(d) \/ Fail(d)

Spec == Init /\ [][Next]_vars
=============================================================================
