----------------------------- MODULE WorkQueue ------------------------------
(***************************************************************************)
(* The deduplicating work queue of client-go, as the operator uses it      *)
(* (vendor/k8s.io/client-go/util/workqueue/queue.go).  Every method runs    *)
(* under the queue's lock, so each is one function from the queue to the   *)
(* queue.                                                                  *)
(***************************************************************************)
EXTENDS Naturals, Sequences

\* The states of a queue of the items K.
QueueOf(K) ==
    [queue : Seq(K), dirty : SUBSET K, processing : SUBSET K, shuttingDown : BOOLEAN]

NewQueue == [queue |-> <<>>, dirty |-> {}, processing |-> {}, shuttingDown |-> FALSE]

\* A mutant: an item that is being processed is not marked for another round.
AddUnlessProcessing(q, k) ==
    IF q.shuttingDown \/ k \in q.dirty \/ k \in q.processing THEN q
    ELSE [q EXCEPT !.dirty = @ \cup {k}, !.queue = Append(@, k)]

\* A mutant: an item that is being processed is handed out a second time.
AddWhileProcessing(q, k) ==
    IF q.shuttingDown \/ k \in q.dirty THEN q
    ELSE [q EXCEPT !.dirty = @ \cup {k}, !.queue = Append(@, k)]

Add(q, k) ==
    IF q.shuttingDown \/ k \in q.dirty THEN q
    ELSE [q EXCEPT !.dirty = @ \cup {k},
                   !.queue = IF k \in q.processing THEN @ ELSE Append(@, k)]

\* Get blocks while the queue is empty: the caller is enabled only when it is not.
Get(q) ==
    [q EXCEPT !.queue = Tail(@),
              !.processing = @ \cup {Head(q.queue)},
              !.dirty = @ \ {Head(q.queue)}]

\* A mutant: what was marked during the processing is not handed out again.
DoneWithoutRequeue(q, k) == [q EXCEPT !.processing = @ \ {k}]

Done(q, k) ==
    [q EXCEPT !.processing = @ \ {k},
              !.queue = IF k \in q.dirty THEN Append(@, k) ELSE @]

ShutDown(q) == [q EXCEPT !.shuttingDown = TRUE]

-----------------------------------------------------------------------------
\* The bookkeeping the comments on the queue's fields promise: an item waits in
\* the queue exactly when it is dirty and nobody is processing it, and only once.
WellFormed(q) ==
    /\ {q.queue[i] : i \in DOMAIN q.queue} = q.dirty \ q.processing
    /\ \A i, j \in DOMAIN q.queue : q.queue[i] = q.queue[j] => i = j
=============================================================================
