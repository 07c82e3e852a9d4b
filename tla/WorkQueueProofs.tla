-------------------------- MODULE WorkQueueProofs ---------------------------
(***************************************************************************)
(* The work queue keeps its rules, for any set of items and in any order   *)
(* of calls.                                                               *)
(***************************************************************************)
EXTENDS WorkQueue, TLAPS

\* Add keeps the queue's type and its rules (queue.go, Add).
LEMMA AddKeepsQueue ==
    ASSUME NEW K, NEW q \in QueueOf(K), NEW k \in K
    PROVE  /\ Add(q, k) \in QueueOf(K)
           /\ WellFormed(q) => WellFormed(Add(q, k))
<1>1. CASE q.shuttingDown \/ k \in q.dirty
  BY <1>1 DEF Add
<1>2. CASE ~(q.shuttingDown \/ k \in q.dirty) /\ k \in q.processing
  <2>1. Add(q, k) = [q EXCEPT !.dirty = @ \cup {k}]
    BY <1>2 DEF Add, QueueOf
  <2> QED
    BY <1>2, <2>1 DEF QueueOf, WellFormed
<1>3. CASE ~(q.shuttingDown \/ k \in q.dirty) /\ k \notin q.processing
  <2>1. Add(q, k) = [q EXCEPT !.dirty = @ \cup {k}, !.queue = Append(@, k)]
    BY <1>3 DEF Add, QueueOf
  <2>0. Append(q.queue, k) \in Seq(K) /\ q.dirty \cup {k} \in SUBSET K
    BY DEF QueueOf
  <2>2. Add(q, k) \in QueueOf(K)
    BY <2>0, <2>1 DEF QueueOf
  <2>3. ASSUME WellFormed(q) PROVE WellFormed(Add(q, k))
    <3> DEFINE n == Len(q.queue)
    <3>1. /\ q.queue \in Seq(K) /\ n \in Nat /\ DOMAIN q.queue = 1 .. n
          /\ Add(q, k).queue = Append(q.queue, k)
          /\ Add(q, k).dirty = q.dirty \cup {k}
          /\ Add(q, k).processing = q.processing
      BY <2>1 DEF QueueOf
    <3>2. DOMAIN Append(q.queue, k) = 1 .. n + 1
      BY <3>1
    <3>3. /\ \A i \in 1 .. n : Append(q.queue, k)[i] = q.queue[i]
          /\ Append(q.queue, k)[n + 1] = k
      BY <3>1
    <3>4. \A i \in 1 .. n : q.queue[i] \in q.dirty \ q.processing
      BY <2>3, <3>1 DEF WellFormed
    <3>5. \A i \in 1 .. n : q.queue[i] # k
      BY <3>4, <1>3
    <3>6. 1 .. n + 1 = (1 .. n) \cup {n + 1}
      BY <3>1
    <3>7. {Append(q.queue, k)[i] : i \in 1 .. n + 1} = {q.queue[i] : i \in 1 .. n} \cup {k}
      <4> HIDE DEF n
      <4> QED BY <3>3, <3>6
    <3>8. {q.queue[i] : i \in 1 .. n} = q.dirty \ q.processing
      BY <2>3, <3>1 DEF WellFormed
    <3>9. (q.dirty \ q.processing) \cup {k} = (q.dirty \cup {k}) \ q.processing
      BY <1>3
    <3>10. ASSUME NEW i \in 1 .. n + 1, NEW j \in 1 .. n + 1,
                  Append(q.queue, k)[i] = Append(q.queue, k)[j]
           PROVE  i = j
      <4>1. \A a, b \in 1 .. n : q.queue[a] = q.queue[b] => a = b
        BY <2>3, <3>1 DEF WellFormed
      <4> HIDE DEF n
      <4> QED BY <3>3, <3>5, <3>6, <3>10, <4>1
    <3> HIDE DEF n
    <3> QED BY <3>1, <3>2, <3>7, <3>8, <3>9, <3>10 DEF WellFormed
  <2> QED BY <2>2, <2>3
<1> QED BY <1>1, <1>2, <1>3

\* Get hands out an item that nobody is processing, and keeps the queue's type
\* and its rules (queue.go, Get).
LEMMA GetKeepsQueue ==
    ASSUME NEW K, NEW q \in QueueOf(K), q.queue # <<>>
    PROVE  /\ Get(q) \in QueueOf(K)
           /\ WellFormed(q) => WellFormed(Get(q)) /\ Head(q.queue) \notin q.processing
<1> DEFINE n == Len(q.queue)
<1>1. /\ q.queue \in Seq(K) /\ n \in Nat /\ n > 0 /\ DOMAIN q.queue = 1 .. n
      /\ Head(q.queue) = q.queue[1] /\ Head(q.queue) \in K
      /\ Tail(q.queue) \in Seq(K) /\ DOMAIN Tail(q.queue) = 1 .. n - 1
      /\ \A i \in 1 .. n - 1 : Tail(q.queue)[i] = q.queue[i + 1]
  BY DEF QueueOf
<1>2. /\ Get(q) \in QueueOf(K)
      /\ Get(q).queue = Tail(q.queue)
      /\ Get(q).processing = q.processing \cup {q.queue[1]}
      /\ Get(q).dirty = q.dirty \ {q.queue[1]}
  BY <1>1 DEF Get, QueueOf
<1>3. ASSUME WellFormed(q) PROVE WellFormed(Get(q)) /\ Head(q.queue) \notin q.processing
  <2> HIDE DEF n
  <2>1. \A i, j \in 1 .. n : q.queue[i] = q.queue[j] => i = j
    BY <1>1, <1>3 DEF WellFormed
  <2>2. {q.queue[i] : i \in 1 .. n} = q.dirty \ q.processing
    BY <1>1, <1>3 DEF WellFormed
  <2>3. \A i, j \in 1 .. n - 1 : Tail(q.queue)[i] = Tail(q.queue)[j] => i = j
    BY <1>1, <2>1
  <2>4. {Tail(q.queue)[i] : i \in 1 .. n - 1} = {q.queue[i] : i \in 2 .. n}
    <3>1. ASSUME NEW i \in 2 .. n
          PROVE  \E j \in 1 .. n - 1 : q.queue[i] = Tail(q.queue)[j]
      <4>1. i - 1 \in 1 .. n - 1 /\ (i - 1) + 1 = i
        BY <1>1
      <4> QED BY <1>1, <4>1
    <3>2. ASSUME NEW i \in 1 .. n - 1
          PROVE  \E j \in 2 .. n : Tail(q.queue)[i] = q.queue[j]
      <4>1. i + 1 \in 2 .. n
        BY <1>1
      <4> QED BY <1>1, <4>1
    <3>3. {Tail(q.queue)[i] : i \in 1 .. n - 1} \subseteq {q.queue[i] : i \in 2 .. n}
      BY <3>2, Zenon
    <3>4. {q.queue[i] : i \in 2 .. n} \subseteq {Tail(q.queue)[i] : i \in 1 .. n - 1}
      BY <3>1, Zenon
    <3> QED BY <3>3, <3>4, Zenon
  <2>5. 1 .. n = {1} \cup (2 .. n) /\ 1 \notin 2 .. n
    BY <1>1
  <2>6. \A i \in 2 .. n : q.queue[i] # q.queue[1]
    BY <2>1, <2>5
  <2>7. {q.queue[i] : i \in 2 .. n} = {q.queue[i] : i \in 1 .. n} \ {q.queue[1]}
    BY <2>5, <2>6
  <2>8. q.queue[1] \in q.dirty \ q.processing
    BY <2>2, <2>5
  <2>9. (q.dirty \ q.processing) \ {q.queue[1]}
           = (q.dirty \ {q.queue[1]}) \ (q.processing \cup {q.queue[1]})
    OBVIOUS
  <2>10. {Get(q).queue[i] : i \in DOMAIN Get(q).queue} = Get(q).dirty \ Get(q).processing
    <3>1. {Get(q).queue[i] : i \in DOMAIN Get(q).queue} = {Tail(q.queue)[i] : i \in 1 .. n - 1}
      BY <1>1, <1>2, Zenon
    <3> QED BY <1>2, <2>2, <2>4, <2>7, <2>9, <3>1, Zenon
  <2>11. \A i, j \in DOMAIN Get(q).queue : Get(q).queue[i] = Get(q).queue[j] => i = j
    BY <1>1, <1>2, <2>3, Zenon
  <2> QED BY <1>1, <2>8, <2>10, <2>11 DEF WellFormed
<1> QED BY <1>2, <1>3

\* Done keeps the queue's type and its rules (queue.go, Done), provided that
\* the item is being processed.
LEMMA DoneKeepsQueue ==
    ASSUME NEW K, NEW q \in QueueOf(K), NEW k \in q.processing
    PROVE  /\ Done(q, k) \in QueueOf(K)
           /\ WellFormed(q) => WellFormed(Done(q, k))
<1>0. k \in K
  BY DEF QueueOf
<1>1. CASE k \notin q.dirty
  <2>1. Done(q, k) = [q EXCEPT !.processing = @ \ {k}]
    BY <1>1 DEF Done, QueueOf
  <2>2. q.dirty \ q.processing = q.dirty \ (q.processing \ {k})
    BY <1>1
  <2> QED BY <2>1, <2>2 DEF QueueOf, WellFormed
<1>2. CASE k \in q.dirty
  \* The step is the one of Add on the queue that has forgotten k.
  <2> DEFINE r == [q EXCEPT !.processing = @ \ {k}, !.dirty = @ \ {k}, !.shuttingDown = FALSE]
             a == Add(r, k)
  <2>1. r \in QueueOf(K) /\ k \notin r.dirty /\ k \notin r.processing /\ ~r.shuttingDown
    BY DEF QueueOf
  <2>2. /\ a.queue = Append(q.queue, k)
        /\ a.dirty = (q.dirty \ {k}) \cup {k}
        /\ a.processing = q.processing \ {k}
    BY <2>1 DEF Add, QueueOf
  <2>3. /\ Done(q, k) \in QueueOf(K)
        /\ Done(q, k).queue = Append(q.queue, k)
        /\ Done(q, k).dirty = q.dirty
        /\ Done(q, k).processing = q.processing \ {k}
    <3>1. Append(q.queue, k) \in Seq(K) /\ q.processing \ {k} \in SUBSET K
      BY <1>0 DEF QueueOf
    <3>2. Done(q, k) = [q EXCEPT !.processing = q.processing \ {k}, !.queue = Append(q.queue, k)]
      BY <1>2 DEF Done, QueueOf
    <3> QED BY <3>1, <3>2 DEF QueueOf
  <2>4. ASSUME WellFormed(q) PROVE WellFormed(Done(q, k))
    <3>1. q.dirty \ q.processing = (q.dirty \ {k}) \ (q.processing \ {k})
      OBVIOUS
    <3>2. WellFormed(r)
      BY <2>4, <3>1 DEF WellFormed, QueueOf
    <3>3. WellFormed(a)
      <4> HIDE DEF r
      <4> QED BY <1>0, <2>1, <3>2, AddKeepsQueue
    <3>4. (q.dirty \ {k}) \cup {k} = q.dirty
      BY <1>2
    <3> HIDE DEF a
    <3> QED BY <2>2, <2>3, <3>3, <3>4 DEF WellFormed
  <2> QED BY <2>3, <2>4
<1> QED BY <1>1, <1>2

\* ShutDown keeps the queue's type and its rules (queue.go, ShutDown).
LEMMA ShutDownKeepsQueue ==
    ASSUME NEW K, NEW q \in QueueOf(K)
    PROVE  /\ ShutDown(q) \in QueueOf(K)
           /\ WellFormed(q) => WellFormed(ShutDown(q))
BY DEF ShutDown, QueueOf, WellFormed

\* The new queue has the type and keeps the rules.
LEMMA NewQueueIsQueue ==
    ASSUME NEW K
    PROVE  NewQueue \in QueueOf(K) /\ WellFormed(NewQueue)
BY DEF NewQueue, QueueOf, WellFormed
=============================================================================
