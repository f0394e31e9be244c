--------------------------- MODULE SwitcherProofs ---------------------------
(***************************************************************************)
(* No wake is lost, for any number of tasks and of buckets.                *)
(*                                                                         *)
(* The argument: a signal of a bucket wakes the first sleeper, so a waiter *)
(* is woken whenever one sleeps.  That needs the futex queues to hold      *)
(* exactly the sleepers (QueueExact), the counters not to make             *)
(* switcher_wake(ANY_TASK) skip a bucket with waiters (CounterExact), and  *)
(* the mark and the filters not to change while a task is on its way       *)
(* (OneRunner).                                                            *)
(***************************************************************************)
EXTENDS Switcher, TLAPS, FiniteSetTheorems, SequenceTheorems

\* The inductive invariant.
Inv == TypeOK /\ QueueExact /\ CounterExact /\ OneRunner /\ NoLostWakeup

USE BucketsAssumption, AbortAssumption, MainAssumption, MarkAssumption

-----------------------------------------------------------------------------
(* Sequences that list a set *)

\* A thread that was not in the queue enters it at the end (futex_wait).
LEMMA ListsAppend ==
    ASSUME NEW S, NEW q \in Seq(S), NEW x, x \notin S, Lists(q, S)
    PROVE  Append(q, x) \in Seq(S \cup {x}) /\ Lists(Append(q, x), S \cup {x})
<1> DEFINE r == Append(q, x)
           n == Len(q)
<1>1. /\ n \in Nat
      /\ r \in Seq(S \cup {x})
      /\ Len(r) = n + 1
      /\ \A i \in 1..n : r[i] = q[i] /\ q[i] \in S
      /\ r[n + 1] = x
      /\ \A i \in 1..(n + 1) : i \in 1..n \/ i = n + 1
  OBVIOUS
<1>0. /\ \A i, j \in 1..n : q[i] = q[j] => i = j
      /\ \A y \in S : \E i \in 1..n : q[i] = y
      /\ \A i \in 1..n : i \in 1..(n + 1)
      /\ n + 1 \in 1..(n + 1)
  BY <1>1 DEF Lists
<1> HIDE DEF r, n
<1>2. \A i \in 1..(n + 1) : r[i] \in S \cup {x}
  BY <1>1
<1>3. ASSUME NEW i \in 1..(n + 1), NEW j \in 1..(n + 1), r[i] = r[j] PROVE i = j
  BY <1>0, <1>1, <1>3
<1>4. \A y \in S \cup {x} : \E i \in 1..(n + 1) : r[i] = y
  BY <1>0, <1>1
<1>5. Lists(r, S \cup {x})
  BY <1>1, <1>2, <1>3, <1>4 DEF Lists
<1> QED
  BY <1>1, <1>5 DEF r

\* The sequence r is q without its k-th element.
LEMMA ListsWithout ==
    ASSUME NEW S, NEW q \in Seq(S), NEW k \in 1..Len(q), Lists(q, S), NEW r \in Seq(S),
           Len(r) = Len(q) - 1,
           \A i \in 1..Len(r) : r[i] = IF i < k THEN q[i] ELSE q[i + 1]
    PROVE  Lists(r, S \ {q[k]})
<1> DEFINE n == Len(r)
           at(i) == IF i < k THEN i ELSE i + 1
           of(j) == IF j < k THEN j ELSE j - 1
<1>1. /\ n \in Nat /\ Len(q) = n + 1 /\ k \in 1..(n + 1)
      /\ \A i \in 1..n : r[i] = q[at(i)]
  OBVIOUS
<1>2. /\ \A i \in 1..(n + 1) : q[i] \in S
      /\ \A i, j \in 1..(n + 1) : q[i] = q[j] => i = j
      /\ \A y \in S : \E i \in 1..(n + 1) : q[i] = y
  BY <1>1 DEF Lists
<1> HIDE DEF n
<1>3. /\ \A i \in 1..n : at(i) \in 1..(n + 1) /\ at(i) # k
      /\ \A i, j \in 1..n : at(i) = at(j) => i = j
      /\ \A j \in 1..(n + 1) : j # k => of(j) \in 1..n /\ at(of(j)) = j
  BY <1>1
<1> HIDE DEF at, of
<1>4. \A i \in 1..n : r[i] \in S \ {q[k]}
  BY <1>1, <1>2, <1>3
<1>5. ASSUME NEW i \in 1..n, NEW j \in 1..n, r[i] = r[j] PROVE i = j
  BY <1>1, <1>2, <1>3, <1>5
<1>6. ASSUME NEW y \in S \ {q[k]} PROVE \E i \in 1..n : r[i] = y
  <2>1. PICK j \in 1..(n + 1) : q[j] = y
    BY <1>2
  <2> QED
    BY <1>1, <1>3, <2>1
<1> QED
  BY <1>4, <1>5, <1>6 DEF Lists, n

\* A wake takes the first thread of a queue that is not empty out of it (futex_wake).
LEMMA ListsTail ==
    ASSUME NEW S, NEW q \in Seq(S), q # <<>>, Lists(q, S)
    PROVE  /\ Head(q) \in S
           /\ Tail(q) \in Seq(S)
           /\ Lists(Tail(q), S \ {Head(q)})
<1>1. /\ Tail(q) \in Seq(S) /\ Len(Tail(q)) = Len(q) - 1
      /\ 1 \in 1..Len(q) /\ Head(q) = q[1]
      /\ \A i \in 1..Len(Tail(q)) : Tail(q)[i] = IF i < 1 THEN q[i] ELSE q[i + 1]
  OBVIOUS
<1>2. Lists(Tail(q), S \ {q[1]})
  BY <1>1, ListsWithout
<1>3. q[1] \in S
  BY <1>1 DEF Lists
<1> QED
  BY <1>1, <1>2, <1>3

\* A spurious wake takes a thread out of the middle.
LEMMA ListsRemoveAt ==
    ASSUME NEW S, NEW q \in Seq(S), NEW k \in 1..Len(q), Lists(q, S)
    PROVE  RemoveAt(q, k) \in Seq(S) /\ Lists(RemoveAt(q, k), S \ {q[k]})
<1> DEFINE a == SubSeq(q, 1, k - 1)
           b == SubSeq(q, k + 1, Len(q))
<1>0. \A i \in 1..Len(q) : q[i] \in S
  OBVIOUS
<1>1. /\ a \in Seq(S) /\ Len(a) = k - 1
      /\ \A i \in 1..(k - 1) : a[i] = q[i]
  BY <1>0, SubSeqProperties, SMTT(30)
<1>2. /\ b \in Seq(S) /\ Len(b) = Len(q) - k
      /\ \A i \in 1..(Len(q) - k) : b[i] = q[k + i]
  BY <1>0, SubSeqProperties, SMTT(30)
<1> HIDE DEF a, b
<1>3. /\ a \o b \in Seq(S) /\ Len(a \o b) = Len(q) - 1
      /\ \A i \in 1..Len(a \o b) : (a \o b)[i] = IF i < k THEN q[i] ELSE q[i + 1]
  <2> DEFINE n == Len(q)
  <2>1. /\ a \o b \in Seq(S)
        /\ Len(a \o b) = Len(a) + Len(b)
        /\ \A i \in 1..(Len(a) + Len(b)) :
              (a \o b)[i] = IF i <= Len(a) THEN a[i] ELSE b[i - Len(a)]
    BY <1>1, <1>2, ConcatProperties
  <2>2. n \in Nat /\ k \in 1..n /\ Len(a) = k - 1 /\ Len(b) = n - k
    BY <1>1, <1>2
  <2> HIDE DEF n
  <2>3. Len(a \o b) = n - 1
    BY <2>1, <2>2
  <2>4. ASSUME NEW i \in 1..(n - 1)
        PROVE  (a \o b)[i] = IF i < k THEN q[i] ELSE q[i + 1]
    <3>1. (a \o b)[i] = IF i <= k - 1 THEN a[i] ELSE b[i - (k - 1)]
      BY <2>1, <2>2
    <3>2. CASE i < k
      BY <3>1, <3>2, <2>2, <1>1
    <3>3. CASE ~(i < k)
      <4>1. i - (k - 1) \in 1..(n - k) /\ k + (i - (k - 1)) = i + 1
        BY <3>3, <2>2
      <4> QED
        BY <4>1, <3>1, <3>3, <2>2, <1>2 DEF n
    <3> QED
      BY <3>2, <3>3
  <2> QED
    BY <2>1, <2>3, <2>4 DEF n
<1>4. Lists(a \o b, S \ {q[k]})
  BY <1>3, ListsWithout
<1> QED
  BY <1>3, <1>4 DEF RemoveAt, a, b

-----------------------------------------------------------------------------
(* Buckets and counters *)

\* The index of a bucket is in the bounds of the arrays cnd and cnd_counter.
LEMMA BucketType == \A t \in Task : Bucket(t) \in Buckets
BY DEF Bucket, Buckets

\* The tasks of bucket b that cnd_counter counts, and those that sleep in it.
Waiters(b) == {t \in Task : Bucket(t) = b /\ pc[t] \in Counted}
Sleepers(b) == {t \in Task : Bucket(t) = b /\ pc[t] = "parked"}

\* A counter is positive when some task of its bucket waits.
LEMMA CounterPositive ==
    ASSUME TypeOK, CounterExact, NEW t \in Task, pc[t] \in Counted
    PROVE  counter[Bucket(t)] > 0
<1>1. Bucket(t) \in Buckets
  BY BucketType
<1>2. counter[Bucket(t)] = Cardinality(Waiters(Bucket(t)))
  BY <1>1 DEF CounterExact, Waiters
<1>3. IsFiniteSet(Waiters(Bucket(t))) /\ t \in Waiters(Bucket(t))
  BY FS_Subset DEF Waiters
<1>4. Cardinality(Waiters(Bucket(t))) \in Nat /\ Cardinality(Waiters(Bucket(t))) # 0
  BY <1>3, FS_CardinalityType, FS_EmptySet
<1> QED
  BY <1>2, <1>4

\* The increment and the decrement of switcher_yield keep the counters exact when t is
\* the only task that starts or stops to wait.
LEMMA CounterStep ==
    ASSUME TypeOK, TypeOK', CounterExact, NEW t \in Task,
           \A u \in Task \ {t} : pc'[u] \in Counted <=> pc[u] \in Counted,
           \/ /\ pc[t] \in Counted <=> pc'[t] \in Counted
              /\ counter' = counter
           \/ /\ pc[t] \notin Counted /\ pc'[t] \in Counted
              /\ counter' = [counter EXCEPT ![Bucket(t)] = @ + 1]
           \/ /\ pc[t] \in Counted /\ pc'[t] \notin Counted
              /\ counter' = [counter EXCEPT ![Bucket(t)] = @ - 1]
    PROVE  CounterExact'
<1> SUFFICES ASSUME NEW b \in Buckets
             PROVE  counter'[b] = Cardinality(Waiters(b)')
  BY DEF CounterExact, Waiters
<1>1. counter[b] = Cardinality(Waiters(b)) /\ counter[b] \in Nat
  BY DEF CounterExact, Waiters, TypeOK
<1>2. IsFiniteSet(Waiters(b))
  BY FS_Subset DEF Waiters
<1>3. CASE b # Bucket(t)
  <2>1. Waiters(b)' = Waiters(b)
    BY <1>3 DEF Waiters
  <2>2. counter'[b] = counter[b]
    BY <1>3 DEF TypeOK
  <2> QED
    BY <2>1, <2>2, <1>1
<1>4. CASE b = Bucket(t)
  <2>1. CASE (pc[t] \in Counted <=> pc'[t] \in Counted) /\ counter' = counter
    <3>1. Waiters(b)' = Waiters(b)
      BY <2>1 DEF Waiters
    <3> QED
      BY <2>1, <3>1, <1>1
  <2>2. CASE /\ pc[t] \notin Counted /\ pc'[t] \in Counted
             /\ counter' = [counter EXCEPT ![Bucket(t)] = @ + 1]
    <3>1. Waiters(b)' = Waiters(b) \cup {t} /\ t \notin Waiters(b)
      BY <2>2, <1>4 DEF Waiters
    <3>2. Cardinality(Waiters(b)') = Cardinality(Waiters(b)) + 1
      BY <3>1, <1>2, FS_AddElement
    <3> QED
      BY <2>2, <3>2, <1>1, <1>4 DEF TypeOK
  <2>3. CASE /\ pc[t] \in Counted /\ pc'[t] \notin Counted
             /\ counter' = [counter EXCEPT ![Bucket(t)] = @ - 1]
    <3>1. Waiters(b)' = Waiters(b) \ {t} /\ t \in Waiters(b)
      BY <2>3, <1>4 DEF Waiters
    <3>2. Cardinality(Waiters(b)') = Cardinality(Waiters(b)) - 1
      BY <3>1, <1>2, FS_RemoveElement
    <3> QED
      BY <2>3, <3>2, <1>1, <1>4 DEF TypeOK
  <2> QED
    BY <2>1, <2>2, <2>3
<1> QED
  BY <1>3, <1>4

-----------------------------------------------------------------------------
(* The futex queues *)

\* A queue is a sequence of the sleepers of its bucket.
LEMMA QueueType ==
    ASSUME TypeOK, QueueExact, NEW b \in Buckets
    PROVE  queue[b] \in Seq(Sleepers(b)) /\ Lists(queue[b], Sleepers(b))
<1>1. Lists(queue[b], Sleepers(b)) /\ queue[b] \in Seq(Task)
  BY DEF QueueExact, Sleepers, TypeOK
<1>2. \A i \in 1..Len(queue[b]) : queue[b][i] \in Sleepers(b)
  BY <1>1 DEF Lists
<1>3. queue[b] \in [1..Len(queue[b]) -> Task] /\ Len(queue[b]) \in Nat
  BY <1>1
<1>4. queue[b] \in [1..Len(queue[b]) -> Sleepers(b)]
  BY <1>2, <1>3
<1> QED
  BY <1>1, <1>3, <1>4, SeqDef

\* A signal of the buckets B by a task t that is not asleep: it wakes the first sleeper
\* of each of them, so that none of them keeps a sleeper without an awake companion.
LEMMA SignalStep ==
    ASSUME TypeOK, QueueExact, NEW t \in Task, pc[t] # "parked",
           NEW B \in SUBSET Buckets, NEW p \in PC, p # "parked",
           pc' = [Signalled(pc, B) EXCEPT ![t] = p],
           queue' = Dequeued(B)
    PROVE  /\ pc' \in [Task -> PC] /\ queue' \in [Buckets -> Seq(Task)]
           /\ pc'[t] = p
           /\ \A u \in Task \ {t} :
                /\ pc'[u] = pc[u] \/ (pc[u] \in {"parking", "parked"} /\ pc'[u] = "woken")
                /\ Bucket(u) \notin B => pc'[u] = pc[u]
                /\ Bucket(u) \in B /\ pc'[u] \in {"parking", "parked"}
                     => Batons(Bucket(u))' # {}
           /\ QueueExact'
<1> USE BucketType DEF Sleepers
<1>1. ASSUME NEW b \in Buckets, queue[b] # <<>>
      PROVE  /\ Head(queue[b]) \in Sleepers(b)
             /\ Tail(queue[b]) \in Seq(Sleepers(b))
             /\ Lists(Tail(queue[b]), Sleepers(b) \ {Head(queue[b])})
  BY <1>1, QueueType, ListsTail
<1>2. \A u \in Task : pc[u] = "parked" => queue[Bucket(u)] # <<>>
  <2> SUFFICES ASSUME NEW u \in Task, pc[u] = "parked", queue[Bucket(u)] = <<>>
               PROVE  FALSE
    OBVIOUS
  <2>1. \E i \in 1..Len(queue[Bucket(u)]) : queue[Bucket(u)][i] = u
    BY DEF QueueExact, Lists
  <2> QED
    BY <2>1
<1>3. \A u \in Task \ {t} :
        pc'[u] = IF /\ Bucket(u) \in B
                    /\ \/ pc[u] = "parking"
                       \/ queue[Bucket(u)] # <<>> /\ u = Head(queue[Bucket(u)])
                 THEN "woken" ELSE pc[u]
  BY DEF Signalled
<1>4. pc' \in [Task -> PC] /\ pc'[t] = p
  BY DEF Signalled, TypeOK, PC, Inside, Counted
<1>5. ASSUME NEW u \in Task \ {t}
      PROVE  pc'[u] = pc[u] \/ (pc[u] \in {"parking", "parked"} /\ pc'[u] = "woken")
  BY <1>1, <1>3
<1>6. ASSUME NEW u \in Task \ {t}, Bucket(u) \in B, pc'[u] \in {"parking", "parked"}
      PROVE  Batons(Bucket(u))' # {}
  <2> DEFINE h == Head(queue[Bucket(u)])
  <2>1. pc[u] = "parked"
    BY <1>3, <1>6
  <2>2. h \in Sleepers(Bucket(u)) /\ queue[Bucket(u)] # <<>>
    BY <2>1, <1>1, <1>2
  <2>3. h \in Task /\ Bucket(h) = Bucket(u) /\ h # t
    BY <2>2
  <2>4. pc'[h] = "woken"
    BY <2>2, <2>3, <1>3, <1>6
  <2> QED
    BY <2>3, <2>4 DEF Batons
<1>7. queue' \in [Buckets -> Seq(Task)]
  <2>1. \A b \in Buckets : queue[b] # <<>> => Tail(queue[b]) \in Seq(Task)
    BY DEF TypeOK
  <2> QED
    BY <2>1 DEF Dequeued, TypeOK
<1>8. ASSUME NEW b \in Buckets PROVE Lists(queue'[b], Sleepers(b)')
  <2>1. CASE b \in B /\ queue[b] # <<>>
    <3>1. queue'[b] = Tail(queue[b])
      BY <2>1 DEF Dequeued
    <3>2. Sleepers(b)' = Sleepers(b) \ {Head(queue[b])}
      <4> DEFINE h == Head(queue[b])
      <4>1. ASSUME NEW u \in Task \ {t}, Bucket(u) = b
            PROVE  pc'[u] = "parked" <=> pc[u] = "parked" /\ u # h
        <5>1. pc'[u] = IF pc[u] = "parking" \/ u = h THEN "woken" ELSE pc[u]
          BY <4>1, <2>1, <1>3
        <5> HIDE DEF h
        <5> QED
          BY <5>1
      <4> HIDE DEF h
      <4> QED
        BY <4>1, <1>4 DEF h
    <3> QED
      BY <3>1, <3>2, <2>1, <1>1
  <2>2. CASE ~(b \in B /\ queue[b] # <<>>)
    <3>1. queue'[b] = queue[b]
      BY <2>2 DEF Dequeued
    <3>2. Sleepers(b)' = Sleepers(b)
      BY <2>2, <1>3, <1>4
    <3> QED
      BY <3>1, <3>2, QueueType
  <2> QED
    BY <2>1, <2>2
<1>9. QueueExact'
  BY <1>8 DEF QueueExact
<1> QED
  BY <1>3, <1>4, <1>5, <1>6, <1>7, <1>9

-----------------------------------------------------------------------------
(* The two ways through the loop of switcher_yield *)

\* A task that is not let out signals its bucket and parks.
LEMMA BlockSignal ==
    ASSUME TypeOK, QueueExact, NEW t \in Task, Block(t), pc[t] # "parked"
    PROVE
      /\ pc' \in [Task -> PC] /\ queue' \in [Buckets -> Seq(Task)]
      /\ pc'[t] = "parking"
      /\ \A u \in Task \ {t} :
           /\ pc'[u] = pc[u] \/ (pc[u] \in {"parking", "parked"} /\ pc'[u] = "woken")
           /\ Bucket(u) \notin {Bucket(t)} => pc'[u] = pc[u]
           /\ Bucket(u) \in {Bucket(t)} /\ pc'[u] \in {"parking", "parked"}
                => Batons(Bucket(u))' # {}
      /\ QueueExact'
<1>1. /\ {Bucket(t)} \in SUBSET Buckets
      /\ "parking" \in PC /\ "parking" # "parked"
  BY BucketType DEF PC, Inside, Counted
<1>2. /\ pc' = [Signalled(pc, {Bucket(t)}) EXCEPT ![t] = "parking"]
      /\ queue' = Dequeued({Bucket(t)})
  BY DEF Block
<1> QED
  BY <1>1, <1>2, SignalStep

\* A task that is not let out passes the signal on and parks.
LEMMA BlockStep ==
    ASSUME Inv, NEW t \in Task, Block(t), waits' = waits, slack' \in BOOLEAN,
           \/ pc[t] = "enter" /\ counter' = [counter EXCEPT ![Bucket(t)] = @ + 1]
           \/ pc[t] \in {"woken", "slack"} /\ counter' = counter
    PROVE  Inv'
<1> USE BucketType DEF Inv
<1>1. /\ pc' \in [Task -> PC] /\ queue' \in [Buckets -> Seq(Task)]
      /\ pc'[t] = "parking"
      /\ \A u \in Task \ {t} :
           /\ pc'[u] = pc[u] \/ (pc[u] \in {"parking", "parked"} /\ pc'[u] = "woken")
           /\ Bucket(u) \notin {Bucket(t)} => pc'[u] = pc[u]
           /\ Bucket(u) \in {Bucket(t)} /\ pc'[u] \in {"parking", "parked"}
                => Batons(Bucket(u))' # {}
      /\ QueueExact'
  BY BlockSignal
<1>2. ~Passes(t) /\ next' = next /\ prev' = prev /\ status' = status
  BY DEF Block
<1>3. TypeOK'
  <2>1. counter[Bucket(t)] \in Nat /\ counter \in [Buckets -> Nat]
    BY DEF TypeOK
  <2>2. [counter EXCEPT ![Bucket(t)] = @ + 1] \in [Buckets -> Nat]
    BY <2>1
  <2>3. counter' \in [Buckets -> Nat]
    BY <2>1, <2>2
  <2> QED
    BY <2>3, <1>1, <1>2 DEF TypeOK
<1>4. CounterExact'
  <2>1. \A u \in Task \ {t} : pc'[u] \in Counted <=> pc[u] \in Counted
    BY <1>1 DEF Counted
  <2>2. \/ /\ pc[t] \in Counted <=> pc'[t] \in Counted
           /\ counter' = counter
        \/ /\ pc[t] \notin Counted /\ pc'[t] \in Counted
           /\ counter' = [counter EXCEPT ![Bucket(t)] = @ + 1]
    BY <1>1 DEF Counted
  <2> QED
    BY <2>1, <2>2, <1>3, CounterStep
<1>5. OneRunner'
  BY <1>1, <1>2 DEF OneRunner
<1>6. NoLostWakeup'
  <2> SUFFICES ASSUME NEW u \in Task, pc'[u] \in {"parking", "parked"}, Passes(u)',
                      status' # "ABORTED"
               PROVE  Batons(Bucket(u))' # {}
    BY DEF NoLostWakeup
  <2>1. u # t /\ Passes(u) /\ pc[u] \in {"parking", "parked"}
    BY <1>1, <1>2 DEF Passes
  <2>2. CASE Bucket(u) = Bucket(t)
    BY <2>1, <2>2, <1>1
  <2>3. CASE Bucket(u) # Bucket(t)
    <3>1. PICK v \in Task : Bucket(v) = Bucket(u) /\ pc[v] \in {"woken", "slack"}
      BY <2>1, <1>2 DEF NoLostWakeup, Batons
    <3>2. pc'[v] = pc[v]
      BY <3>1, <2>3, <1>1
    <3> QED
      BY <3>1, <3>2 DEF Batons
  <2> QED
    BY <2>2, <2>3
<1> QED
  BY <1>1, <1>3, <1>4, <1>5, <1>6

\* A task that is let out takes the mark down.
LEMMA LeaveStep ==
    ASSUME Inv, NEW t \in Task, Leave(t), waits' = waits, slack' \in BOOLEAN,
           \/ pc[t] = "enter" /\ counter' = counter
           \/ /\ pc[t] \in {"woken", "slack"}
              /\ counter' = [counter EXCEPT ![Bucket(t)] = @ - 1]
    PROVE  Inv'
<1> USE BucketType DEF Inv
<1>1. /\ next' = NoTask /\ queue' = queue
      /\ pc' \in [Task -> PC] /\ pc'[t] \in {"run", "done"}
      /\ \A u \in Task \ {t} : pc'[u] = pc[u]
  BY DEF Leave, TypeOK, PC, Inside, Counted
<1>2. TypeOK'
  <2>1. pc[t] \in {"woken", "slack"} => counter[Bucket(t)] > 0
    BY CounterPositive DEF Counted
  <2>2. counter' \in [Buckets -> Nat]
    <3>1. counter[Bucket(t)] \in Nat /\ counter \in [Buckets -> Nat]
      BY DEF TypeOK
    <3>2. ASSUME counter[Bucket(t)] > 0
          PROVE  [counter EXCEPT ![Bucket(t)] = @ - 1] \in [Buckets -> Nat]
      <4>1. counter[Bucket(t)] - 1 \in Nat
        BY <3>1, <3>2
      <4> QED
        BY <3>1, <4>1
    <3> QED
      BY <2>1, <3>1, <3>2
  <2>3. prev' \in Task \cup {NoTask} /\ status' \in Status
    BY DEF Leave, TypeOK, Status
  <2> QED
    BY <1>1, <2>2, <2>3 DEF TypeOK
<1>3. CounterExact'
  <2>1. \A u \in Task \ {t} : pc'[u] \in Counted <=> pc[u] \in Counted
    BY <1>1
  <2>2. \/ /\ pc[t] \in Counted <=> pc'[t] \in Counted
           /\ counter' = counter
        \/ /\ pc[t] \in Counted /\ pc'[t] \notin Counted
           /\ counter' = [counter EXCEPT ![Bucket(t)] = @ - 1]
    BY <1>1 DEF Counted
  <2> QED
    BY <2>1, <2>2, <1>2, CounterStep
<1>4. QueueExact'
  <2>1. \A u \in Task : pc'[u] = "parked" <=> pc[u] = "parked"
    BY <1>1
  <2> QED
    BY <2>1, <1>1 DEF QueueExact
<1>5. OneRunner'
  <2> SUFFICES ASSUME status' # "ABORTED", NEW u \in Task, pc'[u] = "run"
               PROVE  u = t
    BY <1>1 DEF OneRunner
  <2>1. status # "ABORTED" /\ next # NoTask
    BY DEF Leave, Passes
  <2> QED
    BY <2>1, <1>1 DEF OneRunner
<1>6. NoLostWakeup'
  <2>1. status' # "ABORTED" => \A u \in Task : ~Passes(u)'
    BY <1>1 DEF Passes
  <2> QED
    BY <2>1 DEF NoLostWakeup
<1> QED
  BY <1>2, <1>3, <1>4, <1>5, <1>6

-----------------------------------------------------------------------------
(* The invariant *)

\* The state the switcher starts in, statically initialised.
LEMMA InitInv == Init => Inv
<1> SUFFICES ASSUME Init PROVE Inv
  OBVIOUS
<1>1. TypeOK
  <2>1. <<>> \in Seq(Task)
    OBVIOUS
  <2> QED
    BY <2>1 DEF Init, TypeOK, PC, Inside, Counted, Status
<1>2. \A t \in Task : pc[t] \in {"run", "new"}
  BY DEF Init
<1>3. QueueExact
  BY <1>2 DEF Init, QueueExact, Lists
<1>4. CounterExact
  <2> SUFFICES ASSUME NEW b \in Buckets PROVE counter[b] = Cardinality(Waiters(b))
    BY DEF CounterExact, Waiters
  <2>1. Waiters(b) = {}
    BY <1>2 DEF Waiters, Counted
  <2> QED
    BY <2>1, FS_EmptySet DEF Init
<1>5. OneRunner
  BY DEF Init, OneRunner
<1>6. NoLostWakeup
  BY <1>2 DEF NoLostWakeup
<1> QED
  BY <1>1, <1>3, <1>4, <1>5, <1>6 DEF Inv

\* A step that changes neither the queues, the counters nor who waits.
LEMMA CalmStep ==
    ASSUME Inv, TypeOK', UNCHANGED <<queue, counter>>,
           \A u \in Task : /\ pc'[u] \in Counted <=> pc[u] \in Counted
                           /\ pc'[u] = "parked" <=> pc[u] = "parked"
    PROVE  QueueExact' /\ CounterExact'
<1>1. \A b \in Buckets : Waiters(b)' = Waiters(b) /\ Sleepers(b)' = Sleepers(b)
  BY DEF Waiters, Sleepers
<1>2. \A b \in Buckets : Lists(queue[b], Sleepers(b)) /\ counter[b] = Cardinality(Waiters(b))
  BY DEF Inv, QueueExact, CounterExact, Waiters, Sleepers
<1>3. \A b \in Buckets : Lists(queue'[b], Sleepers(b)') /\ counter'[b] = Cardinality(Waiters(b)')
  BY <1>1, <1>2
<1> QED
  BY <1>3 DEF QueueExact, CounterExact, Waiters, Sleepers

\* futex_wait, and its return without a wake.
LEMMA FutexStep ==
    ASSUME Inv, NEW t \in Task, FutexWait(t) \/ FutexSpurious(t)
    PROVE  Inv'
<1> USE BucketType
<1> DEFINE b == Bucket(t)
<1>0. b \in Buckets /\ queue \in [Buckets -> Seq(Task)] /\ pc \in [Task -> PC]
  BY DEF Inv, TypeOK
<1>1. /\ UNCHANGED <<next, prev, status, slack, counter, waits>>
      /\ pc[t] \in {"parking", "parked"}
      /\ pc'[t] \in {"parked", "woken"}
      /\ \A u \in Task \ {t} : pc'[u] = pc[u]
      /\ pc' \in [Task -> PC]
  <2>1. CASE FutexWait(t)
    BY <2>1, <1>0 DEF FutexWait, PC, Inside, Counted
  <2>2. CASE FutexSpurious(t)
    BY <2>2, <1>0 DEF FutexSpurious, PC, Inside, Counted
  <2> QED
    BY <2>1, <2>2
<1>2. queue' \in [Buckets -> Seq(Task)] /\ Lists(queue'[b], Sleepers(b)')
  <2> HIDE DEF b
  <2>0. queue[b] \in Seq(Sleepers(b)) /\ Lists(queue[b], Sleepers(b)) /\ queue[b] \in Seq(Task)
    BY <1>0, QueueType DEF Inv
  <2>1. CASE FutexWait(t)
    <3>1. Sleepers(b)' = Sleepers(b) \cup {t} /\ t \notin Sleepers(b)
      BY <2>1, <1>0 DEF FutexWait, Sleepers, b
    <3>2. Lists(Append(queue[b], t), Sleepers(b) \cup {t})
      BY <2>0, <3>1, ListsAppend
    <3>3. queue' = [queue EXCEPT ![b] = Append(@, t)] /\ Append(queue[b], t) \in Seq(Task)
      BY <2>0, <2>1 DEF FutexWait, b
    <3> QED
      BY <3>1, <3>2, <3>3, <1>0
  <2>2. CASE FutexSpurious(t)
    <3>1. PICK i \in 1..Len(queue[b]) :
            queue[b][i] = t /\ queue' = [queue EXCEPT ![b] = RemoveAt(@, i)]
      BY <2>2 DEF FutexSpurious, b
    <3>2. RemoveAt(queue[b], i) \in Seq(Sleepers(b))
          /\ Lists(RemoveAt(queue[b], i), Sleepers(b) \ {t})
      BY <2>0, <3>1, ListsRemoveAt
    <3>3. Sleepers(b)' = Sleepers(b) \ {t}
      BY <2>2, <1>0 DEF FutexSpurious, Sleepers, b
    <3>4. RemoveAt(queue[b], i) \in Seq(Task)
      <4>1. Sleepers(b) \subseteq Task
        BY DEF Sleepers
      <4> HIDE DEF b
      <4>2. \A r : r \in Seq(Sleepers(b)) => r \in Seq(Task)
        BY <4>1
      <4> QED
        BY <3>2, <4>2
    <3> QED
      BY <3>1, <3>2, <3>3, <3>4, <1>0
  <2> QED
    BY <2>1, <2>2
<1>3. TypeOK'
  BY <1>1, <1>2 DEF TypeOK, Inv
<1>4. QueueExact'
  <2>1. ASSUME NEW c \in Buckets PROVE Lists(queue'[c], Sleepers(c)')
    <3>1. CASE c # b
      <4>1. queue'[c] = queue[c]
        BY <3>1, <1>0 DEF FutexWait, FutexSpurious
      <4>2. Sleepers(c)' = Sleepers(c)
        BY <3>1, <1>1 DEF Sleepers
      <4> QED
        BY <4>1, <4>2, QueueType DEF Inv
    <3> QED
      BY <3>1, <1>2
  <2> QED
    BY <2>1 DEF QueueExact, Sleepers
<1>5. CounterExact'
  <2>1. \A u \in Task : pc'[u] \in Counted <=> pc[u] \in Counted
    BY <1>1 DEF Counted
  <2> QED
    BY <2>1, <1>1, <1>3, CounterStep DEF Inv
<1>6. OneRunner'
  BY <1>1 DEF Inv, OneRunner
<1>7. NoLostWakeup'
  <2> SUFFICES ASSUME NEW u \in Task, pc'[u] \in {"parking", "parked"}, Passes(u)',
                      status' # "ABORTED"
               PROVE  Batons(Bucket(u))' # {}
    BY DEF NoLostWakeup
  <2>1. Passes(u) /\ pc[u] \in {"parking", "parked"} /\ status # "ABORTED"
    BY <1>1 DEF Passes
  <2>2. PICK v \in Task : Bucket(v) = Bucket(u) /\ pc[v] \in {"woken", "slack"}
    BY <2>1 DEF Inv, NoLostWakeup, Batons
  <2> QED
    BY <2>2, <1>1 DEF Batons
<1> QED
  BY <1>3, <1>4, <1>5, <1>6, <1>7 DEF Inv

\* The steps of the running task: a wake, an abort, a change of the filters, a creation.
LEMMA RunningStep ==
    ASSUME Inv, NEW t \in Task,
           \/ \E n \in Task \cup {AnyTask}, p \in {"out", "done"} : Wake(t, n, p)
           \/ Abort(t)
           \/ Refilter(t)
           \/ \E u \in Task : Create(t, u)
    PROVE  Inv'
<1> USE BucketType
<1>0. pc[t] = "run" /\ (status # "ABORTED" => next = NoTask)
  BY DEF Inv, OneRunner, Wake, Abort, Refilter, Create
<1>1. ASSUME NEW n \in Task \cup {AnyTask}, NEW p \in {"out", "done"}, Wake(t, n, p)
      PROVE  Inv'
  <2> DEFINE B == WakeBuckets(n)
  <2>1. /\ B \in SUBSET Buckets /\ p \in PC /\ p # "parked" /\ pc[t] # "parked"
        /\ TypeOK /\ QueueExact
        /\ pc' = [Signalled(pc, B) EXCEPT ![t] = p]
        /\ queue' = Dequeued(B)
    BY <1>0, <1>1 DEF Wake, WakeBuckets, PC, Inv
  <2> HIDE DEF B
  <2>2. /\ pc' \in [Task -> PC] /\ queue' \in [Buckets -> Seq(Task)]
        /\ pc'[t] = p
        /\ \A u \in Task \ {t} :
             /\ pc'[u] = pc[u] \/ (pc[u] \in {"parking", "parked"} /\ pc'[u] = "woken")
             /\ Bucket(u) \notin B => pc'[u] = pc[u]
             /\ Bucket(u) \in B /\ pc'[u] \in {"parking", "parked"}
                  => Batons(Bucket(u))' # {}
        /\ QueueExact'
    BY <2>1, SignalStep
  <2>3. next' = n /\ slack' \in BOOLEAN /\ UNCHANGED <<prev, status, counter, waits>>
    BY <1>1 DEF Wake
  <2>4. TypeOK'
    BY <2>2, <2>3 DEF Inv, TypeOK
  <2>5. CounterExact'
    <3>1. \A u \in Task : pc'[u] \in Counted <=> pc[u] \in Counted
      BY <1>0, <2>2 DEF Counted
    <3> QED
      BY <3>1, <2>3, <2>4, CounterStep DEF Inv
  <2>6. OneRunner'
    <3>1. status # "ABORTED" => \A u \in Task : pc'[u] # "run"
      BY <1>0, <2>2 DEF Inv, OneRunner
    <3> QED
      BY <3>1, <2>3 DEF OneRunner
  <2>7. NoLostWakeup'
    <3> SUFFICES ASSUME NEW u \in Task, pc'[u] \in {"parking", "parked"}, Passes(u)',
                        status' # "ABORTED"
                 PROVE  Batons(Bucket(u))' # {}
      BY DEF NoLostWakeup
    <3>1. u # t /\ pc[u] \in Counted /\ (n = u \/ n = AnyTask)
      BY <2>2, <2>3 DEF Passes, Counted
    <3>2. Bucket(u) \in B
      BY <3>1, CounterPositive DEF Inv, B, WakeBuckets
    <3> QED
      BY <3>1, <3>2, <2>2
  <2> QED
    BY <2>2, <2>4, <2>5, <2>6, <2>7 DEF Inv
<1>2. CASE Abort(t)
  <2>1. TypeOK'
    BY <1>2 DEF Abort, Inv, TypeOK, Status
  <2>2. QueueExact' /\ CounterExact'
    BY <1>2, <2>1, CalmStep DEF Abort
  <2> QED
    BY <1>2, <2>1, <2>2 DEF Abort, Inv, OneRunner, NoLostWakeup
<1>3. CASE Refilter(t)
  <2>1. TypeOK'
    BY <1>3 DEF Refilter, Inv, TypeOK
  <2>2. QueueExact' /\ CounterExact'
    BY <1>3, <2>1, CalmStep DEF Refilter
  <2>3. OneRunner' /\ NoLostWakeup'
    BY <1>0, <1>3 DEF Refilter, Inv, OneRunner, NoLostWakeup, Passes
  <2> QED
    BY <2>1, <2>2, <2>3 DEF Inv
<1>4. ASSUME NEW u \in Task, Create(t, u) PROVE Inv'
  <2>1. /\ UNCHANGED <<next, prev, status, slack, counter, queue, waits>>
        /\ pc[u] = "new" /\ pc'[t] = "out" /\ pc'[u] = "run"
        /\ \A v \in Task \ {t, u} : pc'[v] = pc[v]
        /\ pc' \in [Task -> PC]
    BY <1>0, <1>4 DEF Create, Inv, TypeOK, PC
  <2>2. TypeOK'
    BY <2>1 DEF Inv, TypeOK
  <2>3. \A v \in Task : /\ pc'[v] \in Counted <=> pc[v] \in Counted
                        /\ pc'[v] = "parked" <=> pc[v] = "parked"
    BY <1>0, <2>1 DEF Counted
  <2>4. QueueExact' /\ CounterExact'
    BY <2>1, <2>2, <2>3, CalmStep
  <2>5. OneRunner'
    BY <1>0, <2>1 DEF Inv, OneRunner
  <2>6. NoLostWakeup'
    BY <1>0, <2>1 DEF NoLostWakeup, Passes
  <2> QED
    BY <2>2, <2>4, <2>5, <2>6 DEF Inv
<1> QED
  BY <1>1, <1>2, <1>3, <1>4

\* Every step of the switcher preserves the invariant.
LEMMA NextInv == Inv /\ [Next]_vars => Inv'
<1> SUFFICES ASSUME Inv, [Next]_vars PROVE Inv'
  OBVIOUS
<1>1. ASSUME NEW t \in Task, Enter(t) PROVE Inv'
  <2>1. slack \in BOOLEAN /\ waits' = waits /\ pc[t] = "enter"
    BY <1>1 DEF Enter, Inv, TypeOK
  <2>2. CASE Block(t) /\ counter' = [counter EXCEPT ![Bucket(t)] = @ + 1] /\ slack' = slack
    BY <2>1, <2>2, BlockStep
  <2>3. CASE Leave(t) /\ counter' = counter /\ slack' = (status = "ABORTED" /\ slack)
    <3>1. slack' \in BOOLEAN
      BY <2>3
    <3> QED
      BY <2>1, <2>3, <3>1, LeaveStep
  <2> QED
    BY <1>1, <2>2, <2>3 DEF Enter
<1>2. ASSUME NEW t \in Task, Wakeup(t) PROVE Inv'
  <2>1. slack' \in BOOLEAN /\ waits' = waits /\ pc[t] = "woken"
    BY <1>2 DEF Wakeup, Inv, TypeOK
  <2>2. CASE Block(t) /\ counter' = counter
    BY <2>1, <2>2, BlockStep
  <2>3. CASE Leave(t) /\ counter' = [counter EXCEPT ![Bucket(t)] = @ - 1]
    BY <2>1, <2>3, LeaveStep
  <2>4. CASE /\ pc' = [pc EXCEPT ![t] = "slack"]
             /\ UNCHANGED <<next, prev, status, counter, queue>>
    <3>1. /\ pc'[t] = "slack" /\ \A u \in Task \ {t} : pc'[u] = pc[u]
          /\ pc' \in [Task -> PC]
      BY <2>4 DEF Inv, TypeOK, PC, Inside, Counted
    <3>2. TypeOK'
      BY <2>1, <2>4, <3>1 DEF Inv, TypeOK
    <3>3. QueueExact' /\ CounterExact'
      BY <2>1, <2>4, <3>1, <3>2, CalmStep DEF Counted
    <3>4. OneRunner'
      BY <2>1, <2>4, <3>1 DEF Inv, OneRunner
    <3>5. \A b \in Buckets : Batons(b)' = Batons(b)
      BY <2>1, <3>1 DEF Batons
    <3>6. NoLostWakeup'
      BY <2>1, <2>4, <3>1, <3>5, BucketType DEF Inv, NoLostWakeup, Passes
    <3> QED
      BY <3>2, <3>3, <3>4, <3>6 DEF Inv
  <2> QED
    BY <1>2, <2>2, <2>3, <2>4 DEF Wakeup
<1>3. ASSUME NEW t \in Task, SlackEnd(t) PROVE Inv'
  <2>1. slack' \in BOOLEAN /\ waits' = waits /\ pc[t] = "slack"
    BY <1>3 DEF SlackEnd
  <2>2. CASE Block(t) /\ counter' = counter
    BY <2>1, <2>2, BlockStep
  <2>3. CASE Leave(t) /\ counter' = [counter EXCEPT ![Bucket(t)] = @ - 1]
    BY <2>1, <2>3, LeaveStep
  <2> QED
    BY <1>3, <2>2, <2>3 DEF SlackEnd
<1>4. ASSUME NEW t \in Task, CallYield(t) PROVE Inv'
  <2>1. /\ UNCHANGED <<next, prev, status, slack, counter, queue, waits>>
        /\ pc[t] = "out" /\ pc'[t] = "enter" /\ \A u \in Task \ {t} : pc'[u] = pc[u]
        /\ pc' \in [Task -> PC]
    BY <1>4 DEF CallYield, Inv, TypeOK, PC, Inside
  <2>2. TypeOK'
    BY <2>1 DEF Inv, TypeOK
  <2>3. QueueExact' /\ CounterExact'
    BY <2>1, <2>2, CalmStep DEF Counted
  <2>4. OneRunner'
    BY <2>1 DEF Inv, OneRunner
  <2>5. \A b \in Buckets : Batons(b)' = Batons(b)
    BY <2>1 DEF Batons
  <2>6. NoLostWakeup'
    BY <2>1, <2>5, BucketType DEF Inv, NoLostWakeup, Passes
  <2> QED
    BY <2>2, <2>3, <2>4, <2>6 DEF Inv
<1>5. CASE UNCHANGED vars
  BY <1>5 DEF vars, Inv, TypeOK, QueueExact, CounterExact, OneRunner, NoLostWakeup, Batons,
              Passes
<1> QED
  BY <1>1, <1>2, <1>3, <1>4, <1>5, FutexStep, RunningStep DEF Next, Step

\* The invariant holds in every reachable state.
LEMMA Invariant == Spec => []Inv
BY InitInv, NextInv, PTL DEF Spec

\* While the mark lets out a task that sleeps, or is about to sleep, on its condition
\* variable, a task of its bucket is awake and will pass the signal of switcher_wake on.
THEOREM NoWakeupIsLost == Spec => []NoLostWakeup
BY Invariant, PTL DEF Inv

\* switcher_wake is called by one task at a time and its assertion next == NO_TASK holds.
THEOREM WakesAreSequential == Spec => []OneRunner
BY Invariant, PTL DEF Inv

\* cnd_counter is the number of tasks that wait in the bucket.
THEOREM CountersAreExact == Spec => []CounterExact
BY Invariant, PTL DEF Inv

-----------------------------------------------------------------------------
(* The switcher of switcher.c is the one-mark switcher of SwitcherSpec *)

\* The abstract program counters.
Places == [t \in Task |-> Place(t)]

\* A step that moves no task over the border of switcher_yield is invisible.
LEMMA Invisible ==
    ASSUME UNCHANGED <<next, waits>>, \A t \in Task : Place(t)' = Place(t)
    PROVE  UNCHANGED Abs!vars
BY DEF Abs!vars

\* One pass through the loop leaves the task inside, another lets it out.
LEMMA LoopRefines ==
    ASSUME Inv, status # "ABORTED", NEW t \in Task, pc[t] \in Inside \ {"parked"},
           waits' = waits, Block(t) \/ Leave(t)
    PROVE  [Abs!Next]_(Abs!vars)
<1>1. CASE Block(t)
  <2>1. UNCHANGED <<next, waits>> /\ pc[t] # "parked" /\ TypeOK /\ QueueExact
    BY <1>1 DEF Inv, Block
  <2>2. /\ pc'[t] = "parking"
        /\ \A u \in Task \ {t} :
             pc'[u] = pc[u] \/ (pc[u] \in {"parking", "parked"} /\ pc'[u] = "woken")
    BY <1>1, <2>1, BlockSignal
  <2>3. \A u \in Task : Place(u)' = Place(u)
    BY <2>2 DEF Place, Inside, Counted
  <2> QED
    BY <2>1, <2>3, Invisible
<1>2. CASE Leave(t)
  <2>1. pc' = [pc EXCEPT ![t] = "run"] /\ next' = NoTask /\ Passes(t)
    BY <1>2 DEF Leave
  <2>2. Places' = [Places EXCEPT ![t] = "run"] /\ Places[t] = "in"
    BY <2>1 DEF Places, Place, Inside, Counted, Inv, TypeOK
  <2>3. Abs!Return(t)
    BY <2>1, <2>2 DEF Abs!Return, Abs!Lets, Passes, Places
  <2> QED
    BY <2>3 DEF Abs!Next
<1> QED
  BY <1>1, <1>2

\* Every step is a step of SwitcherSpec or invisible, as long as nobody aborts.
LEMMA StepRefines ==
    ASSUME Inv, status # "ABORTED", Next, ~CanAbort
    PROVE  [Abs!Next]_(Abs!vars) /\ status' # "ABORTED"
<1>0. pc \in [Task -> PC] /\ \A t \in Task : pc[t] = "run" => next = NoTask
  BY DEF Inv, TypeOK, OneRunner
<1>1. ASSUME NEW t \in Task, FutexWait(t) \/ FutexSpurious(t)
      PROVE  [Abs!Next]_(Abs!vars) /\ status' # "ABORTED"
  <2>1. UNCHANGED <<next, status, waits>> /\ \A u \in Task : Place(u)' = Place(u)
    <3>1. CASE FutexWait(t)
      BY <3>1, <1>0 DEF FutexWait, Place, Inside, Counted
    <3>2. CASE FutexSpurious(t)
      BY <3>2, <1>0 DEF FutexSpurious, Place, Inside, Counted
    <3> QED
      BY <1>1, <3>1, <3>2
  <2> QED
    BY <2>1, Invisible
<1>2. ASSUME NEW t \in Task, Enter(t) \/ Wakeup(t) \/ SlackEnd(t)
      PROVE  [Abs!Next]_(Abs!vars) /\ status' # "ABORTED"
  <2>1. pc[t] \in Inside \ {"parked"} /\ waits' = waits
    BY <1>2 DEF Enter, Wakeup, SlackEnd, Inside, Counted
  <2>2. CASE Block(t) \/ Leave(t)
    BY <2>1, <2>2, LoopRefines DEF Block, Leave
  <2>3. CASE /\ pc[t] = "woken" /\ pc' = [pc EXCEPT ![t] = "slack"]
             /\ UNCHANGED <<next, status>>
    <3>1. \A u \in Task : Place(u)' = Place(u)
      BY <1>0, <2>3 DEF Place, Inside, Counted
    <3> QED
      BY <3>1, <2>1, <2>3, Invisible
  <2> QED
    BY <1>2, <2>2, <2>3 DEF Enter, Wakeup, SlackEnd
<1>3. ASSUME NEW t \in Task, CallYield(t)
      PROVE  [Abs!Next]_(Abs!vars) /\ status' # "ABORTED"
  <2>1. Places' = [Places EXCEPT ![t] = "in"] /\ Places[t] = "out"
    BY <1>0, <1>3 DEF CallYield, Places, Place, Inside, Counted
  <2>2. Abs!Yield(t) /\ status' # "ABORTED"
    BY <1>3, <2>1 DEF Abs!Yield, CallYield, Places
  <2> QED
    BY <2>2 DEF Abs!Next
<1>4. ASSUME NEW t \in Task, Refilter(t)
      PROVE  [Abs!Next]_(Abs!vars) /\ status' # "ABORTED"
  <2>1. Abs!Refilter(t) /\ status' # "ABORTED"
    BY <1>0, <1>4 DEF Abs!Refilter, Refilter, Place, Inside, Counted
  <2> QED
    BY <2>1 DEF Abs!Next
<1>5. ASSUME NEW t \in Task, NEW u \in Task, Create(t, u)
      PROVE  [Abs!Next]_(Abs!vars) /\ status' # "ABORTED"
  <2>1. /\ Places' = [Places EXCEPT ![t] = "out", ![u] = "run"]
        /\ Places[t] = "run" /\ Places[u] = "new"
    BY <1>0, <1>5 DEF Create, Places, Place, Inside, Counted
  <2>2. Abs!Create(t, u) /\ status' # "ABORTED"
    BY <1>5, <2>1 DEF Abs!Create, Create, Places
  <2> QED
    BY <2>2 DEF Abs!Next
<1>6. ASSUME NEW t \in Task, NEW n \in Task \cup {AnyTask}, NEW p \in {"out", "done"},
             Wake(t, n, p)
      PROVE  [Abs!Next]_(Abs!vars) /\ status' # "ABORTED"
  <2> DEFINE B == WakeBuckets(n)
  <2>1. /\ B \in SUBSET Buckets /\ pc[t] = "run" /\ TypeOK /\ QueueExact
        /\ p \in PC /\ p # "parked"
        /\ pc' = [Signalled(pc, B) EXCEPT ![t] = p] /\ queue' = Dequeued(B)
    BY <1>6, BucketType DEF Inv, PC, Wake, WakeBuckets
  <2> HIDE DEF B
  <2>2. /\ pc'[t] = p
        /\ \A u \in Task \ {t} :
             pc'[u] = pc[u] \/ (pc[u] \in {"parking", "parked"} /\ pc'[u] = "woken")
    BY <2>1, SignalStep
  <2>3. \A u \in Task : Places'[u] = IF u = t THEN p ELSE Places[u]
    BY <2>2 DEF Places, Place, Inside, Counted
  <2>4. Places' = [Places EXCEPT ![t] = p]
    BY <2>3 DEF Places
  <2>5. Places[t] = "run" /\ (n \in Task => Places[n] \in {"run", "out", "in"})
    BY <1>0, <1>6, <2>1 DEF Wake, Places, Place, Inside, Counted, PC
  <2>6. Abs!Wake(t, n, p) /\ status' # "ABORTED"
    BY <1>0, <1>6, <2>1, <2>4, <2>5 DEF Abs!Wake, Wake, Places
  <2> QED
    BY <2>6 DEF Abs!Next
<1> QED
  BY <1>1, <1>2, <1>3, <1>4, <1>5, <1>6 DEF Next, Step, Abort

\* Buckets, futexes, spurious wakes and slack are invisible to the runtime: switcher.c is
\* the switcher with one mark, as long as nobody calls switcher_abort.
THEOREM Implementation ==
    ASSUME ~CanAbort
    PROVE  Spec => ImplementsAbs
<1> DEFINE J == Inv /\ status # "ABORTED"
<1>1. Init => J /\ Abs!Init
  <2>1. Init => Abs!Init
    BY DEF Init, Abs!Init, Place, Inside, Counted
  <2> QED
    BY <2>1, InitInv DEF Init
<1>2. J /\ [Next]_vars => J' /\ [Abs!Next]_(Abs!vars)
  <2> SUFFICES ASSUME J, [Next]_vars PROVE J' /\ [Abs!Next]_(Abs!vars)
    OBVIOUS
  <2>1. Inv'
    BY NextInv
  <2>2. CASE Next
    BY <2>1, <2>2, StepRefines
  <2>3. CASE UNCHANGED vars
    <3>1. UNCHANGED Abs!vars
      BY <2>3 DEF vars, Abs!vars, Place
    <3> QED
      BY <2>1, <2>3, <3>1 DEF vars
  <2> QED
    BY <2>2, <2>3
<1> QED
  BY <1>1, <1>2, PTL DEF Spec, ImplementsAbs, Abs!Spec

=============================================================================
