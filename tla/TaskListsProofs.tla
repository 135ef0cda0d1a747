-------------------------- MODULE TaskListsProofs --------------------------
(***************************************************************************)
(* Proofs about the lists that run through the TCBs, for any number of     *)
(* tasks and of lists: the scheduler's queues (TaskQueueList) and the      *)
(* sibling lists of the task tree (ChildList) implement sequences.         *)
(***************************************************************************)
EXTENDS MCTaskLists, SequenceLemmas

-----------------------------------------------------------------------------
(* The scheduler's queues *)

(* q is what the queues hold.  A task in no queue has no links. *)
QueuesHold(q) ==
    /\ Lists(NULL, Queues, Tasks, q, first, last, next, prev, home)
    /\ counter = [i \in Queues |-> Len(q[i])]
    /\ \A t \in Tasks : home[t] = NULL => next[t] = NULL /\ prev[t] = NULL

(* The inductive invariant: the links of the TCBs always spell some sequences. *)
QueuesInv == \E q \in [Queues -> Seq(Tasks)] : QueuesHold(q)

(* _add_to_queue appends. *)
LEMMA AddAppends ==
    ASSUME NEW q, QueuesHold(q), NEW t \in Tasks, NEW i \in Queues, _add_to_queue(t, i)
    PROVE  QueuesHold([q EXCEPT ![i] = Append(@, t)])'
<1> DEFINE q2 == [q EXCEPT ![i] = Append(@, t)]
<1>1. /\ Lists(NULL, Queues, Tasks, q, first, last, next, prev, home)
      /\ counter = [j \in Queues |-> Len(q[j])]
      /\ \A u \in Tasks : home[u] = NULL => next[u] = NULL /\ prev[u] = NULL
  BY DEF QueuesHold
<1>2. /\ home[t] = NULL
      /\ last' = [last EXCEPT ![i] = t] /\ home' = [home EXCEPT ![t] = i]
      /\ counter' = [counter EXCEPT ![i] = @ + 1]
  BY DEF _add_to_queue
<1>3. /\ first' = IF first[i] = NULL THEN [first EXCEPT ![i] = t] ELSE first
      /\ next' = IF first[i] = NULL THEN [next EXCEPT ![t] = NULL]
                 ELSE [next EXCEPT ![last[i]] = t, ![t] = NULL]
      /\ prev' = IF first[i] = NULL THEN [prev EXCEPT ![t] = NULL] ELSE [prev EXCEPT ![t] = last[i]]
  BY DEF _add_to_queue, IsEmpty
<1>4. Lists(NULL, Queues, Tasks, q2, first', last', next', prev', home')
  <2>1. /\ first \in [Queues -> Tasks \cup {NULL}] /\ last \in [Queues -> Tasks \cup {NULL}]
        /\ next \in [Tasks -> Tasks \cup {NULL}] /\ prev \in [Tasks -> Tasks \cup {NULL}]
    BY <1>1 DEF Lists
  <2>2. Links(NULL, Queues, Tasks, i, t, first, last, next, prev, first', last', next', prev')
    BY <1>2, <1>3, <2>1 DEF Links
  <2>3. Lists(NULL, Queues, Tasks, q2, first', last', next', prev', [home EXCEPT ![t] = i])
    BY <1>1, <1>2, <2>2, LinkTail, NullAssumption
  <2> QED
    BY <1>2, <2>3
<1>5. q \in [Queues -> Seq(Tasks)]
  BY <1>1 DEF Lists
<1>6. counter' = [j \in Queues |-> Len(q2[j])]
  BY <1>1, <1>2, <1>5, AppendProperties
<1>7. ASSUME NEW u \in Tasks, home'[u] = NULL PROVE next'[u] = NULL /\ prev'[u] = NULL
  <2>1. u # t /\ home[u] = NULL
    BY <1>1, <1>2, <1>7, NullAssumption DEF Lists
  <2>2. CASE first[i] = NULL
    BY <1>1, <1>3, <2>1, <2>2 DEF Lists
  <2>3. CASE first[i] # NULL
    <3>1. Len(q[i]) > 0 /\ last[i] = q[i][Len(q[i])] /\ Len(q[i]) \in 1..Len(q[i])
      BY <1>1, <1>5, <2>3 DEF Lists
    <3>2. home[last[i]] = i
      BY <1>1, <3>1 DEF Lists
    <3>3. u # last[i]
      BY <2>1, <3>2, NullAssumption
    <3> QED
      BY <1>1, <1>3, <2>1, <2>3, <3>3 DEF Lists
  <2> QED
    BY <2>2, <2>3
<1> QED
  BY <1>4, <1>6, <1>7 DEF QueuesHold

(* _remove_from_queue takes the task out of its queue, wherever it stands. *)
LEMMA RemoveRemoves ==
    ASSUME NEW q, QueuesHold(q), NEW t \in Tasks, NEW i \in Queues, _remove_from_queue(t, i)
    PROVE  \E k \in 1..Len(q[i]) : /\ q[i][k] = t
                                    /\ QueuesHold([q EXCEPT ![i] = Without(@, k)])'
<1>1. /\ Lists(NULL, Queues, Tasks, q, first, last, next, prev, home)
      /\ counter = [j \in Queues |-> Len(q[j])]
      /\ \A u \in Tasks : home[u] = NULL => next[u] = NULL /\ prev[u] = NULL
  BY DEF QueuesHold
<1>2. /\ home[t] = i
      /\ home' = [home EXCEPT ![t] = NULL]
      /\ counter' = [counter EXCEPT ![i] = @ - 1]
  BY DEF _remove_from_queue
<1>3. /\ q \in [Queues -> Seq(Tasks)]
      /\ first \in [Queues -> Tasks \cup {NULL}] /\ last \in [Queues -> Tasks \cup {NULL}]
      /\ next \in [Tasks -> Tasks \cup {NULL}] /\ prev \in [Tasks -> Tasks \cup {NULL}]
      /\ home \in [Tasks -> Queues \cup {NULL}]
  BY <1>1 DEF Lists
<1>4. PICK k \in 1..Len(q[i]) : q[i][k] = t
  <2>1. home[t] # NULL => \E k \in 1..Len(q[home[t]]) : q[home[t]][k] = t
    BY <1>1, Zenon DEF Lists
  <2> QED
    BY <1>2, <2>1, NullAssumption, Zenon
<1> DEFINE n == Len(q[i])
<1>5. /\ n \in Nat /\ k \in 1..n
      /\ first[i] = q[i][1] /\ last[i] = q[i][n]
      /\ \A b \in 1..n : /\ q[i][b] \in Tasks /\ q[i][b] # NULL
                         /\ q[i][b] = t => b = k
  BY <1>1, <1>3, <1>4, NullAssumption DEF Lists
<1>6. /\ next[t] = IF k = n THEN NULL ELSE q[i][k + 1]
      /\ prev[t] = IF k = 1 THEN NULL ELSE q[i][k - 1]
  BY <1>1, <1>4 DEF Lists
<1>7. /\ prev[t] = NULL <=> k = 1
      /\ next[t] = NULL <=> k = n
      /\ first[i] = t <=> k = 1
      /\ last[i] = t <=> k = n
      /\ k # n => k + 1 \in 1..n
      /\ k # 1 => k - 1 \in 1..n
      /\ next[t] # t /\ prev[t] # t
  <2> HIDE DEF n
  <2>1. /\ k # n => k + 1 \in 1..n
        /\ k # 1 => k - 1 \in 1..n
        /\ 1 \in 1..n /\ n \in 1..n
    BY <1>5
  <2> QED
    BY <1>4, <1>5, <1>6, <2>1, NullAssumption
<1>8. /\ Unlinks(NULL, Queues, Tasks, i, t, first, last, next, prev, first', last', next', prev')
      /\ next'[t] = NULL /\ prev'[t] = NULL
  <2>1. CASE remove_first(t, i)
    BY <1>3, <1>7, <2>1, NullAssumption DEF remove_first, Unlinks
  <2>2. CASE remove_last(t, i)
    BY <1>3, <1>7, <2>2, NullAssumption DEF remove_last, Unlinks
  <2>3. CASE remove_middle(t, i)
    BY <1>3, <1>7, <2>3, NullAssumption DEF remove_middle, Unlinks
  <2> QED
    BY <2>1, <2>2, <2>3 DEF _remove_from_queue
<1> DEFINE q2 == [q EXCEPT ![i] = Without(@, k)]
<1>9. Lists(NULL, Queues, Tasks, q2, first', last', next', prev', home')
  <2>1. t = q[i][k]
    BY <1>4
  <2>2. Lists(NULL, Queues, Tasks, q2, first', last', next', prev', [home EXCEPT ![t] = NULL])
    BY <1>1, <1>8, <2>1, Unlink, NullAssumption
  <2> QED
    BY <1>2, <2>2
<1>10. counter' = [j \in Queues |-> Len(q2[j])]
  <2>1. Len(Without(q[i], k)) = Len(q[i]) - 1
    BY <1>3, WithoutFacts
  <2> QED
    BY <1>1, <1>2, <1>3, <2>1
<1>11. ASSUME NEW u \in Tasks, home'[u] = NULL PROVE next'[u] = NULL /\ prev'[u] = NULL
  <2>1. CASE u = t
    BY <1>8, <2>1
  <2>2. CASE u # t
    <3>1. home[u] = NULL
      BY <1>2, <1>3, <1>11, <2>2
    <3>2. u # prev[t] /\ u # next[t]
      BY <1>1, <1>6, <1>7, <3>1, NullAssumption DEF Lists
    <3> QED
      BY <1>1, <1>8, <2>2, <3>1, <3>2 DEF Unlinks
  <2> QED
    BY <2>1, <2>2
<1> QED
  BY <1>4, <1>9, <1>10, <1>11 DEF QueuesHold

(* Init has empty queues. *)
LEMMA InitQueues == Init => QueuesHold([i \in Queues |-> <<>>])
  BY NullAssumption DEF Init, QueuesHold, Lists

(* A step leaves the queues alone or adds or removes a task. *)
LEMMA NextQueues == QueuesInv /\ [Next]_vars => QueuesInv'
<1> SUFFICES ASSUME QueuesInv, [Next]_vars PROVE QueuesInv'
  OBVIOUS
<1>1. PICK q \in [Queues -> Seq(Tasks)] : QueuesHold(q)
  BY DEF QueuesInv
<1>2. CASE UNCHANGED vars
  <2>1. QueuesHold(q)'
    BY <1>1, <1>2 DEF QueuesHold, vars
  <2> QED
    BY <2>1 DEF QueuesInv
<1>3. ASSUME NEW t \in Tasks, NEW i \in Queues, _add_to_queue(t, i) PROVE QueuesInv'
  <2>1. QueuesHold([q EXCEPT ![i] = Append(@, t)])'
    BY <1>1, <1>3, AddAppends
  <2>2. [q EXCEPT ![i] = Append(@, t)] \in [Queues -> Seq(Tasks)]
    BY <1>1, AppendProperties
  <2> QED
    BY <2>1, <2>2 DEF QueuesInv
<1>4. ASSUME NEW t \in Tasks, NEW i \in Queues, _remove_from_queue(t, i) PROVE QueuesInv'
  <2>1. PICK k \in 1..Len(q[i]) : QueuesHold([q EXCEPT ![i] = Without(@, k)])'
    BY <1>1, <1>4, RemoveRemoves
  <2>2. [q EXCEPT ![i] = Without(@, k)] \in [Queues -> Seq(Tasks)]
    BY <1>1, WithoutFacts
  <2> QED
    BY <2>1, <2>2 DEF QueuesInv
<1> QED
  BY <1>2, <1>3, <1>4 DEF Next

(* However tasks are added and removed, the TCBs of a queue spell a sequence:
   first, last, both links of every task and the counter agree. *)
THEOREM QueuesSafe == Spec => []QueuesInv
<1>1. Init => QueuesInv
  <2>1. [i \in Queues |-> <<>>] \in [Queues -> Seq(Tasks)]
    OBVIOUS
  <2> QED
    BY <2>1, InitQueues DEF QueuesInv
<1> QED
  BY <1>1, NextQueues, PTL DEF Spec

(* The backward links of the scheduler's queues always mirror the forward links,
   so that removing a task from the middle finds its true neighbours. *)
THEOREM BackLinksSafe == Spec => []BackLinks
<1>1. QueuesInv => BackLinks
  <2> SUFFICES ASSUME NEW q \in [Queues -> Seq(Tasks)], QueuesHold(q), NEW t \in Tasks
               PROVE  /\ next[t] # NULL => prev[next[t]] = t
                      /\ prev[t] # NULL => next[prev[t]] = t
    BY DEF QueuesInv, BackLinks
  <2>1. CASE home[t] = NULL
    BY <2>1 DEF QueuesHold
  <2>2. CASE home[t] # NULL
    <3> DEFINE i == home[t]
               n == Len(q[i])
    <3>1. PICK k \in 1..n : q[i][k] = t
      BY <2>2 DEF QueuesHold, Lists
    <3>2. i \in Queues /\ n \in Nat
      BY <2>2 DEF QueuesHold, Lists
    <3>3. \A b \in 1..n :
            /\ next[q[i][b]] = IF b = n THEN NULL ELSE q[i][b + 1]
            /\ prev[q[i][b]] = IF b = 1 THEN NULL ELSE q[i][b - 1]
      BY <3>2 DEF QueuesHold, Lists
    <3> HIDE DEF i, n
    <3>4. next[t] # NULL => prev[next[t]] = t
      <4>1. next[t] # NULL => next[t] = q[i][k + 1] /\ k + 1 \in 1..n
        BY <3>1, <3>2, <3>3
      <4>2. k + 1 \in 1..n => prev[q[i][k + 1]] = q[i][k]
        BY <3>2, <3>3
      <4> QED
        BY <3>1, <4>1, <4>2
    <3>5. prev[t] # NULL => next[prev[t]] = t
      <4>1. prev[t] # NULL => prev[t] = q[i][k - 1] /\ k - 1 \in 1..n /\ k - 1 # n
        BY <3>1, <3>2, <3>3
      <4>2. k - 1 \in 1..n /\ k - 1 # n => next[q[i][k - 1]] = q[i][k]
        BY <3>2, <3>3
      <4> QED
        BY <3>1, <4>1, <4>2
    <3> QED
      BY <3>4, <3>5
  <2> QED
    BY <2>1, <2>2
<1> QED
  BY <1>1, QueuesSafe, PTL

(* The walk along a queue yields what it holds, before a step ... *)
LEMMA QueueWalk ==
    ASSUME NEW q, QueuesHold(q)
    PROVE  [i \in Queues |-> Walk(i)] = q
<1>1. q \in [Queues -> Seq(Tasks)]
  BY DEF QueuesHold, Lists
<1>2. ASSUME NEW i \in Queues PROVE Walk(i) = q[i]
  <2>1. counter[i] = Len(q[i])
    BY DEF QueuesHold
  <2>2. Lists(NULL, Queues, Tasks, q, first, last, next, prev, home)
    BY DEF QueuesHold
  <2>3. Along(counter[i], first[i], next) = q[i]
    BY <2>1, <2>2, ListsWalk
  <2> QED
    BY <2>3, Zenon DEF Walk, Along
<1> QED
  BY <1>1, <1>2

(* ... and after it. *)
LEMMA QueueWalkNext ==
    ASSUME NEW q, QueuesHold(q)'
    PROVE  [i \in Queues |-> Walk(i)]' = q
<1>1. q \in [Queues -> Seq(Tasks)]
  BY DEF QueuesHold, Lists
<1>2. ASSUME NEW i \in Queues PROVE Walk(i)' = q[i]
  <2>1. counter'[i] = Len(q[i])
    BY DEF QueuesHold
  <2>2. Lists(NULL, Queues, Tasks, q, first', last', next', prev', home')
    BY DEF QueuesHold
  <2>3. Along(counter'[i], first'[i], next') = q[i]
    BY <2>1, <2>2, ListsWalk
  <2> QED
    BY <2>3, Zenon DEF Walk, Along
<1> QED
  BY <1>1, <1>2

(* A step of the queues is a step of TaskQueue. *)
LEMMA QueueStep ==
    QueuesInv /\ [Next]_vars => [Abstract!Next]_([i \in Queues |-> Walk(i)])
<1> DEFINE w == [i \in Queues |-> Walk(i)]
<1> SUFFICES ASSUME QueuesInv, [Next]_vars PROVE [Abstract!Next]_w
  OBVIOUS
<1>1. PICK q \in [Queues -> Seq(Tasks)] : QueuesHold(q)
  BY DEF QueuesInv
<1>2. w = q
  BY <1>1, QueueWalk
<1>3. CASE UNCHANGED vars
  <2>1. QueuesHold(q)'
    BY <1>1, <1>3 DEF QueuesHold, vars
  <2> QED
    BY <1>2, <2>1, QueueWalkNext
<1>4. ASSUME NEW t \in Tasks, NEW i \in Queues, _add_to_queue(t, i) PROVE Abstract!Add(t, i)
  <2>1. w' = [q EXCEPT ![i] = Append(@, t)]
    BY <1>1, <1>4, AddAppends, QueueWalkNext
  <2>2. home[t] = NULL
    BY <1>4 DEF _add_to_queue
  <2>3. ASSUME NEW j \in Queues, NEW k \in DOMAIN q[j] PROVE q[j][k] # t
    <3>1. k \in 1..Len(q[j])
      OBVIOUS
    <3>2. home[q[j][k]] = j
      BY <1>1, <3>1 DEF QueuesHold, Lists
    <3> QED
      BY <2>2, <3>2, NullAssumption
  <2> HIDE DEF w
  <2>4. /\ \A j \in Queues : ~(t \in {w[j][k] : k \in DOMAIN w[j]})
        /\ w' = [w EXCEPT ![i] = Append(w[i], t)]
    BY <1>2, <2>1, <2>3
  <2> QED
    BY <2>4 DEF w, Abstract!Add, Abstract!In, Abstract!ToSet
<1>5. ASSUME NEW t \in Tasks, NEW i \in Queues, _remove_from_queue(t, i) PROVE Abstract!Delete(t, i)
  <2>1. PICK k \in 1..Len(q[i]) : /\ q[i][k] = t
                                  /\ QueuesHold([q EXCEPT ![i] = Without(@, k)])'
    BY <1>1, <1>5, RemoveRemoves
  <2>2. w' = [q EXCEPT ![i] = Without(@, k)]
    BY <2>1, QueueWalkNext
  <2>3. k \in DOMAIN q[i]
    OBVIOUS
  <2> HIDE DEF w
  <2>4. \E m \in DOMAIN w[i] : /\ w[i][m] = t
                              /\ w' = [w EXCEPT ![i] = Without(w[i], m)]
    BY <1>2, <2>1, <2>2, <2>3
  <2> QED
    BY <2>4 DEF w, Without, Abstract!Delete, Abstract!RemoveAt
<1>6. CASE Next
  BY <1>4, <1>5, <1>6 DEF Next, Abstract!Next
<1> QED
  BY <1>3, <1>6

(* The scheduler's linked queues implement sequences: adding a task appends it to
   its queue, removing one takes it out and leaves the others in their order. *)
THEOREM RefinesQueues == Spec => ImplementsQueues
<1>1. Init => Abstract!Init
  BY InitQueues, QueueWalk DEF Abstract!Init
<1> QED
  BY <1>1, QueueStep, QueuesSafe, PTL DEF Spec, ImplementsQueues, Abstract!Spec
-----------------------------------------------------------------------------
(* The sibling lists of the task tree *)

(* q is what the sibling lists hold.  There is no counter, and a freed TCB keeps
   its links. *)
TreeHolds(q) ==
    Lists(NULL, Parents, Tasks, q, first_child, last_child, next_sibling, prev_sibling, parent)

TreeInv == \E q \in [Parents -> Seq(Tasks)] : TreeHolds(q)

(* _add_child appends. *)
LEMMA AddChildAppends ==
    ASSUME NEW q, TreeHolds(q), NEW p \in Parents, NEW c \in Tasks, Tree!_add_child(p, c)
    PROVE  TreeHolds([q EXCEPT ![p] = Append(@, c)])'
<1>1. Lists(NULL, Parents, Tasks, q, first_child, last_child, next_sibling, prev_sibling, parent)
  BY DEF TreeHolds
<1>2. /\ parent[c] = NULL
      /\ last_child' = [last_child EXCEPT ![p] = c] /\ parent' = [parent EXCEPT ![c] = p]
  BY DEF Tree!_add_child
<1>3. /\ first_child' = IF first_child[p] = NULL THEN [first_child EXCEPT ![p] = c] ELSE first_child
      /\ next_sibling' = IF first_child[p] = NULL THEN [next_sibling EXCEPT ![c] = NULL]
                         ELSE [next_sibling EXCEPT ![last_child[p]] = c, ![c] = NULL]
      /\ prev_sibling' = IF first_child[p] = NULL THEN [prev_sibling EXCEPT ![c] = NULL]
                         ELSE [prev_sibling EXCEPT ![c] = last_child[p]]
  BY DEF Tree!_add_child
<1> DEFINE q2 == [q EXCEPT ![p] = Append(@, c)]
<1>4. Lists(NULL, Parents, Tasks, q2, first_child', last_child', next_sibling', prev_sibling', parent')
  <2>1. /\ first_child \in [Parents -> Tasks \cup {NULL}] /\ last_child \in [Parents -> Tasks \cup {NULL}]
        /\ next_sibling \in [Tasks -> Tasks \cup {NULL}] /\ prev_sibling \in [Tasks -> Tasks \cup {NULL}]
    BY <1>1 DEF Lists
  <2>2. Links(NULL, Parents, Tasks, p, c, first_child, last_child, next_sibling, prev_sibling,
              first_child', last_child', next_sibling', prev_sibling')
    BY <1>2, <1>3, <2>1 DEF Links
  <2>3. Lists(NULL, Parents, Tasks, q2, first_child', last_child', next_sibling', prev_sibling',
              [parent EXCEPT ![c] = p])
    BY <1>1, <1>2, <2>2, LinkTail, NullAssumption, ParentsAssumption
  <2> QED
    BY <1>2, <2>3
<1> QED
  BY <1>4 DEF TreeHolds

(* _remove_child takes the child out of the list of its parent. *)
LEMMA RemoveChildRemoves ==
    ASSUME NEW q, TreeHolds(q), NEW c \in Tasks, Tree!_remove_child(c), NEW p, p = parent[c]
    PROVE  /\ p \in Parents
           /\ \E k \in 1..Len(q[p]) : /\ q[p][k] = c
                                      /\ TreeHolds([q EXCEPT ![p] = Without(@, k)])'
<1> DEFINE n == Len(q[p])
<1>1. Lists(NULL, Parents, Tasks, q, first_child, last_child, next_sibling, prev_sibling, parent)
  BY DEF TreeHolds
<1>2. /\ p # NULL
      /\ parent' = [parent EXCEPT ![c] = NULL]
      /\ \/ Tree!remove_head(p, c) \/ Tree!remove_only(p, c)
         \/ Tree!remove_tail(p, c) \/ Tree!remove_inner(p, c)
  BY DEF Tree!_remove_child
<1>3. /\ q \in [Parents -> Seq(Tasks)]
      /\ first_child \in [Parents -> Tasks \cup {NULL}] /\ last_child \in [Parents -> Tasks \cup {NULL}]
      /\ next_sibling \in [Tasks -> Tasks \cup {NULL}] /\ prev_sibling \in [Tasks -> Tasks \cup {NULL}]
      /\ parent \in [Tasks -> Parents \cup {NULL}]
  BY <1>1 DEF Lists
<1>4. p \in Parents
  BY <1>2, <1>3
<1>5. PICK k \in 1..n : q[p][k] = c
  BY <1>1, <1>2 DEF Lists
<1>6. /\ n \in Nat /\ k \in 1..n
      /\ first_child[p] = q[p][1] /\ last_child[p] = q[p][n]
      /\ \A b \in 1..n : /\ q[p][b] \in Tasks /\ q[p][b] # NULL
                         /\ q[p][b] = c => b = k
  BY <1>1, <1>3, <1>4, <1>5, NullAssumption DEF Lists
<1>7. /\ next_sibling[c] = IF k = n THEN NULL ELSE q[p][k + 1]
      /\ prev_sibling[c] = IF k = 1 THEN NULL ELSE q[p][k - 1]
  BY <1>1, <1>4, <1>5 DEF Lists
<1> HIDE DEF n
<1>8. /\ prev_sibling[c] = NULL <=> k = 1
      /\ next_sibling[c] = NULL <=> k = n
      /\ next_sibling[c] # c /\ prev_sibling[c] # c
      /\ next_sibling[c] # NULL /\ prev_sibling[c] # NULL => next_sibling[c] # prev_sibling[c]
  <2>1. /\ k # n => k + 1 \in 1..n
        /\ k # 1 => k - 1 \in 1..n
        /\ 1 \in 1..n /\ n \in 1..n
    BY <1>6
  <2>2. \A a, b \in 1..n : q[p][a] = q[p][b] => a = b
    BY <1>1, <1>4 DEF Lists, n
  <2> QED
    BY <1>5, <1>6, <1>7, <2>1, <2>2, NullAssumption
<1>9. Unlinks(NULL, Parents, Tasks, p, c, first_child, last_child, next_sibling, prev_sibling,
              first_child', last_child', next_sibling', prev_sibling')
  <2>1. CASE Tree!remove_head(p, c)
    BY <1>3, <1>4, <1>8, <2>1, NullAssumption DEF Tree!remove_head, Unlinks
  <2>2. CASE Tree!remove_only(p, c)
    BY <1>3, <1>4, <1>8, <2>2, NullAssumption DEF Tree!remove_only, Unlinks
  <2>3. CASE Tree!remove_tail(p, c)
    BY <1>3, <1>4, <1>8, <2>3, NullAssumption DEF Tree!remove_tail, Unlinks
  <2>4. CASE Tree!remove_inner(p, c)
    BY <1>3, <1>4, <1>8, <2>4, NullAssumption DEF Tree!remove_inner, Unlinks
  <2> QED
    BY <1>2, <2>1, <2>2, <2>3, <2>4
<1>10. c = q[p][k] /\ k \in 1..Len(q[p])
  BY <1>5 DEF n
<1>11. Lists(NULL, Parents, Tasks, [q EXCEPT ![p] = Without(@, k)],
             first_child', last_child', next_sibling', prev_sibling', [parent EXCEPT ![c] = NULL])
  BY <1>1, <1>4, <1>9, <1>10, Unlink, NullAssumption, ParentsAssumption
<1> QED
  BY <1>2, <1>4, <1>10, <1>11 DEF TreeHolds

(* Init has no children. *)
LEMMA InitTree == Tree!Init => TreeHolds([p \in Parents |-> <<>>])
  BY NullAssumption DEF Tree!Init, TreeHolds, Lists

(* A step leaves the lists alone or adds or removes a child. *)
LEMMA NextTree == TreeInv /\ [Tree!Next]_(Tree!vars) => TreeInv'
<1> SUFFICES ASSUME TreeInv, [Tree!Next]_(Tree!vars) PROVE TreeInv'
  OBVIOUS
<1>1. PICK q \in [Parents -> Seq(Tasks)] : TreeHolds(q)
  BY DEF TreeInv
<1>2. CASE UNCHANGED Tree!vars
  <2>1. TreeHolds(q)'
    BY <1>1, <1>2 DEF TreeHolds, Tree!vars
  <2> QED
    BY <2>1 DEF TreeInv
<1>3. ASSUME NEW p \in Parents, NEW c \in Tasks, Tree!_add_child(p, c) PROVE TreeInv'
  <2>1. TreeHolds([q EXCEPT ![p] = Append(@, c)])'
    BY <1>1, <1>3, AddChildAppends
  <2>2. [q EXCEPT ![p] = Append(@, c)] \in [Parents -> Seq(Tasks)]
    BY <1>1, AppendProperties
  <2> QED
    BY <2>1, <2>2 DEF TreeInv
<1>4. ASSUME NEW c \in Tasks, Tree!_remove_child(c) PROVE TreeInv'
  <2>0. PICK p : p = parent[c]
    OBVIOUS
  <2>1. p \in Parents
    BY <1>1, <1>4, <2>0, RemoveChildRemoves
  <2>2. PICK k \in 1..Len(q[p]) : TreeHolds([q EXCEPT ![p] = Without(@, k)])'
    BY <1>1, <1>4, <2>0, RemoveChildRemoves
  <2>3. [q EXCEPT ![p] = Without(@, k)] \in [Parents -> Seq(Tasks)]
    BY <1>1, <2>1, WithoutFacts
  <2> QED
    BY <2>2, <2>3 DEF TreeInv
<1> QED
  BY <1>2, <1>3, <1>4 DEF Tree!Next

(* However children are born and reaped, first_child, last_child and the sibling
   links of a parent's living children spell a sequence. *)
THEOREM TreeSafe == Tree!Spec => []TreeInv
<1>1. Tree!Init => TreeInv
  <2>1. [p \in Parents |-> <<>>] \in [Parents -> Seq(Tasks)]
    OBVIOUS
  <2> QED
    BY <2>1, InitTree DEF TreeInv
<1> QED
  BY <1>1, NextTree, PTL DEF Tree!Spec

(* No living child is linked to a TCB that was freed: both links of a child lead
   to a child of the same parent. *)
THEOREM NoFreedSiblingSafe == Tree!Spec => []NoFreedSibling
<1>1. TreeInv => NoFreedSibling
  <2> SUFFICES ASSUME NEW q \in [Parents -> Seq(Tasks)], TreeHolds(q),
                      NEW c \in Tasks, parent[c] # NULL,
                      NEW d \in {prev_sibling[c], next_sibling[c]}, d # NULL
               PROVE  parent[d] = parent[c]
    BY DEF TreeInv, NoFreedSibling, Tree!NoFreedSibling
  <2> DEFINE p == parent[c]
             n == Len(q[p])
  <2>1. PICK k \in 1..n : q[p][k] = c
    BY DEF TreeHolds, Lists
  <2>2. p \in Parents /\ n \in Nat
    BY DEF TreeHolds, Lists
  <2>3. \A b \in 1..n :
          /\ parent[q[p][b]] = p
          /\ next_sibling[q[p][b]] = IF b = n THEN NULL ELSE q[p][b + 1]
          /\ prev_sibling[q[p][b]] = IF b = 1 THEN NULL ELSE q[p][b - 1]
    BY <2>2 DEF TreeHolds, Lists
  <2> HIDE DEF p, n
  <2>4. \E b \in 1..n : d = q[p][b]
    <3>1. CASE d = next_sibling[c]
      <4>1. d = q[p][k + 1] /\ k + 1 \in 1..n
        BY <2>1, <2>2, <2>3, <3>1
      <4> QED
        BY <4>1
    <3>2. CASE d = prev_sibling[c]
      <4>1. d = q[p][k - 1] /\ k - 1 \in 1..n
        BY <2>1, <2>2, <2>3, <3>2
      <4> QED
        BY <4>1
    <3> QED
      BY <3>1, <3>2
  <2> QED
    BY <2>3, <2>4 DEF p
<1> QED
  BY <1>1, TreeSafe, PTL

(* The loop of task_destroy visits what the list holds, before a step ... *)
LEMMA TreeWalk ==
    ASSUME NEW q, TreeHolds(q)
    PROVE  [p \in Parents |-> Tree!Siblings(p)] = q
<1>1. q \in [Parents -> Seq(Tasks)]
  BY DEF TreeHolds, Lists
<1>2. ASSUME NEW p \in Parents PROVE Tree!Siblings(p) = q[p]
  <2>1. Lists(NULL, Parents, Tasks, q, first_child, last_child, next_sibling, prev_sibling, parent)
    BY DEF TreeHolds
  <2>2. Cardinality(Tree!ChildrenOf(p)) = Len(q[p])
    BY <2>1, ListsCount, ParentsAssumption DEF Tree!ChildrenOf
  <2>3. Along(Cardinality(Tree!ChildrenOf(p)), first_child[p], next_sibling) = q[p]
    BY <2>1, <2>2, ListsWalk
  <2> QED
    BY <2>3, Zenon DEF Tree!Siblings, Along, Tree!Cardinality, Cardinality
<1> QED
  BY <1>1, <1>2

(* ... and after it. *)
LEMMA TreeWalkNext ==
    ASSUME NEW q, TreeHolds(q)'
    PROVE  [p \in Parents |-> Tree!Siblings(p)]' = q
<1>1. q \in [Parents -> Seq(Tasks)]
  BY DEF TreeHolds, Lists
<1>2. ASSUME NEW p \in Parents PROVE Tree!Siblings(p)' = q[p]
  <2>1. Lists(NULL, Parents, Tasks, q, first_child', last_child', next_sibling', prev_sibling', parent')
    BY DEF TreeHolds
  <2>2. Cardinality(Tree!ChildrenOf(p)') = Len(q[p])
    BY <2>1, ListsCount, ParentsAssumption DEF Tree!ChildrenOf
  <2>3. Along(Cardinality(Tree!ChildrenOf(p)'), first_child'[p], next_sibling') = q[p]
    BY <2>1, <2>2, ListsWalk
  <2> QED
    BY <2>3, Zenon DEF Tree!Siblings, Along, Tree!Cardinality, Cardinality
<1> QED
  BY <1>1, <1>2

(* A step of the sibling lists is a step of TaskQueue. *)
LEMMA TreeStep ==
    TreeInv /\ [Tree!Next]_(Tree!vars) => [Tree!Abstract!Next]_([p \in Parents |-> Tree!Siblings(p)])
<1> DEFINE w == [p \in Parents |-> Tree!Siblings(p)]
<1> SUFFICES ASSUME TreeInv, [Tree!Next]_(Tree!vars) PROVE [Tree!Abstract!Next]_w
  OBVIOUS
<1>1. PICK q \in [Parents -> Seq(Tasks)] : TreeHolds(q)
  BY DEF TreeInv
<1>2. w = q
  BY <1>1, TreeWalk
<1>3. CASE UNCHANGED Tree!vars
  <2>1. TreeHolds(q)'
    BY <1>1, <1>3 DEF TreeHolds, Tree!vars
  <2> QED
    BY <1>2, <2>1, TreeWalkNext
<1>4. ASSUME NEW p \in Parents, NEW c \in Tasks, Tree!_add_child(p, c) PROVE Tree!Abstract!Add(c, p)
  <2>1. w' = [q EXCEPT ![p] = Append(@, c)]
    BY <1>1, <1>4, AddChildAppends, TreeWalkNext
  <2>2. parent[c] = NULL
    BY <1>4 DEF Tree!_add_child
  <2>3. ASSUME NEW j \in Parents, NEW k \in DOMAIN q[j] PROVE q[j][k] # c
    <3>1. k \in 1..Len(q[j])
      OBVIOUS
    <3>2. parent[q[j][k]] = j
      BY <1>1, <3>1 DEF TreeHolds, Lists
    <3> QED
      BY <2>2, <3>2, ParentsAssumption
  <2> HIDE DEF w
  <2>4. /\ \A j \in Parents : ~(c \in {w[j][k] : k \in DOMAIN w[j]})
        /\ w' = [w EXCEPT ![p] = Append(w[p], c)]
    BY <1>2, <2>1, <2>3
  <2> QED
    BY <2>4 DEF w, Tree!Abstract!Add, Tree!Abstract!In, Tree!Abstract!ToSet
<1>5. ASSUME NEW c \in Tasks, Tree!_remove_child(c)
      PROVE  parent[c] \in Parents /\ Tree!Abstract!Delete(c, parent[c])
  <2>0. PICK p : p = parent[c]
    OBVIOUS
  <2>1. p \in Parents
    BY <1>1, <1>5, <2>0, RemoveChildRemoves
  <2>2. PICK k \in 1..Len(q[p]) : /\ q[p][k] = c
                                  /\ TreeHolds([q EXCEPT ![p] = Without(@, k)])'
    BY <1>1, <1>5, <2>0, RemoveChildRemoves
  <2>3. w' = [q EXCEPT ![p] = Without(@, k)]
    BY <2>2, TreeWalkNext
  <2>4. k \in DOMAIN q[p]
    BY <2>1
  <2> HIDE DEF w
  <2>5. \E m \in DOMAIN w[p] : /\ w[p][m] = c
                               /\ w' = [w EXCEPT ![p] = Without(w[p], m)]
    BY <1>2, <2>2, <2>3, <2>4
  <2>6. Tree!Abstract!Delete(c, p)
    BY <2>5 DEF w, Without, Tree!Abstract!Delete, Tree!Abstract!RemoveAt
  <2> QED
    BY <2>0, <2>1, <2>6
<1>6. CASE Tree!Next
  <2>1. \/ \E p \in Parents, c \in Tasks : Tree!_add_child(p, c)
        \/ \E c \in Tasks : Tree!_remove_child(c)
    BY <1>6 DEF Tree!Next
  <2> QED
    BY <1>4, <1>5, <2>1 DEF Tree!Abstract!Next
<1> QED
  BY <1>3, <1>6

(* The sibling lists implement sequences: task_new puts a child behind its
   siblings, _remove_child takes it out and leaves the others in their order. *)
THEOREM RefinesLists == Tree!Spec => ImplementsLists
<1>1. Tree!Init => Tree!Abstract!Init
  BY InitTree, TreeWalk DEF Tree!Abstract!Init
<1> QED
  BY <1>1, TreeStep, TreeSafe, PTL
     DEF Tree!Spec, ImplementsLists, Tree!ImplementsLists, Tree!Abstract!Spec
=============================================================================
