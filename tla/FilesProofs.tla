---------------------------- MODULE FilesProofs ----------------------------
(***************************************************************************)
(* Proofs about files, for any tree, any number of vnodes, descriptors and *)
(* tasks and any paths: the tree's links agree; and as long as programs do *)
(* not fork with files open or remove open directories, descriptors keep   *)
(* their files, positions stay inside them and nothing is lost.            *)
(***************************************************************************)
EXTENDS Files, SequenceLemmas

-----------------------------------------------------------------------------
(* The tree *)

(* The links of the vnodes nd, field by field; released memory has none. *)
First(nd) == [n \in Nodes |-> IF nd[n] = NULL THEN NULL ELSE nd[n].first]
Last(nd) == [n \in Nodes |-> IF nd[n] = NULL THEN NULL ELSE nd[n].last]
NextOf(nd) == [n \in Nodes |-> IF nd[n] = NULL THEN NULL ELSE nd[n].next]
Prev(nd) == [n \in Nodes |-> IF nd[n] = NULL THEN NULL ELSE nd[n].prev]
Parent(nd) == [n \in Nodes |-> IF nd[n] = NULL THEN NULL ELSE nd[n].parent]

(* q gives the children of every vnode, in order. *)
Spelled(nd, q) ==
    /\ Lists(NULL, Nodes, Nodes, q, First(nd), Last(nd), NextOf(nd), Prev(nd), Parent(nd))
    /\ \A n \in Nodes : First(nd)[n] = NULL => Last(nd)[n] = NULL
    /\ \A n \in Nodes : nd[n] = NULL => Len(q[n]) = 0

NodesTyped(nd) == nd \in [Nodes -> Vnodes \cup {NULL}] /\ \A n \in FixedNodes : nd[n] # NULL

(* Only the root has no parent, and children of one parent have different names. *)
Named(nd) ==
    /\ \A n \in Nodes : nd[n] # NULL => (n = "root" <=> nd[n].parent = NULL) /\ nd[n].parent # n
    /\ \A c, d \in Nodes :
          nd[c] # NULL /\ nd[d] # NULL /\ c # "root" /\ nd[c].parent = nd[d].parent =>
              (nd[c].name = nd[d].name => c = d)

(* What can be removed: the root or a file without children; what was made at
   boot stays, /dev because it always has a child. *)
Kinds(nd) ==
    /\ \A n \in Nodes : nd[n] # NULL /\ "remove" \in nd[n].op =>
          n = "root" \/ (nd[n].op \cap {"touch", "mkdir"} = {} /\ nd[n].first = NULL)
    /\ \A n \in FixedNodes \ {"root"} : "remove" \notin nd[n].op
    /\ \A n \in FixedNodes \ {"dev"} : "rmdir" \notin nd[n].op
    /\ nd["zero"].parent = "dev"

Tree(nd) == NodesTyped(nd) /\ Named(nd) /\ Kinds(nd) /\ \E q \in [Nodes -> Seq(Nodes)] : Spelled(nd, q)

-----------------------------------------------------------------------------
(* Descriptors *)

(* The descriptors of file n. *)
Of(fd, n) == {f \in FdPool : fd[f] # NULL /\ fd[f].node = n}

(* Descriptors have files, which count them; none is behind the end of its file. *)
FilesHeld(nd, fd) ==
    /\ \A f \in FdPool : fd[f] # NULL => nd[fd[f].node] # NULL
    /\ \A n \in Nodes : nd[n] # NULL => nd[n].active_fds = Cardinality(Of(fd, n))
    /\ \A f \in FdPool : fd[f] # NULL /\ nd[fd[f].node].v_type = "FILE" =>
          fd[f].position <= nd[fd[f].node].size

(* The tasks ts hold allocated descriptors, each in one place. *)
Owned(fd, us, ts) ==
    \A t \in ts : \A i \in Slots : us[t][i] \in FdPool =>
        /\ fd[us[t][i]] # NULL
        /\ \A u \in ts : \A j \in Slots : us[t][i] = us[u][j] => t = u /\ i = j

(* The default descriptors are only in their places. *)
Placed(us) ==
    \A t \in Tasks : \A i \in Slots :
        us[t][i] \in FdPool \cup {NULL} \/ (i \in 0..1 /\ us[t][i] = Defaults[i])

(* The descriptors of a task besides the default ones. *)
Busy(row) == {i \in Slots : i >= 2 /\ row[i] # NULL}

(* A task has the default descriptors, and its counter is exact, or will be when
   `extra' of them are left out. *)
Settled(row, count, extra) ==
    /\ row[0] = Defaults[0] /\ row[1] = Defaults[1]
    /\ count = Cardinality(Busy(row)) + extra

(* Every descriptor is held by one of the tasks ts. *)
Held(fd, us, ts) == \A f \in FdPool : fd[f] # NULL => \E t \in ts : \E i \in Slots : us[t][i] = f

Tidy(fd, us, ct, ts) == Held(fd, us, ts) /\ \A t \in ts : Settled(us[t], ct[t], 2)

(* What programs did does not spoil the descriptors, or the counters. *)
CalmIn(o) == o \cap {"shared", "open directory removed"} = {}
OrderlyIn(o) == o \cap {"default closed", "table full"} = {}
Calm == CalmIn(odd)
Orderly == OrderlyIn(odd)

(* The rows of used_fd. *)
Rows == [Slots -> FdPool \cup {Defaults[0], Defaults[1], NULL}]

(* The files, when programs have done what o says. *)
Core(nd, fd, us, ct, ts, o) ==
    /\ Tree(nd)
    /\ fd \in [FdPool -> Descriptors \cup {NULL}]
    /\ us \in [Tasks -> Rows] /\ Placed(us)
    /\ ct \in [Tasks -> 0..(Word - 1)]
    /\ init \in ts /\ ts \subseteq Tasks
    /\ CalmIn(o) => FilesHeld(nd, fd) /\ Owned(fd, us, ts)
    /\ CalmIn(o) /\ OrderlyIn(o) => Tidy(fd, us, ct, ts)

(* The inductive invariant. *)
FilesInv ==
    /\ Core(node, fds, used_fd, fd_ctr, tasks, odd)
    /\ fd_list \in FdLists
    /\ status \in {"running", "crash", "overwritten", "hang"}
    /\ Calm /\ "root removed" \notin odd => status # "crash"

-----------------------------------------------------------------------------
(* Linking and unlinking vnodes *)

(* Memory for vnodes, and its type. *)
IsMap(nd) == nd = [n \in Nodes |-> nd[n]]
NodesOk(nd) == nd \in [Nodes -> Vnodes \cup {NULL}]

(* w is r with other links. *)
Relinked(r, w, parent, first, last, prev, next) ==
    /\ w \in Vnodes
    /\ w.name = r.name /\ w.v_type = r.v_type /\ w.op = r.op /\ w.size = r.size
    /\ w.active_fds = r.active_fds
    /\ w.parent = parent /\ w.first = first /\ w.last = last /\ w.prev = prev /\ w.next = next

(* The constants. *)
LEMMA Constants ==
    /\ NULL \notin Nodes /\ NULL \notin FdPool /\ NULL \notin Vnodes /\ NULL \notin Descriptors
    /\ Word \in Nat /\ Word > 3 /\ MAX_FDS \in Nat /\ MAX_FDS > 2 /\ MAX_FDS < Word
    /\ FixedNodes \subseteq Nodes
  BY FilesAssumption DEF Nodes

(* An allocated vnode has its type. *)
LEMMA Allocated ==
    ASSUME NEW nd, NodesOk(nd), NEW n \in Nodes, nd[n] # NULL
    PROVE  nd[n] \in Vnodes
  BY DEF NodesOk

(* None of the links of a vnode changes. *)
LEMMA NoLink ==
    ASSUME NEW r \in Vnodes
    PROVE  Relinked(r, r, r.parent, r.first, r.last, r.prev, r.next)
  BY DEF Vnodes, Relinked

(* The links of a new child. *)
LEMMA ChildLinks ==
    ASSUME NEW r \in Vnodes, NEW a \in Nodes \cup {NULL}, NEW b \in Nodes \cup {NULL}
    PROVE  Relinked(r, [r EXCEPT !.parent = a, !.prev = b, !.next = NULL], a, r.first, r.last, b, NULL)
  BY DEF Vnodes, Relinked

(* The links of a parent to its first and last child. *)
LEMMA EndLinks ==
    ASSUME NEW r \in Vnodes, NEW a \in Nodes \cup {NULL}, NEW b \in Nodes \cup {NULL}
    PROVE  Relinked(r, [r EXCEPT !.first = a, !.last = b], r.parent, a, b, r.prev, r.next)
  BY DEF Vnodes, Relinked

(* The link to the first child. *)
LEMMA FirstLink ==
    ASSUME NEW r \in Vnodes, NEW a \in Nodes \cup {NULL}
    PROVE  Relinked(r, [r EXCEPT !.first = a], r.parent, a, r.last, r.prev, r.next)
  BY DEF Vnodes, Relinked

(* The link to the last child. *)
LEMMA LastLink ==
    ASSUME NEW r \in Vnodes, NEW a \in Nodes \cup {NULL}
    PROVE  Relinked(r, [r EXCEPT !.last = a], r.parent, r.first, a, r.prev, r.next)
  BY DEF Vnodes, Relinked

(* The link to the sibling before. *)
LEMMA PrevLink ==
    ASSUME NEW r \in Vnodes, NEW a \in Nodes \cup {NULL}
    PROVE  Relinked(r, [r EXCEPT !.prev = a], r.parent, r.first, r.last, a, r.next)
  BY DEF Vnodes, Relinked

(* The link to the sibling behind. *)
LEMMA NextLink ==
    ASSUME NEW r \in Vnodes, NEW a \in Nodes \cup {NULL}
    PROVE  Relinked(r, [r EXCEPT !.next = a], r.parent, r.first, r.last, r.prev, a)
  BY DEF Vnodes, Relinked

(* What becomes of vnode n when c is put behind the children of p. *)
AddedTo(nd, nd2, p, c, n) ==
    Relinked(nd[n], nd2[n],
             IF n = c THEN p ELSE nd[n].parent,
             IF n = p /\ nd[p].first = NULL THEN c ELSE nd[n].first,
             IF n = p THEN c ELSE nd[n].last,
             IF n # c THEN nd[n].prev ELSE IF nd[p].first = NULL THEN NULL ELSE nd[p].last,
             IF n = c THEN NULL
             ELSE IF nd[p].first # NULL /\ n = nd[p].last THEN c ELSE nd[n].next)

(* What namei_add_child does. *)
LEMMA AddFields ==
    ASSUME NEW nd, NodesOk(nd), NEW p \in Nodes, NEW c \in Nodes, p # c,
           nd[p] # NULL, nd[c] # NULL,
           NEW l, l = nd[p].last,
           nd[p].first # NULL => l \in Nodes /\ l # c /\ l # p /\ nd[l] # NULL,
           NEW nd2, nd2 = namei_add_child(nd, p, c)
    PROVE  /\ IsMap(nd2)
           /\ \A n \in Nodes : nd[n] = NULL => nd2[n] = NULL
           /\ \A n \in Nodes : nd[n] # NULL => AddedTo(nd, nd2, p, c, n)
<1>1. /\ nd[p] \in Vnodes /\ nd[c] \in Vnodes /\ IsMap(nd)
      /\ \A n \in Nodes : nd[n] # NULL => nd[n] \in Vnodes
  BY Allocated DEF NodesOk, IsMap
<1>2. CASE nd[p].first = NULL
  <2>1. nd2 = [nd EXCEPT ![c].parent = p, ![c].prev = NULL, ![c].next = NULL,
                         ![p].first = c, ![p].last = c]
    BY <1>2 DEF namei_add_child
  <2>2. /\ nd2[c] = [nd[c] EXCEPT !.parent = p, !.prev = NULL, !.next = NULL]
        /\ nd2[p] = [nd[p] EXCEPT !.first = c, !.last = c]
        /\ \A n \in Nodes : n # c /\ n # p => nd2[n] = nd[n]
        /\ IsMap(nd2)
    BY <1>1, <2>1 DEF IsMap
  <2>3. /\ Relinked(nd[c], nd2[c], p, nd[c].first, nd[c].last, NULL, NULL)
        /\ Relinked(nd[p], nd2[p], nd[p].parent, c, c, nd[p].prev, nd[p].next)
        /\ \A n \in Nodes : n # c /\ n # p /\ nd[n] # NULL =>
              Relinked(nd[n], nd2[n], nd[n].parent, nd[n].first, nd[n].last, nd[n].prev, nd[n].next)
    <3>1. Relinked(nd[c], nd2[c], p, nd[c].first, nd[c].last, NULL, NULL)
      <4>1. NULL \in Nodes \cup {NULL} /\ p \in Nodes \cup {NULL}
        OBVIOUS
      <4>2. Relinked(nd[c], [nd[c] EXCEPT !.parent = p, !.prev = NULL, !.next = NULL],
                     p, nd[c].first, nd[c].last, NULL, NULL)
        BY <1>1, <4>1, ChildLinks, Zenon
      <4> QED
        BY <2>2, <4>2, Zenon
    <3>2. Relinked(nd[p], nd2[p], nd[p].parent, c, c, nd[p].prev, nd[p].next)
      <4>1. c \in Nodes \cup {NULL}
        OBVIOUS
      <4>2. Relinked(nd[p], [nd[p] EXCEPT !.first = c, !.last = c], nd[p].parent, c, c,
                     nd[p].prev, nd[p].next)
        BY <1>1, <4>1, EndLinks, Zenon
      <4> QED
        BY <2>2, <4>2, Zenon
    <3>3. ASSUME NEW n \in Nodes, n # c, n # p, nd[n] # NULL
          PROVE  Relinked(nd[n], nd2[n], nd[n].parent, nd[n].first, nd[n].last, nd[n].prev, nd[n].next)
      BY <1>1, <2>2, <3>3, NoLink
    <3> QED
      BY <3>1, <3>2, <3>3
  <2>4. ASSUME NEW n \in Nodes, nd[n] # NULL PROVE AddedTo(nd, nd2, p, c, n)
    <3>1. CASE n = c
      BY <1>2, <2>3, <3>1 DEF AddedTo
    <3>2. CASE n = p
      BY <1>2, <2>3, <3>2 DEF AddedTo
    <3>3. CASE n # c /\ n # p
      BY <1>2, <2>3, <2>4, <3>3 DEF AddedTo
    <3> QED
      BY <3>1, <3>2, <3>3
  <2>5. \A n \in Nodes : nd[n] = NULL => nd2[n] = NULL
    BY <2>2
  <2> QED
    BY <2>2, <2>4, <2>5
<1>3. CASE nd[p].first # NULL
  <2>1. nd2 = [nd EXCEPT ![l].next = c, ![c].parent = p,
                         ![c].prev = l, ![c].next = NULL, ![p].last = c]
    BY <1>3 DEF namei_add_child
  <2>2. l \in Nodes /\ l # c /\ l # p /\ nd[l] # NULL /\ nd[l] \in Vnodes
    BY <1>1, <1>3
  <2>3. /\ nd2[c] = [nd[c] EXCEPT !.parent = p, !.prev = l, !.next = NULL]
        /\ nd2[p] = [nd[p] EXCEPT !.last = c]
        /\ nd2[l] = [nd[l] EXCEPT !.next = c]
        /\ \A n \in Nodes : n # c /\ n # p /\ n # l => nd2[n] = nd[n]
        /\ IsMap(nd2)
    BY <1>1, <2>1, <2>2 DEF IsMap
  <2>4. /\ Relinked(nd[c], nd2[c], p, nd[c].first, nd[c].last, l, NULL)
        /\ Relinked(nd[p], nd2[p], nd[p].parent, nd[p].first, c, nd[p].prev, nd[p].next)
        /\ Relinked(nd[l], nd2[l], nd[l].parent, nd[l].first, nd[l].last, nd[l].prev, c)
        /\ \A n \in Nodes : n # c /\ n # p /\ n # l /\ nd[n] # NULL =>
              Relinked(nd[n], nd2[n], nd[n].parent, nd[n].first, nd[n].last, nd[n].prev, nd[n].next)
    <3>1. Relinked(nd[c], nd2[c], p, nd[c].first, nd[c].last, l, NULL)
      <4>1. l \in Nodes \cup {NULL} /\ p \in Nodes \cup {NULL}
        BY <2>2
      <4>2. Relinked(nd[c], [nd[c] EXCEPT !.parent = p, !.prev = l, !.next = NULL],
                     p, nd[c].first, nd[c].last, l, NULL)
        BY <1>1, <4>1, ChildLinks, Zenon
      <4> QED
        BY <2>3, <4>2, Zenon
    <3>2. Relinked(nd[p], nd2[p], nd[p].parent, nd[p].first, c, nd[p].prev, nd[p].next)
      BY <1>1, <2>3, LastLink
    <3>3. Relinked(nd[l], nd2[l], nd[l].parent, nd[l].first, nd[l].last, nd[l].prev, c)
      BY <2>2, <2>3, NextLink
    <3>4. ASSUME NEW n \in Nodes, n # c, n # p, n # l, nd[n] # NULL
          PROVE  Relinked(nd[n], nd2[n], nd[n].parent, nd[n].first, nd[n].last, nd[n].prev, nd[n].next)
      BY <1>1, <2>3, <3>4, NoLink
    <3> QED
      BY <3>1, <3>2, <3>3, <3>4
  <2>5. ASSUME NEW n \in Nodes, nd[n] # NULL PROVE AddedTo(nd, nd2, p, c, n)
    <3>1. CASE n = c
      BY <1>3, <2>2, <2>4, <3>1 DEF AddedTo
    <3>2. CASE n = p
      BY <1>3, <2>2, <2>4, <3>2 DEF AddedTo
    <3>3. CASE n = l
      BY <1>3, <2>2, <2>4, <3>3 DEF AddedTo
    <3>4. CASE n # c /\ n # p /\ n # l
      BY <1>3, <2>4, <2>5, <3>4 DEF AddedTo
    <3> QED
      BY <3>1, <3>2, <3>3, <3>4
  <2>6. \A n \in Nodes : nd[n] = NULL => nd2[n] = NULL
    BY <2>2, <2>3
  <2> QED
    BY <2>3, <2>5, <2>6
<1> QED
  BY <1>2, <1>3

(* The last child is allocated, and not its own parent. *)
LEMMA LastChild ==
    ASSUME NEW nd, NodesTyped(nd), Named(nd), NEW q, Spelled(nd, q),
           NEW p \in Nodes, nd[p] # NULL, nd[p].first # NULL
    PROVE  /\ nd[p].last \in Nodes /\ nd[nd[p].last] # NULL /\ nd[p].last # p
<1>1. /\ First(nd)[p] = nd[p].first /\ Last(nd)[p] = nd[p].last
      /\ \A n \in Nodes : Parent(nd)[n] = IF nd[n] = NULL THEN NULL ELSE nd[n].parent
  BY DEF First, Last, Parent
<1>2. q[p] \in Seq(Nodes) /\ Len(q[p]) > 0
  BY <1>1 DEF Spelled, Lists
<1>3. Len(q[p]) \in 1..Len(q[p]) /\ q[p][Len(q[p])] \in Nodes
  BY <1>2
<1>4. Last(nd)[p] = q[p][Len(q[p])] /\ Parent(nd)[q[p][Len(q[p])]] = p
  BY <1>2, <1>3 DEF Spelled, Lists
<1> QED
  BY <1>1, <1>3, <1>4, Constants DEF Named

(* A new vnode: it has no links yet. *)
Fresh(r) ==
    /\ r \in Vnodes
    /\ r.parent = NULL /\ r.first = NULL /\ r.last = NULL /\ r.prev = NULL /\ r.next = NULL

(* What becomes of vnode n when the new vnode r is put behind the children of p. *)
NewIn(nd, nd2, p, c, r, n) ==
    /\ n # c => (nd2[n] = NULL <=> nd[n] = NULL)
    /\ n # c /\ nd[n] # NULL =>
          Relinked(nd[n], nd2[n], nd[n].parent,
                   IF n = p /\ nd[p].first = NULL THEN c ELSE nd[n].first,
                   IF n = p THEN c ELSE nd[n].last,
                   nd[n].prev,
                   IF nd[p].first # NULL /\ n = nd[p].last THEN c ELSE nd[n].next)
    /\ n = c => /\ nd2[n] # NULL
                /\ Relinked(r, nd2[n], p, NULL, NULL,
                            IF nd[p].first = NULL THEN NULL ELSE nd[p].last, NULL)

(* vfs_touch and vfs_mkdir: a vnode is made and linked. *)
LEMMA NewFields ==
    ASSUME NEW nd, NodesTyped(nd), Named(nd), NEW q, Spelled(nd, q),
           NEW p \in Nodes, nd[p] # NULL, NEW c \in Nodes, nd[c] = NULL, NEW r, Fresh(r),
           NEW nd2, nd2 = namei_add_child([nd EXCEPT ![c] = r], p, c)
    PROVE  IsMap(nd2) /\ \A n \in Nodes : NewIn(nd, nd2, p, c, r, n)
<1> DEFINE nd1 == [nd EXCEPT ![c] = r]
<1>1. /\ NodesOk(nd1) /\ nd1[c] = r /\ r # NULL /\ p # c
      /\ \A n \in Nodes : n # c => nd1[n] = nd[n]
  BY Constants DEF NodesTyped, NodesOk, Fresh
<1>2. nd2 = namei_add_child(nd1, p, c)
  OBVIOUS
<1> HIDE DEF nd1
<1>3. nd1[p] = nd[p] /\ nd1[p] # NULL
  BY <1>1
<1>4. nd1[p].first # NULL => /\ nd1[p].last \in Nodes /\ nd1[p].last # c /\ nd1[p].last # p
                             /\ nd1[nd1[p].last] # NULL
  BY <1>1, <1>3, LastChild
<1>5. /\ IsMap(nd2)
      /\ \A n \in Nodes : nd1[n] = NULL => nd2[n] = NULL
      /\ \A n \in Nodes : nd1[n] # NULL => AddedTo(nd1, nd2, p, c, n)
  BY <1>1, <1>2, <1>3, <1>4, AddFields
<1>6. ASSUME NEW n \in Nodes, n # c PROVE NewIn(nd, nd2, p, c, r, n)
  <2>1. nd1[n] = nd[n]
    BY <1>1, <1>6
  <2>2. CASE nd[n] = NULL
    BY <1>5, <1>6, <2>1, <2>2 DEF NewIn
  <2>3. CASE nd[n] # NULL
    <3>1. AddedTo(nd1, nd2, p, c, n)
      BY <1>5, <2>1, <2>3
    <3>2. Relinked(nd[n], nd2[n], nd[n].parent,
                   IF n = p /\ nd[p].first = NULL THEN c ELSE nd[n].first,
                   IF n = p THEN c ELSE nd[n].last,
                   nd[n].prev,
                   IF nd[p].first # NULL /\ n = nd[p].last THEN c ELSE nd[n].next)
      BY <1>3, <1>6, <2>1, <3>1 DEF AddedTo
    <3>3. nd2[n] # NULL
      BY <3>2, Constants DEF Relinked
    <3> QED
      BY <1>6, <2>3, <3>2, <3>3 DEF NewIn
  <2> QED
    BY <2>2, <2>3
<1>7. NewIn(nd, nd2, p, c, r, c)
  <2>1. AddedTo(nd1, nd2, p, c, c)
    BY <1>1, <1>5
  <2>2. Relinked(r, nd2[c], p, NULL, NULL, IF nd[p].first = NULL THEN NULL ELSE nd[p].last, NULL)
    BY <1>1, <1>3, <2>1 DEF AddedTo, Fresh
  <2>3. nd2[c] # NULL
    BY <2>2, Constants DEF Relinked
  <2> QED
    BY <2>2, <2>3 DEF NewIn
<1> QED
  BY <1>5, <1>6, <1>7

(* It is the last in the list of its parent. *)
LEMMA NewSpelled ==
    ASSUME NEW nd, NodesTyped(nd), Named(nd), NEW q, Spelled(nd, q),
           NEW p \in Nodes, nd[p] # NULL, NEW c \in Nodes, nd[c] = NULL, NEW r,
           NEW nd2, IsMap(nd2), \A n \in Nodes : NewIn(nd, nd2, p, c, r, n)
    PROVE  Spelled(nd2, [q EXCEPT ![p] = Append(@, c)])
<1> DEFINE q2 == [q EXCEPT ![p] = Append(@, c)]
<1>0. p # c
  OBVIOUS
<1>1. \A n \in Nodes :
        /\ First(nd2)[n] = IF n = p /\ First(nd)[p] = NULL THEN c ELSE First(nd)[n]
        /\ Last(nd2)[n] = IF n = p THEN c ELSE Last(nd)[n]
        /\ Prev(nd2)[n] = IF n # c THEN Prev(nd)[n]
                          ELSE IF First(nd)[p] = NULL THEN NULL ELSE Last(nd)[p]
        /\ NextOf(nd2)[n] = IF n = c THEN NULL
                            ELSE IF First(nd)[p] # NULL /\ n = Last(nd)[p] THEN c ELSE NextOf(nd)[n]
        /\ Parent(nd2)[n] = IF n = c THEN p ELSE Parent(nd)[n]
  <2> SUFFICES ASSUME NEW n \in Nodes
               PROVE  /\ First(nd2)[n] = IF n = p /\ First(nd)[p] = NULL THEN c ELSE First(nd)[n]
                      /\ Last(nd2)[n] = IF n = p THEN c ELSE Last(nd)[n]
                      /\ Prev(nd2)[n] = IF n # c THEN Prev(nd)[n]
                                        ELSE IF First(nd)[p] = NULL THEN NULL ELSE Last(nd)[p]
                      /\ NextOf(nd2)[n] = IF n = c THEN NULL
                                          ELSE IF First(nd)[p] # NULL /\ n = Last(nd)[p] THEN c ELSE NextOf(nd)[n]
                      /\ Parent(nd2)[n] = IF n = c THEN p ELSE Parent(nd)[n]
    OBVIOUS
  <2>1. First(nd)[p] = nd[p].first /\ Last(nd)[p] = nd[p].last
    BY DEF First, Last
  <2>2. NewIn(nd, nd2, p, c, r, n)
    OBVIOUS
  <2>3. CASE n = c
    <3>1. nd2[n] # NULL /\ Relinked(r, nd2[n], p, NULL, NULL, IF nd[p].first = NULL THEN NULL ELSE nd[p].last, NULL)
      BY <2>2, <2>3 DEF NewIn
    <3> QED
      BY <1>0, <2>1, <2>3, <3>1 DEF Relinked, First, Last, Prev, NextOf, Parent
  <2>4. CASE n # c /\ nd[n] = NULL
    <3>1. nd2[n] = NULL
      BY <2>2, <2>4 DEF NewIn
    <3>2. nd[p].first # NULL => n # nd[p].last
      BY <2>4, LastChild
    <3> QED
      BY <2>1, <2>4, <3>1, <3>2 DEF First, Last, Prev, NextOf, Parent
  <2>5. CASE n # c /\ nd[n] # NULL
    <3>1. /\ nd2[n] # NULL
          /\ Relinked(nd[n], nd2[n], nd[n].parent,
                   IF n = p /\ nd[p].first = NULL THEN c ELSE nd[n].first,
                   IF n = p THEN c ELSE nd[n].last,
                   nd[n].prev,
                   IF nd[p].first # NULL /\ n = nd[p].last THEN c ELSE nd[n].next)
      BY <2>2, <2>5 DEF NewIn
    <3> QED
      BY <2>1, <2>5, <3>1 DEF Relinked, First, Last, Prev, NextOf, Parent
  <2> QED
    BY <2>3, <2>4, <2>5
<1>2. /\ First(nd2) \in [Nodes -> Nodes \cup {NULL}] /\ Last(nd2) \in [Nodes -> Nodes \cup {NULL}]
      /\ NextOf(nd2) \in [Nodes -> Nodes \cup {NULL}] /\ Prev(nd2) \in [Nodes -> Nodes \cup {NULL}]
  <2>1. /\ First(nd) \in [Nodes -> Nodes \cup {NULL}] /\ Last(nd) \in [Nodes -> Nodes \cup {NULL}]
        /\ NextOf(nd) \in [Nodes -> Nodes \cup {NULL}] /\ Prev(nd) \in [Nodes -> Nodes \cup {NULL}]
    BY DEF Spelled, Lists
  <2>2. /\ DOMAIN First(nd2) = Nodes /\ DOMAIN Last(nd2) = Nodes
        /\ DOMAIN NextOf(nd2) = Nodes /\ DOMAIN Prev(nd2) = Nodes
    BY DEF First, Last, NextOf, Prev
  <2>3. /\ First(nd2) = [n \in Nodes |-> First(nd2)[n]] /\ Last(nd2) = [n \in Nodes |-> Last(nd2)[n]]
        /\ NextOf(nd2) = [n \in Nodes |-> NextOf(nd2)[n]] /\ Prev(nd2) = [n \in Nodes |-> Prev(nd2)[n]]
    BY DEF First, Last, NextOf, Prev
  <2> QED
    BY <1>1, <2>1, <2>3
<1>3. Links(NULL, Nodes, Nodes, p, c, First(nd), Last(nd), NextOf(nd), Prev(nd),
            First(nd2), Last(nd2), NextOf(nd2), Prev(nd2))
  BY <1>0, <1>1, <1>2 DEF Links
<1>4. Parent(nd)[c] = NULL
  BY DEF Parent
<1>5. Parent(nd2) = [Parent(nd) EXCEPT ![c] = p]
  <2>1. Parent(nd2) = [n \in Nodes |-> Parent(nd2)[n]] /\ DOMAIN Parent(nd) = Nodes
    BY DEF Parent
  <2> QED
    BY <1>1, <2>1
<1>6. Lists(NULL, Nodes, Nodes, q2, First(nd2), Last(nd2), NextOf(nd2), Prev(nd2), Parent(nd2))
  <2>1. Lists(NULL, Nodes, Nodes, q, First(nd), Last(nd), NextOf(nd), Prev(nd), Parent(nd))
    BY DEF Spelled
  <2>2. Lists(NULL, Nodes, Nodes, q2, First(nd2), Last(nd2), NextOf(nd2), Prev(nd2),
              [Parent(nd) EXCEPT ![c] = p])
    BY <1>3, <1>4, <2>1, LinkTail, Constants
  <2> QED
    BY <1>5, <2>2
<1>7. \A n \in Nodes : First(nd2)[n] = NULL => Last(nd2)[n] = NULL
  BY <1>1, Constants DEF Spelled
<1>8. \A n \in Nodes : nd2[n] = NULL => Len(q2[n]) = 0
  <2>1. \A n \in Nodes : nd2[n] = NULL => nd[n] = NULL /\ n # p
    BY <1>0 DEF NewIn
  <2>2. \A n \in Nodes : n # p => q2[n] = q[n]
    BY DEF Spelled, Lists
  <2> QED
    BY <2>1, <2>2 DEF Spelled
<1> QED
  BY <1>6, <1>7, <1>8 DEF Spelled

(* Vnode c is r, in the directory p. *)
NewBody(nd2, p, c, r) ==
    /\ NodesTyped(nd2) /\ nd2[c] # NULL /\ c \notin FixedNodes
    /\ nd2[c].name = r.name /\ nd2[c].v_type = r.v_type /\ nd2[c].op = r.op
    /\ nd2[c].size = r.size /\ nd2[c].active_fds = r.active_fds
    /\ nd2[c].parent = p /\ nd2[c].first = NULL

(* The other vnodes are what they were. *)
OldBody(nd, nd2, p, n) ==
    /\ nd2[n].name = nd[n].name /\ nd2[n].v_type = nd[n].v_type /\ nd2[n].op = nd[n].op
    /\ nd2[n].size = nd[n].size /\ nd2[n].active_fds = nd[n].active_fds
    /\ nd2[n].parent = nd[n].parent
    /\ n # p => nd2[n].first = nd[n].first
OldBodies(nd, nd2, p, c) ==
    \A n \in Nodes : n # c => /\ nd2[n] = NULL <=> nd[n] = NULL
                              /\ nd[n] # NULL => OldBody(nd, nd2, p, n)

(* That is so when c is made. *)
LEMMA NewBodies ==
    ASSUME NEW nd, NodesTyped(nd), NEW p \in Nodes, nd[p] # NULL,
           NEW c \in Nodes, nd[c] = NULL, NEW r,
           NEW nd2, IsMap(nd2), \A n \in Nodes : NewIn(nd, nd2, p, c, r, n)
    PROVE  NewBody(nd2, p, c, r) /\ OldBodies(nd, nd2, p, c)
<1>1. nd2[c] # NULL /\ nd2[c] \in Vnodes /\ Relinked(r, nd2[c], p, NULL, NULL, nd2[c].prev, NULL)
  BY DEF NewIn, Relinked
<1>2. ASSUME NEW n \in Nodes, n # c, nd[n] # NULL
      PROVE  nd2[n] \in Vnodes /\ OldBody(nd, nd2, p, n)
  <2>1. NewIn(nd, nd2, p, c, r, n)
    OBVIOUS
  <2> QED
    BY <1>2, <2>1 DEF NewIn, Relinked, OldBody
<1>3. \A n \in Nodes : n # c => (nd2[n] = NULL <=> nd[n] = NULL)
  BY DEF NewIn
<1>4. c \notin FixedNodes
  BY DEF NodesTyped
<1>5. \A n \in Nodes : nd2[n] \in Vnodes \cup {NULL}
  BY <1>1, <1>2, <1>3
<1>6. NodesTyped(nd2)
  <2>1. nd2 \in [Nodes -> Vnodes \cup {NULL}]
    BY <1>5 DEF IsMap
  <2>2. \A n \in FixedNodes : nd2[n] # NULL
    BY <1>3, <1>4, Constants DEF NodesTyped
  <2> QED
    BY <2>1, <2>2 DEF NodesTyped
<1> QED
  BY <1>1, <1>2, <1>3, <1>4, <1>6 DEF Relinked, NewBody, OldBodies

(* A vnode that may be made: what can be removed takes no children. *)
Sound(r) == Fresh(r) /\ ("remove" \in r.op => r.op \cap {"touch", "mkdir"} = {})

(* Names stay different when the new one is new. *)
LEMMA NewNamed ==
    ASSUME NEW nd, NodesTyped(nd), Named(nd), NEW p \in Nodes, NEW c \in Nodes, p # c, NEW r,
           \A d \in Nodes : nd[d] # NULL /\ nd[d].parent = p => nd[d].name # r.name,
           NEW nd2, NewBody(nd2, p, c, r), OldBodies(nd, nd2, p, c)
    PROVE  Named(nd2)
<1>1. /\ c # "root" /\ nd2[c].parent = p /\ nd2[c].name = r.name
      /\ \A n \in Nodes : n # c /\ nd2[n] # NULL =>
            nd[n] # NULL /\ nd2[n].parent = nd[n].parent /\ nd2[n].name = nd[n].name
  BY DEF NewBody, OldBodies, OldBody, FixedNodes
<1>2. ASSUME NEW n \in Nodes, nd2[n] # NULL
      PROVE  (n = "root" <=> nd2[n].parent = NULL) /\ nd2[n].parent # n
  <2>1. CASE n = c
    BY <1>1, <2>1, Constants
  <2>2. CASE n # c
    BY <1>1, <1>2, <2>2 DEF Named
  <2> QED
    BY <2>1, <2>2
<1>3. ASSUME NEW a \in Nodes, NEW b \in Nodes, nd2[a] # NULL, nd2[b] # NULL, a # "root",
             nd2[a].parent = nd2[b].parent, nd2[a].name = nd2[b].name
      PROVE  a = b
  <2>1. CASE a = c \/ b = c
    BY <1>1, <1>3, <2>1
  <2>2. CASE a # c /\ b # c
    BY <1>1, <1>3, <2>2 DEF Named
  <2> QED
    BY <2>1, <2>2
<1> QED
  BY <1>2, <1>3 DEF Named

(* Only a directory gets a child. *)
LEMMA NewKinds ==
    ASSUME NEW nd, NodesTyped(nd), Kinds(nd), NEW p \in Nodes, nd[p].op \cap {"touch", "mkdir"} # {},
           NEW c \in Nodes, p # c, NEW r, Sound(r),
           NEW nd2, NewBody(nd2, p, c, r), OldBodies(nd, nd2, p, c)
    PROVE  Kinds(nd2)
<1>1. /\ c \notin FixedNodes /\ nd2[c].op = r.op /\ nd2[c].first = NULL
      /\ \A n \in Nodes : n # c /\ nd2[n] # NULL =>
            /\ nd[n] # NULL /\ nd2[n].parent = nd[n].parent /\ nd2[n].op = nd[n].op
            /\ n # p => nd2[n].first = nd[n].first
  BY DEF NewBody, OldBodies, OldBody
<1>2. ASSUME NEW n \in Nodes, nd2[n] # NULL, "remove" \in nd2[n].op
      PROVE  n = "root" \/ (nd2[n].op \cap {"touch", "mkdir"} = {} /\ nd2[n].first = NULL)
  <2>1. CASE n = c
    BY <1>1, <1>2, <2>1 DEF Sound
  <2>2. CASE n # c
    <3>1. nd[n] # NULL /\ nd2[n].op = nd[n].op /\ (n # p => nd2[n].first = nd[n].first)
      BY <1>1, <1>2, <2>2
    <3>2. n = "root" \/ (nd[n].op \cap {"touch", "mkdir"} = {} /\ nd[n].first = NULL)
      BY <1>2, <3>1 DEF Kinds
    <3> QED
      BY <3>1, <3>2
  <2> QED
    BY <2>1, <2>2
<1>3. \A n \in FixedNodes : n \in Nodes /\ n # c /\ nd2[n] # NULL
  BY <1>1, Constants DEF NewBody, NodesTyped
<1>4. \A n \in FixedNodes : nd2[n].op = nd[n].op /\ nd2[n].parent = nd[n].parent
  BY <1>1, <1>3
<1> QED
  BY <1>2, <1>4 DEF Kinds, FixedNodes

(* Making a vnode with a name that is new in a directory that takes children
   keeps the tree a tree. *)
LEMMA NewTree ==
    ASSUME NEW nd, Tree(nd), NEW p \in Nodes, nd[p] # NULL, nd[p].op \cap {"touch", "mkdir"} # {},
           NEW c \in Nodes, nd[c] = NULL, NEW r, Sound(r),
           \A d \in Nodes : nd[d] # NULL /\ nd[d].parent = p => nd[d].name # r.name,
           NEW nd2, nd2 = namei_add_child([nd EXCEPT ![c] = r], p, c)
    PROVE  Tree(nd2) /\ NewBody(nd2, p, c, r) /\ OldBodies(nd, nd2, p, c)
<1>1. NodesTyped(nd) /\ Named(nd) /\ Kinds(nd) /\ p # c
  BY DEF Tree
<1>2. PICK q \in [Nodes -> Seq(Nodes)] : Spelled(nd, q)
  BY DEF Tree
<1>3. IsMap(nd2) /\ \A n \in Nodes : NewIn(nd, nd2, p, c, r, n)
  BY <1>1, <1>2, NewFields DEF Sound
<1>4. Spelled(nd2, [q EXCEPT ![p] = Append(@, c)])
  BY <1>1, <1>2, <1>3, NewSpelled
<1>5. [q EXCEPT ![p] = Append(@, c)] \in [Nodes -> Seq(Nodes)]
  BY <1>2, AppendProperties
<1>6. NewBody(nd2, p, c, r) /\ OldBodies(nd, nd2, p, c)
  BY <1>1, <1>3, NewBodies
<1>7. Named(nd2)
  BY <1>1, <1>6, NewNamed
<1>8. Kinds(nd2)
  BY <1>1, <1>6, NewKinds
<1>9. NodesTyped(nd2)
  BY <1>6 DEF NewBody
<1> QED
  BY <1>4, <1>5, <1>6, <1>7, <1>8, <1>9 DEF Tree

-----------------------------------------------------------------------------
(* Removing a vnode *)

(* c is unlinked and released; it has no children. *)
GoneFrom(nd, nd2, p, c, n) ==
    Relinked(nd[n], nd2[n], nd[n].parent,
             IF n = p /\ nd[c].prev = NULL THEN nd[c].next ELSE nd[n].first,
             IF n = p /\ nd[c].next = NULL THEN nd[c].prev ELSE nd[n].last,
             IF n = nd[c].next THEN nd[c].prev ELSE nd[n].prev,
             IF n = nd[c].prev THEN nd[c].next ELSE nd[n].next)

(* The parent and the siblings of c. *)
Between(nd, c, p, a, b) ==
    /\ p = nd[c].parent /\ p \in Nodes /\ nd[p] # NULL /\ p # c
    /\ a = nd[c].prev /\ b = nd[c].next
    /\ a # NULL => a \in Nodes /\ nd[a] # NULL /\ a # c /\ a # p
    /\ b # NULL => b \in Nodes /\ nd[b] # NULL /\ b # c /\ b # p
    /\ a # NULL /\ b # NULL => a # b

(* namei_remove_child and kfree. *)
Released(nd, c) == [namei_remove_child(nd, c) EXCEPT ![c] = NULL]

(* What they do. *)
LEMMA GoneFields ==
    ASSUME NEW nd, NodesOk(nd), NEW c \in Nodes, nd[c] # NULL,
           NEW p, NEW a, NEW b, Between(nd, c, p, a, b),
           NEW nd2, nd2 = Released(nd, c)
    PROVE  /\ IsMap(nd2) /\ nd2[c] = NULL
           /\ \A n \in Nodes : nd[n] = NULL => nd2[n] = NULL
           /\ \A n \in Nodes : n # c /\ nd[n] # NULL => GoneFrom(nd, nd2, p, c, n)
<1>0. /\ p = nd[c].parent /\ p \in Nodes /\ nd[p] # NULL /\ p # c
      /\ a = nd[c].prev /\ b = nd[c].next
      /\ a # NULL => a \in Nodes /\ nd[a] # NULL /\ a # c /\ a # p
      /\ b # NULL => b \in Nodes /\ nd[b] # NULL /\ b # c /\ b # p
      /\ a # NULL /\ b # NULL => a # b
  BY DEF Between
<1> USE <1>0
<1>1. /\ nd[p] \in Vnodes /\ IsMap(nd)
      /\ \A n \in Nodes : nd[n] # NULL => nd[n] \in Vnodes
  BY Allocated DEF NodesOk, IsMap
<1> DEFINE m == namei_remove_child(nd, c)
<1> USE DEF Released
<1>2. CASE a = NULL /\ b # NULL
  <2>1. m = [nd EXCEPT ![p].first = b, ![b].prev = NULL]
    BY <1>2 DEF namei_remove_child
  <2>2. /\ IsMap(nd2) /\ nd2[c] = NULL
        /\ nd2[p] = [nd[p] EXCEPT !.first = b]
        /\ nd2[b] = [nd[b] EXCEPT !.prev = NULL]
        /\ \A n \in Nodes : n # c /\ n # p /\ n # b => nd2[n] = nd[n]
    BY <1>1, <1>2, <2>1 DEF IsMap
  <2> HIDE DEF m
  <2>3. Relinked(nd[p], nd2[p], nd[p].parent, b, nd[p].last, nd[p].prev, nd[p].next)
    BY <1>1, <1>2, <2>2, FirstLink
  <2>4. Relinked(nd[b], nd2[b], nd[b].parent, nd[b].first, nd[b].last, NULL, nd[b].next)
    BY <1>1, <1>2, <2>2, PrevLink
  <2>5. ASSUME NEW n \in Nodes, n # c, nd[n] # NULL PROVE GoneFrom(nd, nd2, p, c, n)
    <3>1. CASE n = p
      BY <1>2, <2>3, <2>5, <3>1, Constants DEF GoneFrom
    <3>2. CASE n = b
      BY <1>2, <2>4, <2>5, <3>2, Constants DEF GoneFrom
    <3>3. CASE n # p /\ n # b
      <4>1. Relinked(nd[n], nd2[n], nd[n].parent, nd[n].first, nd[n].last, nd[n].prev, nd[n].next)
        BY <1>1, <2>2, <2>5, <3>3, NoLink
      <4> QED
        BY <1>2, <2>5, <3>3, <4>1, Constants DEF GoneFrom
    <3> QED
      BY <3>1, <3>2, <3>3
  <2>6. \A n \in Nodes : nd[n] = NULL => nd2[n] = NULL
    BY <1>2, <2>2
  <2> QED
    BY <2>2, <2>5, <2>6
<1>3. CASE a = NULL /\ b = NULL
  <2>1. m = [nd EXCEPT ![p].first = NULL, ![p].last = NULL]
    BY <1>3 DEF namei_remove_child
  <2>2. /\ IsMap(nd2) /\ nd2[c] = NULL
        /\ nd2[p] = [nd[p] EXCEPT !.first = NULL, !.last = NULL]
        /\ \A n \in Nodes : n # c /\ n # p => nd2[n] = nd[n]
    BY <1>1, <1>3, <2>1 DEF IsMap
  <2> HIDE DEF m
  <2>3. Relinked(nd[p], nd2[p], nd[p].parent, NULL, NULL, nd[p].prev, nd[p].next)
    <3>1. Relinked(nd[p], [nd[p] EXCEPT !.first = NULL, !.last = NULL],
                   nd[p].parent, NULL, NULL, nd[p].prev, nd[p].next)
      BY <1>1, EndLinks, Zenon
    <3> QED
      BY <2>2, <3>1, Zenon
  <2>5. ASSUME NEW n \in Nodes, n # c, nd[n] # NULL PROVE GoneFrom(nd, nd2, p, c, n)
    <3>1. CASE n = p
      BY <1>3, <2>3, <2>5, <3>1, Constants DEF GoneFrom
    <3>3. CASE n # p
      <4>1. Relinked(nd[n], nd2[n], nd[n].parent, nd[n].first, nd[n].last, nd[n].prev, nd[n].next)
        BY <1>1, <2>2, <2>5, <3>3, NoLink
      <4> QED
        BY <1>3, <2>5, <3>3, <4>1, Constants DEF GoneFrom
    <3> QED
      BY <3>1, <3>3
  <2>6. \A n \in Nodes : nd[n] = NULL => nd2[n] = NULL
    BY <1>3, <2>2
  <2> QED
    BY <2>2, <2>5, <2>6
<1>4. CASE a # NULL /\ b = NULL
  <2>1. m = [nd EXCEPT ![p].last = a, ![a].next = NULL]
    BY <1>4 DEF namei_remove_child
  <2>2. /\ IsMap(nd2) /\ nd2[c] = NULL
        /\ nd2[p] = [nd[p] EXCEPT !.last = a]
        /\ nd2[a] = [nd[a] EXCEPT !.next = NULL]
        /\ \A n \in Nodes : n # c /\ n # p /\ n # a => nd2[n] = nd[n]
    BY <1>1, <1>4, <2>1 DEF IsMap
  <2> HIDE DEF m
  <2>3. Relinked(nd[p], nd2[p], nd[p].parent, nd[p].first, a, nd[p].prev, nd[p].next)
    BY <1>1, <1>4, <2>2, LastLink
  <2>4. Relinked(nd[a], nd2[a], nd[a].parent, nd[a].first, nd[a].last, nd[a].prev, NULL)
    BY <1>1, <1>4, <2>2, NextLink
  <2>5. ASSUME NEW n \in Nodes, n # c, nd[n] # NULL PROVE GoneFrom(nd, nd2, p, c, n)
    <3>1. CASE n = p
      BY <1>4, <2>3, <2>5, <3>1, Constants DEF GoneFrom
    <3>2. CASE n = a
      BY <1>4, <2>4, <2>5, <3>2, Constants DEF GoneFrom
    <3>3. CASE n # p /\ n # a
      <4>1. Relinked(nd[n], nd2[n], nd[n].parent, nd[n].first, nd[n].last, nd[n].prev, nd[n].next)
        BY <1>1, <2>2, <2>5, <3>3, NoLink
      <4> QED
        BY <1>4, <2>5, <3>3, <4>1, Constants DEF GoneFrom
    <3> QED
      BY <3>1, <3>2, <3>3
  <2>6. \A n \in Nodes : nd[n] = NULL => nd2[n] = NULL
    BY <1>4, <2>2
  <2> QED
    BY <2>2, <2>5, <2>6
<1>5. CASE a # NULL /\ b # NULL
  <2>1. m = [nd EXCEPT ![a].next = b, ![b].prev = a]
    BY <1>5 DEF namei_remove_child
  <2>2. /\ IsMap(nd2) /\ nd2[c] = NULL
        /\ nd2[a] = [nd[a] EXCEPT !.next = b]
        /\ nd2[b] = [nd[b] EXCEPT !.prev = a]
        /\ \A n \in Nodes : n # c /\ n # a /\ n # b => nd2[n] = nd[n]
    BY <1>1, <1>5, <2>1 DEF IsMap
  <2> HIDE DEF m
  <2>3. Relinked(nd[a], nd2[a], nd[a].parent, nd[a].first, nd[a].last, nd[a].prev, b)
    BY <1>1, <1>5, <2>2, NextLink
  <2>4. Relinked(nd[b], nd2[b], nd[b].parent, nd[b].first, nd[b].last, a, nd[b].next)
    BY <1>1, <1>5, <2>2, PrevLink
  <2>5. ASSUME NEW n \in Nodes, n # c, nd[n] # NULL PROVE GoneFrom(nd, nd2, p, c, n)
    <3>1. CASE n = a
      BY <1>5, <2>3, <2>5, <3>1, Constants DEF GoneFrom
    <3>2. CASE n = b
      BY <1>5, <2>4, <2>5, <3>2, Constants DEF GoneFrom
    <3>3. CASE n # a /\ n # b
      <4>1. Relinked(nd[n], nd2[n], nd[n].parent, nd[n].first, nd[n].last, nd[n].prev, nd[n].next)
        BY <1>1, <2>2, <2>5, <3>3, NoLink
      <4> QED
        BY <1>5, <2>5, <3>3, <4>1, Constants DEF GoneFrom
    <3> QED
      BY <3>1, <3>2, <3>3
  <2>6. \A n \in Nodes : nd[n] = NULL => nd2[n] = NULL
    BY <1>5, <2>2
  <2> QED
    BY <2>2, <2>5, <2>6
<1> QED
  BY <1>2, <1>3, <1>4, <1>5

(* The children of p, one after the other. *)
LEMMA ChildrenOf ==
    ASSUME NEW nd, NEW q, Spelled(nd, q), NEW p \in Nodes
    PROVE  /\ q[p] \in Seq(Nodes) /\ Len(q[p]) \in Nat
           /\ Len(q[p]) = 0 => First(nd)[p] = NULL /\ Last(nd)[p] = NULL
           /\ Len(q[p]) > 0 => First(nd)[p] = q[p][1] /\ Last(nd)[p] = q[p][Len(q[p])]
           /\ \A j \in 1..Len(q[p]) :
                 /\ q[p][j] \in Nodes /\ Parent(nd)[q[p][j]] = p
                 /\ NextOf(nd)[q[p][j]] = IF j = Len(q[p]) THEN NULL ELSE q[p][j + 1]
                 /\ Prev(nd)[q[p][j]] = IF j = 1 THEN NULL ELSE q[p][j - 1]
                 /\ \A i \in 1..Len(q[p]) : q[p][i] = q[p][j] => i = j
<1>1. Lists(NULL, Nodes, Nodes, q, First(nd), Last(nd), NextOf(nd), Prev(nd), Parent(nd))
  BY DEF Spelled
<1>2. q[p] \in Seq(Nodes) /\ Len(q[p]) \in Nat
  BY <1>1 DEF Lists
<1>3. \A j \in 1..Len(q[p]) : q[p][j] \in Nodes
  BY <1>2
<1>4. \A j \in 1..Len(q[p]) :
        /\ Parent(nd)[q[p][j]] = p
        /\ NextOf(nd)[q[p][j]] = IF j = Len(q[p]) THEN NULL ELSE q[p][j + 1]
        /\ Prev(nd)[q[p][j]] = IF j = 1 THEN NULL ELSE q[p][j - 1]
        /\ \A i \in 1..Len(q[p]) : q[p][i] = q[p][j] => i = j
  BY <1>1, Zenon DEF Lists
<1>5. /\ Len(q[p]) = 0 => First(nd)[p] = NULL
      /\ Len(q[p]) > 0 => First(nd)[p] = q[p][1] /\ Last(nd)[p] = q[p][Len(q[p])]
  BY <1>1, Zenon DEF Lists
<1>6. First(nd)[p] = NULL => Last(nd)[p] = NULL
  BY DEF Spelled
<1> QED
  BY <1>2, <1>3, <1>4, <1>5, <1>6

(* A vnode with a parent is a child of it. *)
LEMMA ChildIn ==
    ASSUME NEW nd, NEW q, Spelled(nd, q), NEW c \in Nodes, NEW p, p = Parent(nd)[c], p # NULL
    PROVE  p \in Nodes /\ \E k \in 1..Len(q[p]) : q[p][k] = c
<1>1. Lists(NULL, Nodes, Nodes, q, First(nd), Last(nd), NextOf(nd), Prev(nd), Parent(nd))
  BY DEF Spelled
<1>2. p \in Nodes
  BY <1>1 DEF Lists
<1>3. \E k \in 1..Len(q[p]) : q[p][k] = c
  BY <1>1, Zenon DEF Lists
<1> QED
  BY <1>2, <1>3

(* c is in the list of p; the list of p is linked in its order. *)
Among(q, p, c) == \E k \in 1..Len(q[p]) : q[p][k] = c
Chained(nd, q, p) ==
    \A j \in 1..Len(q[p]) :
        /\ q[p][j] \in Nodes /\ Parent(nd)[q[p][j]] = p
        /\ NextOf(nd)[q[p][j]] = IF j = Len(q[p]) THEN NULL ELSE q[p][j + 1]
        /\ Prev(nd)[q[p][j]] = IF j = 1 THEN NULL ELSE q[p][j - 1]
        /\ \A i \in 1..Len(q[p]) : q[p][i] = q[p][j] => i = j

(* A vnode with a parent is in its list. *)
LEMMA ChildAmong ==
    ASSUME NEW nd, NEW q, Spelled(nd, q), NEW c \in Nodes, NEW p, p = Parent(nd)[c], p # NULL
    PROVE  Among(q, p, c)
<1>1. \E k \in 1..Len(q[p]) : q[p][k] = c
  BY ChildIn
<1> QED
  BY <1>1 DEF Among

(* Every list of children is linked in its order. *)
LEMMA ChildrenChained ==
    ASSUME NEW nd, NEW q, Spelled(nd, q), NEW p \in Nodes
    PROVE  Chained(nd, q, p)
<1>1. Lists(NULL, Nodes, Nodes, q, First(nd), Last(nd), NextOf(nd), Prev(nd), Parent(nd))
  BY DEF Spelled
<1>2. q[p] \in Seq(Nodes)
  BY <1>1 DEF Lists
<1>3. \A j \in 1..Len(q[p]) : q[p][j] \in Nodes
  BY <1>2
<1>4. \A j \in 1..Len(q[p]) :
        /\ Parent(nd)[q[p][j]] = p
        /\ NextOf(nd)[q[p][j]] = IF j = Len(q[p]) THEN NULL ELSE q[p][j + 1]
        /\ Prev(nd)[q[p][j]] = IF j = 1 THEN NULL ELSE q[p][j - 1]
        /\ \A i \in 1..Len(q[p]) : q[p][i] = q[p][j] => i = j
  BY <1>1, Zenon DEF Lists
<1> QED
  BY <1>3, <1>4, Zenon DEF Chained

(* A vnode other than the root is in the list of its parent, between its siblings. *)
LEMMA Siblings ==
    ASSUME NEW nd, NodesTyped(nd), Named(nd), NEW q, Spelled(nd, q),
           NEW c \in Nodes, nd[c] # NULL, c # "root",
           NEW p, p = nd[c].parent, NEW a, a = nd[c].prev, NEW b, b = nd[c].next
    PROVE  /\ p \in Nodes /\ nd[p] # NULL /\ p # c
           /\ a # NULL => a \in Nodes /\ nd[a] # NULL /\ a # c /\ a # p /\ nd[a].next = c
           /\ b # NULL => b \in Nodes /\ nd[b] # NULL /\ b # c /\ b # p /\ nd[b].prev = c
           /\ a # NULL /\ b # NULL => a # b
           /\ \E k \in 1..Len(q[p]) : q[p][k] = c
<1>1. /\ Parent(nd)[c] = p /\ Prev(nd)[c] = a /\ NextOf(nd)[c] = b
      /\ \A n \in Nodes : Parent(nd)[n] = IF nd[n] = NULL THEN NULL ELSE nd[n].parent
      /\ \A n \in Nodes : Prev(nd)[n] = IF nd[n] = NULL THEN NULL ELSE nd[n].prev
      /\ \A n \in Nodes : NextOf(nd)[n] = IF nd[n] = NULL THEN NULL ELSE nd[n].next
  BY DEF Parent, Prev, NextOf
<1>2. p # NULL /\ p # c
  BY DEF Named
<1>3. p \in Nodes
  BY <1>1, <1>2, ChildIn
<1>4. PICK k \in 1..Len(q[p]) : q[p][k] = c
  <2>1. Among(q, p, c)
    BY <1>1, <1>2, ChildAmong
  <2> QED
    BY <2>1 DEF Among
<1>5. q[p] \in Seq(Nodes) /\ Len(q[p]) \in Nat
  BY <1>3, ChildrenOf
<1>6. nd[p] # NULL
  BY <1>3, <1>4, <1>5 DEF Spelled
<1>7. \A j \in 1..Len(q[p]) :
        /\ q[p][j] \in Nodes /\ Parent(nd)[q[p][j]] = p
        /\ NextOf(nd)[q[p][j]] = IF j = Len(q[p]) THEN NULL ELSE q[p][j + 1]
        /\ Prev(nd)[q[p][j]] = IF j = 1 THEN NULL ELSE q[p][j - 1]
        /\ \A i \in 1..Len(q[p]) : q[p][i] = q[p][j] => i = j
  <2>1. Chained(nd, q, p)
    BY <1>3, ChildrenChained
  <2> QED
    BY <2>1, Zenon DEF Chained
<1>8. \A n \in Nodes : Parent(nd)[n] = p => nd[n] # NULL /\ n # p
  BY <1>1, <1>2 DEF Named
<1>9. a # NULL => k - 1 \in 1..Len(q[p]) /\ a = q[p][k - 1] /\ k - 1 # Len(q[p]) /\ k - 1 + 1 = k
  BY <1>1, <1>4, <1>5, <1>7
<1>10. b # NULL => k + 1 \in 1..Len(q[p]) /\ b = q[p][k + 1] /\ k + 1 # 1 /\ k + 1 - 1 = k
  BY <1>1, <1>4, <1>5, <1>7
<1>11. a # NULL => a \in Nodes /\ nd[a] # NULL /\ a # c /\ a # p /\ nd[a].next = c
  <2>1. ASSUME a # NULL PROVE NextOf(nd)[a] = c /\ a # c /\ a \in Nodes /\ Parent(nd)[a] = p
    BY <1>4, <1>5, <1>7, <1>9, <2>1
  <2> QED
    BY <1>1, <1>8, <2>1
<1>12. b # NULL => b \in Nodes /\ nd[b] # NULL /\ b # c /\ b # p /\ nd[b].prev = c
  <2>1. ASSUME b # NULL PROVE Prev(nd)[b] = c /\ b # c /\ b \in Nodes /\ Parent(nd)[b] = p
    BY <1>4, <1>5, <1>7, <1>10, <2>1
  <2> QED
    BY <1>1, <1>8, <2>1
<1>13. a # NULL /\ b # NULL => a # b
  BY <1>4, <1>5, <1>7, <1>9, <1>10
<1> QED
  BY <1>2, <1>3, <1>4, <1>6, <1>11, <1>12, <1>13

(* c is gone, the others are what they were. *)
Gone(nd, nd2, p, c) ==
    /\ IsMap(nd2) /\ nd2[c] = NULL
    /\ \A n \in Nodes : n # c => (nd2[n] = NULL <=> nd[n] = NULL)
    /\ \A n \in Nodes : n # c /\ nd[n] # NULL => GoneFrom(nd, nd2, p, c, n)

(* That is what Released does. *)
LEMMA GoneIs ==
    ASSUME NEW nd, NodesTyped(nd), Named(nd), NEW q, Spelled(nd, q),
           NEW c \in Nodes, nd[c] # NULL, c # "root",
           NEW nd2, nd2 = Released(nd, c)
    PROVE  Gone(nd, nd2, nd[c].parent, c)
<1>0. PICK p, a, b : p = nd[c].parent /\ a = nd[c].prev /\ b = nd[c].next
  OBVIOUS
<1>1. Between(nd, c, p, a, b)
  BY <1>0, Siblings DEF Between
<1>2. NodesOk(nd)
  BY DEF NodesOk, NodesTyped
<1>3. /\ IsMap(nd2) /\ nd2[c] = NULL
      /\ \A n \in Nodes : nd[n] = NULL => nd2[n] = NULL
      /\ \A n \in Nodes : n # c /\ nd[n] # NULL => GoneFrom(nd, nd2, p, c, n)
  BY <1>1, <1>2, GoneFields
<1>4. \A n \in Nodes : n # c /\ nd[n] # NULL => nd2[n] # NULL
  BY <1>3, Constants DEF GoneFrom, Relinked
<1> QED
  BY <1>0, <1>3, <1>4 DEF Gone

(* It is taken out of the list of its parent. *)
LEMMA GoneSpelled ==
    ASSUME NEW nd, NodesTyped(nd), Named(nd), NEW q, Spelled(nd, q),
           NEW c \in Nodes, nd[c] # NULL, c # "root", nd[c].first = NULL,
           NEW p, p = nd[c].parent, NEW nd2, Gone(nd, nd2, p, c),
           NEW k \in 1..Len(q[p]), q[p][k] = c
    PROVE  Spelled(nd2, [q EXCEPT ![p] = Without(@, k)])
<1> DEFINE q2 == [q EXCEPT ![p] = Without(@, k)]
           a == nd[c].prev
           b == nd[c].next
<1>0. /\ p \in Nodes /\ nd[p] # NULL /\ p # c
      /\ a # NULL => a \in Nodes /\ nd[a] # NULL /\ a # c
      /\ b # NULL => b \in Nodes /\ nd[b] # NULL /\ b # c
  BY Siblings
<1>1. Prev(nd)[c] = a /\ NextOf(nd)[c] = b /\ First(nd)[c] = NULL /\ Last(nd)[c] = NULL
  BY DEF Prev, NextOf, First, Spelled
<1>2. /\ First(nd2)[c] = NULL /\ Last(nd2)[c] = NULL /\ Prev(nd2)[c] = NULL
      /\ NextOf(nd2)[c] = NULL /\ Parent(nd2)[c] = NULL
  BY DEF Gone, First, Last, Prev, NextOf, Parent
<1>3. ASSUME NEW n \in Nodes, n # c
      PROVE /\ First(nd2)[n] = IF n = p /\ a = NULL THEN b ELSE First(nd)[n]
            /\ Last(nd2)[n] = IF n = p /\ b = NULL THEN a ELSE Last(nd)[n]
            /\ Prev(nd2)[n] = IF n = b THEN a ELSE Prev(nd)[n]
            /\ NextOf(nd2)[n] = IF n = a THEN b ELSE NextOf(nd)[n]
            /\ Parent(nd2)[n] = Parent(nd)[n]
  <2>1. CASE nd[n] = NULL
    <3>1. nd2[n] = NULL /\ n # p /\ n # a /\ n # b
      BY <1>0, <1>3, <2>1, Constants DEF Gone
    <3> QED
      BY <2>1, <3>1 DEF First, Last, Prev, NextOf, Parent
  <2>2. CASE nd[n] # NULL
    <3>1. nd2[n] # NULL /\ GoneFrom(nd, nd2, p, c, n)
      BY <1>3, <2>2 DEF Gone
    <3> QED
      BY <2>2, <3>1 DEF GoneFrom, Relinked, First, Last, Prev, NextOf, Parent
  <2> QED
    BY <2>1, <2>2
<1>4. /\ First(nd2) \in [Nodes -> Nodes \cup {NULL}] /\ Last(nd2) \in [Nodes -> Nodes \cup {NULL}]
      /\ NextOf(nd2) \in [Nodes -> Nodes \cup {NULL}] /\ Prev(nd2) \in [Nodes -> Nodes \cup {NULL}]
  <2>1. /\ First(nd) \in [Nodes -> Nodes \cup {NULL}] /\ Last(nd) \in [Nodes -> Nodes \cup {NULL}]
        /\ NextOf(nd) \in [Nodes -> Nodes \cup {NULL}] /\ Prev(nd) \in [Nodes -> Nodes \cup {NULL}]
    BY DEF Spelled, Lists
  <2>2. /\ First(nd2) = [n \in Nodes |-> First(nd2)[n]] /\ Last(nd2) = [n \in Nodes |-> Last(nd2)[n]]
        /\ NextOf(nd2) = [n \in Nodes |-> NextOf(nd2)[n]] /\ Prev(nd2) = [n \in Nodes |-> Prev(nd2)[n]]
    BY DEF First, Last, NextOf, Prev
  <2>3. \A n \in Nodes : /\ First(nd2)[n] \in Nodes \cup {NULL} /\ Last(nd2)[n] \in Nodes \cup {NULL}
                         /\ NextOf(nd2)[n] \in Nodes \cup {NULL} /\ Prev(nd2)[n] \in Nodes \cup {NULL}
    BY <1>0, <1>2, <1>3, <2>1
  <2> QED
    BY <2>2, <2>3
<1>5. Unlinks(NULL, Nodes, Nodes, p, c, First(nd), Last(nd), NextOf(nd), Prev(nd),
              First(nd2), Last(nd2), NextOf(nd2), Prev(nd2))
  <2>1. \A n \in Nodes : n # p => First(nd2)[n] = First(nd)[n] /\ Last(nd2)[n] = Last(nd)[n]
    BY <1>1, <1>2, <1>3
  <2>2. /\ First(nd2)[p] = IF a = NULL THEN b ELSE First(nd)[p]
        /\ Last(nd2)[p] = IF b = NULL THEN a ELSE Last(nd)[p]
    BY <1>0, <1>3
  <2>3. \A n \in Nodes : n # c => /\ NextOf(nd2)[n] = IF n = a THEN b ELSE NextOf(nd)[n]
                                  /\ Prev(nd2)[n] = IF n = b THEN a ELSE Prev(nd)[n]
    BY <1>3
  <2> QED
    BY <1>1, <1>4, <2>1, <2>2, <2>3 DEF Unlinks
<1>6. Parent(nd2) = [Parent(nd) EXCEPT ![c] = NULL]
  <2>1. Parent(nd2) = [n \in Nodes |-> Parent(nd2)[n]] /\ DOMAIN Parent(nd) = Nodes
    BY DEF Parent
  <2>2. \A n \in Nodes : Parent(nd2)[n] = IF n = c THEN NULL ELSE Parent(nd)[n]
    BY <1>2, <1>3
  <2> QED
    BY <2>1, <2>2
<1>7. Lists(NULL, Nodes, Nodes, q2, First(nd2), Last(nd2), NextOf(nd2), Prev(nd2), Parent(nd2))
  <2>1. Lists(NULL, Nodes, Nodes, q, First(nd), Last(nd), NextOf(nd), Prev(nd), Parent(nd))
    BY DEF Spelled
  <2>2. Lists(NULL, Nodes, Nodes, q2, First(nd2), Last(nd2), NextOf(nd2), Prev(nd2),
              [Parent(nd) EXCEPT ![c] = NULL])
    BY <1>0, <1>5, <2>1, Unlink, Constants
  <2> QED
    BY <1>6, <2>2
<1>8. \A n \in Nodes : First(nd2)[n] = NULL => Last(nd2)[n] = NULL
  <2>1. \A n \in Nodes : First(nd)[n] = NULL => Last(nd)[n] = NULL
    BY DEF Spelled
  <2>2. First(nd2)[p] = NULL => Last(nd2)[p] = NULL
    <3>1. First(nd)[p] # NULL
      <4>1. Len(q[p]) > 0 /\ 1 \in 1..Len(q[p])
        BY <1>0, ChildrenOf
      <4> QED
        BY <1>0, <4>1, ChildrenOf, Constants
    <3> QED
      BY <1>0, <1>3, <3>1
  <2>3. \A n \in Nodes : n # p /\ n # c => First(nd2)[n] = First(nd)[n] /\ Last(nd2)[n] = Last(nd)[n]
    BY <1>3
  <2> QED
    BY <1>2, <2>1, <2>2, <2>3
<1>9. \A n \in Nodes : nd2[n] = NULL => Len(q2[n]) = 0
  <2>1. \A n \in Nodes : nd2[n] = NULL => n # p /\ (n = c \/ nd[n] = NULL)
    BY <1>0 DEF Gone
  <2>2. \A n \in Nodes : n # p => q2[n] = q[n]
    BY DEF Spelled, Lists
  <2>3. Len(q[c]) = 0
    <3>1. q[c] \in Seq(Nodes) /\ (Len(q[c]) > 0 => First(nd)[c] = q[c][1])
      BY DEF Spelled, Lists
    <3>2. Len(q[c]) > 0 => q[c][1] \in Nodes
      BY <3>1
    <3> QED
      BY <1>1, <3>1, <3>2, Constants
  <2> QED
    BY <2>1, <2>2, <2>3 DEF Spelled
<1> QED
  BY <1>7, <1>8, <1>9 DEF Spelled

(* A vnode that can be removed was not made at boot. *)
LEMMA Removable ==
    ASSUME NEW nd, NodesTyped(nd), Kinds(nd), NEW q, Spelled(nd, q),
           NEW c \in Nodes, nd[c] # NULL, c # "root", nd[c].first = NULL,
           nd[c].op \cap {"remove", "rmdir"} # {}
    PROVE  c \notin FixedNodes
<1>1. Parent(nd)["zero"] = "dev" /\ First(nd)["dev"] = nd["dev"].first /\ "zero" \in Nodes /\ "dev" \in Nodes
  <2>1. /\ "zero" \in Nodes /\ "dev" \in Nodes /\ nd["zero"] # NULL /\ nd["dev"] # NULL
        /\ nd["zero"].parent = "dev"
    BY Constants DEF NodesTyped, Kinds, FixedNodes
  <2> QED
    BY <2>1 DEF Parent, First
<1>2. "dev" # NULL
  BY <1>1, Constants
<1>3. \E k \in 1..Len(q["dev"]) : q["dev"][k] = "zero"
  BY <1>1, <1>2, ChildIn
<1>4. Len(q["dev"]) > 0 /\ 1 \in 1..Len(q["dev"])
  BY <1>1, <1>3, ChildrenOf
<1>5. nd["dev"].first # NULL
  BY <1>1, <1>4, ChildrenOf, Constants
<1> QED
  BY <1>5 DEF Kinds

(* The other vnodes are what they were. *)
LEMMA GoneBodies ==
    ASSUME NEW nd, NodesTyped(nd), NEW c \in Nodes, c \notin FixedNodes, NEW p,
           NEW nd2, Gone(nd, nd2, p, c)
    PROVE  OldBodies(nd, nd2, p, c) /\ NodesTyped(nd2) /\ nd2[c] = NULL
<1>1. ASSUME NEW n \in Nodes, n # c, nd[n] # NULL
      PROVE  nd2[n] \in Vnodes /\ OldBody(nd, nd2, p, n)
  <2>1. GoneFrom(nd, nd2, p, c, n)
    BY <1>1 DEF Gone
  <2> QED
    BY <1>1, <2>1 DEF GoneFrom, Relinked, OldBody
<1>2. nd2[c] = NULL /\ \A n \in Nodes : n # c => (nd2[n] = NULL <=> nd[n] = NULL)
  BY DEF Gone
<1>3. \A n \in Nodes : nd2[n] \in Vnodes \cup {NULL}
  BY <1>1, <1>2
<1>4. NodesTyped(nd2)
  <2>1. nd2 \in [Nodes -> Vnodes \cup {NULL}]
    BY <1>3 DEF IsMap, Gone
  <2>2. \A n \in FixedNodes : nd2[n] # NULL
    BY <1>2, Constants DEF NodesTyped
  <2> QED
    BY <2>1, <2>2 DEF NodesTyped
<1> QED
  BY <1>1, <1>2, <1>4 DEF OldBodies

(* Names stay different when vnodes keep theirs. *)
LEMMA SameNamed ==
    ASSUME NEW nd, Named(nd), NEW nd2,
           \A n \in Nodes : nd2[n] # NULL =>
              nd[n] # NULL /\ nd2[n].parent = nd[n].parent /\ nd2[n].name = nd[n].name
    PROVE  Named(nd2)
<1>1. ASSUME NEW n \in Nodes, nd2[n] # NULL
      PROVE  (n = "root" <=> nd2[n].parent = NULL) /\ nd2[n].parent # n
  BY <1>1 DEF Named
<1>2. ASSUME NEW a \in Nodes, NEW b \in Nodes, nd2[a] # NULL, nd2[b] # NULL, a # "root",
             nd2[a].parent = nd2[b].parent, nd2[a].name = nd2[b].name
      PROVE  a = b
  BY <1>2 DEF Named
<1> QED
  BY <1>1, <1>2 DEF Named

(* Releasing a vnode that has no children keeps the tree a tree. *)
LEMMA GoneTree ==
    ASSUME NEW nd, Tree(nd), NEW c \in Nodes, nd[c] # NULL, c # "root", nd[c].first = NULL,
           nd[c].op \cap {"remove", "rmdir"} # {},
           NEW nd2, nd2 = Released(nd, c)
    PROVE  /\ Tree(nd2) /\ c \notin FixedNodes /\ nd2[c] = NULL
           /\ OldBodies(nd, nd2, nd[c].parent, c)
<1>0. PICK p : p = nd[c].parent
  OBVIOUS
<1>1. NodesTyped(nd) /\ Named(nd) /\ Kinds(nd)
  BY DEF Tree
<1>2. PICK q \in [Nodes -> Seq(Nodes)] : Spelled(nd, q)
  BY DEF Tree
<1>3. c \notin FixedNodes
  BY <1>1, <1>2, Removable
<1>4. Gone(nd, nd2, p, c)
  BY <1>0, <1>1, <1>2, GoneIs
<1>5. OldBodies(nd, nd2, p, c) /\ NodesTyped(nd2) /\ nd2[c] = NULL
  BY <1>1, <1>3, <1>4, GoneBodies
<1>6. /\ \A n \in Nodes : nd2[n] # NULL =>
            /\ n # c /\ nd[n] # NULL /\ nd2[n].parent = nd[n].parent /\ nd2[n].name = nd[n].name
            /\ nd2[n].op = nd[n].op
            /\ n # p => nd2[n].first = nd[n].first
  BY <1>5 DEF OldBodies, OldBody
<1>7. p \in Nodes /\ nd[p] # NULL /\ \E k \in 1..Len(q[p]) : q[p][k] = c
  BY <1>0, <1>1, <1>2, Siblings
<1>8. PICK k \in 1..Len(q[p]) : q[p][k] = c
  BY <1>7
<1>9. Spelled(nd2, [q EXCEPT ![p] = Without(@, k)])
  BY <1>0, <1>1, <1>2, <1>4, <1>8, GoneSpelled
<1>10. [q EXCEPT ![p] = Without(@, k)] \in [Nodes -> Seq(Nodes)]
  <2>1. Without(q[p], k) \in Seq(Nodes)
    BY <1>2, <1>7, WithoutFacts
  <2> QED
    BY <1>2, <2>1
<1>11. Named(nd2)
  BY <1>1, <1>6, SameNamed
<1>12. Kinds(nd2)
  <2>1. nd[p].first # NULL
    <3>1. Len(q[p]) > 0 /\ 1 \in 1..Len(q[p])
      BY <1>2, <1>7, ChildrenOf
    <3>2. First(nd)[p] = nd[p].first
      BY <1>7 DEF First
    <3> QED
      <4>1. First(nd)[p] = q[p][1]
        BY <1>2, <1>7, <3>1, ChildrenOf
      <4>2. q[p] \in Seq(Nodes)
        BY <1>2, <1>7
      <4>3. q[p][1] \in Nodes
        BY <3>1, <4>2
      <4> QED
        BY <3>2, <4>1, <4>3, Constants
  <2>2. \A n \in Nodes : nd2[n] # NULL /\ "remove" \in nd2[n].op =>
          n = "root" \/ (nd2[n].op \cap {"touch", "mkdir"} = {} /\ nd2[n].first = NULL)
    BY <1>1, <1>6, <1>7, <2>1 DEF Kinds
  <2>3. \A n \in FixedNodes : n \in Nodes /\ nd2[n] # NULL
    BY <1>5, Constants DEF NodesTyped
  <2>4. \A n \in FixedNodes : nd2[n].op = nd[n].op /\ nd2[n].parent = nd[n].parent
    BY <1>6, <2>3
  <2> QED
    BY <1>1, <2>2, <2>4 DEF Kinds, FixedNodes
<1> QED
  BY <1>0, <1>3, <1>5, <1>9, <1>10, <1>11, <1>12 DEF Tree

-----------------------------------------------------------------------------
(* Counting descriptors *)

(* Only the count of descriptors changes. *)
Recounted(nd, nd2, n, k) ==
    /\ nd2 = [nd EXCEPT ![n].active_fds = k]
    /\ k \in 0..(Word - 1)

(* Vnode m is what it was, but for the count. *)
Kept(nd, nd2, m) ==
    /\ nd2[m] = NULL <=> nd[m] = NULL
    /\ nd[m] # NULL =>
          /\ nd2[m].name = nd[m].name /\ nd2[m].v_type = nd[m].v_type /\ nd2[m].op = nd[m].op
          /\ nd2[m].size = nd[m].size /\ nd2[m].parent = nd[m].parent
          /\ nd2[m].first = nd[m].first /\ nd2[m].last = nd[m].last
          /\ nd2[m].prev = nd[m].prev /\ nd2[m].next = nd[m].next

(* Nothing else about the vnodes changes. *)
LEMMA RecountFields ==
    ASSUME NEW nd, NodesTyped(nd), NEW n \in Nodes, nd[n] # NULL, NEW k, NEW nd2, Recounted(nd, nd2, n, k)
    PROVE  /\ NodesTyped(nd2)
           /\ \A m \in Nodes : Kept(nd, nd2, m)
           /\ \A m \in Nodes : m # n => nd2[m] = nd[m]
           /\ nd2[n].active_fds = k
<1>1. nd[n] \in Vnodes /\ k \in 0..(Word - 1)
  BY DEF NodesTyped, Recounted
<1>2. PICK r : r = [nd[n] EXCEPT !.active_fds = k]
  OBVIOUS
<1>3. /\ r \in Vnodes /\ r.active_fds = k
      /\ r.name = nd[n].name /\ r.v_type = nd[n].v_type /\ r.op = nd[n].op
      /\ r.size = nd[n].size /\ r.parent = nd[n].parent
      /\ r.first = nd[n].first /\ r.last = nd[n].last
      /\ r.prev = nd[n].prev /\ r.next = nd[n].next
  BY <1>1, <1>2 DEF Vnodes
<1>4. nd2 = [nd EXCEPT ![n] = r]
  BY <1>2 DEF Recounted
<1>5. nd2[n] = r /\ \A m \in Nodes : m # n => nd2[m] = nd[m]
  BY <1>4 DEF NodesTyped
<1>6. NodesTyped(nd2)
  <2>1. nd2 \in [Nodes -> Vnodes \cup {NULL}]
    BY <1>3, <1>4 DEF NodesTyped
  <2>2. \A m \in FixedNodes : nd2[m] # NULL
    BY <1>3, <1>5, Constants DEF NodesTyped
  <2> QED
    BY <2>1, <2>2 DEF NodesTyped
<1>7. ASSUME NEW m \in Nodes PROVE Kept(nd, nd2, m)
  <2>1. CASE m = n
    BY <1>3, <1>5, <2>1, Constants DEF Kept
  <2>2. CASE m # n
    BY <1>5, <2>2 DEF Kept
  <2> QED
    BY <2>1, <2>2
<1> QED
  BY <1>3, <1>5, <1>6, <1>7

(* That keeps the tree. *)
LEMMA RecountTree ==
    ASSUME NEW nd, Tree(nd), NEW n \in Nodes, nd[n] # NULL, NEW k, NEW nd2, Recounted(nd, nd2, n, k)
    PROVE  Tree(nd2)
<1>1. NodesTyped(nd) /\ Named(nd) /\ Kinds(nd)
  BY DEF Tree
<1>2. PICK q \in [Nodes -> Seq(Nodes)] : Spelled(nd, q)
  BY DEF Tree
<1>3. /\ NodesTyped(nd2)
      /\ \A m \in Nodes : (nd2[m] = NULL <=> nd[m] = NULL)
      /\ \A m \in Nodes : nd[m] # NULL =>
           /\ nd2[m].name = nd[m].name /\ nd2[m].op = nd[m].op /\ nd2[m].parent = nd[m].parent
           /\ nd2[m].first = nd[m].first /\ nd2[m].last = nd[m].last
           /\ nd2[m].prev = nd[m].prev /\ nd2[m].next = nd[m].next
  <2>1. NodesTyped(nd2) /\ \A m \in Nodes : Kept(nd, nd2, m)
    BY <1>1, RecountFields
  <2> QED
    BY <2>1 DEF Kept
<1>4. Named(nd2)
  BY <1>1, <1>3, SameNamed
<1>5. Kinds(nd2)
  <2>1. \A m \in FixedNodes : m \in Nodes /\ nd[m] # NULL
    BY <1>1, Constants DEF NodesTyped
  <2>2. \A m \in FixedNodes : nd2[m].op = nd[m].op /\ nd2[m].parent = nd[m].parent
    BY <1>3, <2>1
  <2>3. \A m \in Nodes : nd2[m] # NULL /\ "remove" \in nd2[m].op =>
          m = "root" \/ (nd2[m].op \cap {"touch", "mkdir"} = {} /\ nd2[m].first = NULL)
    BY <1>1, <1>3 DEF Kinds
  <2> QED
    BY <1>1, <2>2, <2>3 DEF Kinds, FixedNodes
<1>6. /\ First(nd2) = First(nd) /\ Last(nd2) = Last(nd) /\ NextOf(nd2) = NextOf(nd)
      /\ Prev(nd2) = Prev(nd) /\ Parent(nd2) = Parent(nd)
  BY <1>3 DEF First, Last, NextOf, Prev, Parent
<1>7. Spelled(nd2, q)
  BY <1>2, <1>3, <1>6 DEF Spelled
<1> QED
  BY <1>2, <1>3, <1>4, <1>5, <1>7 DEF Tree

-----------------------------------------------------------------------------
(* Looking up paths *)

(* Min is the least element. *)
LEMMA LeastIs ==
    ASSUME NEW T \in SUBSET Nat, T # {}
    PROVE  Min(T) \in T /\ \A y \in T : Min(T) <= y
<1>1. \E x \in T : \A y \in T : x <= y
  BY LeastNat
<1> QED
  BY <1>1, Zenon DEF Min

(* Child walks along the list. *)
LEMMA ChildIs ==
    ASSUME NEW nd, NodesTyped(nd), NEW q, Spelled(nd, q), NEW p \in Nodes, nd[p] # NULL, NEW k \in Nat
    PROVE  Child(nd, p, k) = IF k < Len(q[p]) THEN q[p][k + 1] ELSE NULL
<1> DEFINE chain[i \in 0..k] ==
             IF i = 0 THEN nd[p].first
             ELSE LET c == chain[i - 1] IN IF c = NULL THEN NULL ELSE nd[c].next
           sol == [i \in 0..k |-> IF i < Len(q[p]) THEN q[p][i + 1] ELSE NULL]
<1>1. /\ q[p] \in Seq(Nodes) /\ Len(q[p]) \in Nat
      /\ Len(q[p]) = 0 => First(nd)[p] = NULL
      /\ Len(q[p]) > 0 => First(nd)[p] = q[p][1]
      /\ \A j \in 1..Len(q[p]) :
            /\ q[p][j] \in Nodes
            /\ NextOf(nd)[q[p][j]] = IF j = Len(q[p]) THEN NULL ELSE q[p][j + 1]
            /\ Parent(nd)[q[p][j]] = p
  BY ChildrenOf
<1>2. First(nd)[p] = nd[p].first
  BY DEF First
<1>3. \A j \in 1..Len(q[p]) : nd[q[p][j]] # NULL
  BY <1>1, Constants DEF Parent
<1>4. \A j \in 1..Len(q[p]) : /\ q[p][j] # NULL
                              /\ nd[q[p][j]].next = IF j = Len(q[p]) THEN NULL ELSE q[p][j + 1]
  BY <1>1, <1>3, Constants DEF NextOf
<1>5. ASSUME NEW i \in 0..k
      PROVE  sol[i] = IF i = 0 THEN nd[p].first
                      ELSE LET c == sol[i - 1] IN IF c = NULL THEN NULL ELSE nd[c].next
  <2>1. CASE i = 0
    BY <1>1, <1>2, <2>1
  <2>2. CASE i # 0 /\ i - 1 < Len(q[p])
    <3>1. i \in 1..Len(q[p]) /\ i - 1 \in 0..k /\ (i - 1) + 1 = i
      BY <1>1, <2>2
    <3>2. sol[i - 1] = q[p][i]
      BY <2>2, <3>1
    <3>3. sol[i] = IF i = Len(q[p]) THEN NULL ELSE q[p][i + 1]
      BY <1>1, <3>1
    <3> HIDE DEF sol
    <3> QED
      BY <1>4, <2>2, <3>1, <3>2, <3>3
  <2>3. CASE i # 0 /\ ~(i - 1 < Len(q[p]))
    <3>1. sol[i - 1] = NULL /\ sol[i] = NULL
      BY <1>1, <2>3
    <3> QED
      BY <2>3, <3>1
  <2> QED
    BY <2>1, <2>2, <2>3
<1>6. sol = [i \in 0..k |-> IF i = 0 THEN nd[p].first
                            ELSE LET c == sol[i - 1] IN IF c = NULL THEN NULL ELSE nd[c].next]
  BY <1>5
<1>7. sol[k] = IF k < Len(q[p]) THEN q[p][k + 1] ELSE NULL
  OBVIOUS
<1> HIDE DEF sol
<1>8. chain = [i \in 0..k |-> IF i = 0 THEN nd[p].first
                              ELSE LET c == chain[i - 1] IN IF c = NULL THEN NULL ELSE nd[c].next]
  BY <1>6, Zenon
<1> HIDE DEF chain
<1>9. chain[k] = sol[k]
  <2>1. chain[0] = sol[0] /\ k \in 0..k
    BY <1>6, <1>8
  <2>2. ASSUME NEW i \in 0..k, i # 0, chain[i - 1] = sol[i - 1] PROVE chain[i] = sol[i]
    BY <1>6, <1>8, <2>2
  <2>3. InStep(chain, sol, 0, k) /\ 0 \in Int /\ k \in Int
    BY <2>1, <2>2 DEF InStep
  <2>4. Agree(chain, sol, 0, k)
    BY <2>3, SameSteps
  <2> QED
    BY <2>1, <2>4 DEF Agree
<1>10. Child(nd, p, k) = chain[k]
  BY Zenon DEF chain, Child
<1> QED
  BY <1>7, <1>9, <1>10

(* There are no more children than vnodes. *)
LEMMA FewChildren ==
    ASSUME NEW q, Spelled(node, q), NEW p \in Nodes
    PROVE  IsFiniteSet(alive) /\ Cardinality(alive) \in Nat /\ Len(q[p]) <= Cardinality(alive)
<1>1. IsFiniteSet(Nodes)
  <2>1. IsFiniteSet({}) /\ IsFiniteSet({"root"}) /\ IsFiniteSet({"root", "bin"})
        /\ IsFiniteSet({"root", "bin", "sh"}) /\ IsFiniteSet({"root", "bin", "sh", "dev"})
    <3>1. IsFiniteSet({"root"})
      BY FS_Singleton
    <3>2. IsFiniteSet({"root"} \cup {"bin"}) /\ {"root"} \cup {"bin"} = {"root", "bin"}
      BY <3>1, FS_AddElement
    <3>3. IsFiniteSet({"root", "bin"} \cup {"sh"}) /\ {"root", "bin"} \cup {"sh"} = {"root", "bin", "sh"}
      BY <3>2, FS_AddElement
    <3>4. IsFiniteSet({"root", "bin", "sh"} \cup {"dev"})
          /\ {"root", "bin", "sh"} \cup {"dev"} = {"root", "bin", "sh", "dev"}
      BY <3>3, FS_AddElement
    <3> QED
      BY <3>1, <3>2, <3>3, <3>4, FS_EmptySet
  <2>2. IsFiniteSet({"root", "bin", "sh", "dev"} \cup {"zero"})
    BY <2>1, FS_AddElement
  <2>3. FixedNodes = {"root", "bin", "sh", "dev"} \cup {"zero"}
    BY DEF FixedNodes
  <2>4. IsFiniteSet(FixedNodes) /\ IsFiniteSet(NodePool)
    BY <2>2, <2>3, FilesAssumption
  <2> QED
    BY <2>4, FS_Union DEF Nodes
<1>2. alive \in SUBSET Nodes
  BY DEF alive
<1>3. IsFiniteSet(alive) /\ Cardinality(alive) \in Nat
  BY <1>1, <1>2, FS_Subset, FS_CardinalityType
<1>4. Cardinality({c \in Nodes : Parent(node)[c] = p}) = Len(q[p])
  <2>1. Lists(NULL, Nodes, Nodes, q, First(node), Last(node), NextOf(node), Prev(node), Parent(node))
    BY DEF Spelled
  <2> QED
    BY <2>1, ListsCount, Constants
<1>5. {c \in Nodes : Parent(node)[c] = p} \in SUBSET alive
  BY Constants DEF Parent, alive
<1> QED
  BY <1>3, <1>4, <1>5, FS_Subset

(* _find_child returns a child with that name, or there is none. *)
LEMMA Found ==
    ASSUME Tree(node), NEW p \in Nodes, node[p] # NULL, NEW name, NEW c, c = _find_child(p, name)
    PROVE  /\ c # NULL => c \in Nodes /\ node[c] # NULL
           /\ c = NULL => \A d \in Nodes : node[d] # NULL /\ node[d].parent = p => node[d].name # name
<1> DEFINE K == 0..Cardinality(alive)
           found == {k \in K : Child(node, p, k) # NULL /\ node[Child(node, p, k)].name = name}
<1>1. PICK q \in [Nodes -> Seq(Nodes)] : Spelled(node, q)
  BY DEF Tree
<1>2. NodesTyped(node)
  BY DEF Tree
<1>3. \A k \in Nat : Child(node, p, k) = IF k < Len(q[p]) THEN q[p][k + 1] ELSE NULL
  BY <1>1, <1>2, ChildIs
<1>4. Cardinality(alive) \in Nat /\ Len(q[p]) <= Cardinality(alive)
  BY <1>1, FewChildren
<1>5. /\ q[p] \in Seq(Nodes) /\ Len(q[p]) \in Nat
      /\ \A j \in 1..Len(q[p]) : q[p][j] \in Nodes /\ Parent(node)[q[p][j]] = p
  BY <1>1, ChildrenOf
<1>6. \A j \in 1..Len(q[p]) : node[q[p][j]] # NULL
  BY <1>5, Constants DEF Parent
<1>7. c = IF found = {} THEN NULL ELSE Child(node, p, Min(found))
  BY DEF _find_child
<1>8. found \in SUBSET Nat
  OBVIOUS
<1>9. CASE found # {}
  <2>1. Min(found) \in found
    BY <1>8, <1>9, LeastIs
  <2>2. PICK k \in Nat : c = Child(node, p, k) /\ c # NULL
    <3>1. PICK k \in found : k = Min(found)
      BY <2>1
    <3>2. k \in Nat /\ Child(node, p, k) # NULL
      OBVIOUS
    <3> HIDE DEF found
    <3>3. c = Child(node, p, k)
      BY <1>7, <1>9, <3>1
    <3> QED
      BY <3>2, <3>3
  <2>3. k + 1 \in 1..Len(q[p]) /\ c = q[p][k + 1]
    BY <1>3, <1>5, <2>2
  <2> QED
    BY <1>5, <1>6, <2>2, <2>3
<1>10. CASE found = {}
  <2>1. ASSUME NEW d \in Nodes, node[d] # NULL, node[d].parent = p PROVE node[d].name # name
    <3>1. Parent(node)[d] = p /\ p # NULL
      BY <2>1, Constants DEF Parent
    <3>2. PICK j \in 1..Len(q[p]) : q[p][j] = d
      <4>1. Among(q, p, d)
        BY <1>1, <3>1, ChildAmong
      <4> QED
        BY <4>1 DEF Among
    <3>3. j - 1 \in K /\ j - 1 \in Nat /\ j - 1 < Len(q[p]) /\ (j - 1) + 1 = j
      BY <1>4, <1>5, <3>2
    <3>4. Child(node, p, j - 1) = d /\ d # NULL
      BY <1>3, <3>2, <3>3, Constants
    <3>5. j - 1 \notin found
      BY <1>10
    <3> QED
      BY <3>3, <3>4, <3>5
  <2> QED
    BY <1>7, <1>10, <2>1
<1> QED
  BY <1>9, <1>10

(* What namei_path_to_vfs_node returns: a vnode, or the directory in which the
   last component is missing. *)
LEMMA Looked ==
    ASSUME Tree(node), NEW path \in Seq(Names), NEW r, r = namei_path_to_vfs_node(path)
    PROVE  /\ r.file # NULL => r.file \in Nodes /\ node[r.file] # NULL
           /\ r.parent # NULL =>
                 /\ r.parent \in Nodes /\ node[r.parent] # NULL
                 /\ namei_path_to_filename(path) \in Names
                 /\ \A d \in Nodes : node[d] # NULL /\ node[d].parent = r.parent =>
                       node[d].name # namei_path_to_filename(path)
<1> DEFINE empty == {k \in 1..Len(path) : path[k] = ""}
           n == IF empty = {} THEN Len(path) ELSE Min(empty) - 1
           walk[k \in 0..n] == IF k = 0 THEN "root"
                               ELSE LET c == walk[k - 1]
                                    IN IF c = NULL THEN NULL ELSE _find_child(c, path[k])
           A == alive \cup {NULL}
           S == [k \in 0..n |-> A]
           G == [k \in 1..n |-> [x \in A |-> IF x = NULL THEN NULL ELSE _find_child(x, path[k])]]
<1>1. n \in Nat
  <2>1. empty \subseteq 1..Len(path)
    BY Zenon
  <2> HIDE DEF empty
  <2>2. empty # {} => Min(empty) \in empty
    BY <2>1, LeastIs
  <2>3. Len(path) \in Nat
    OBVIOUS
  <2>4. empty # {} => Min(empty) \in 1..Len(path)
    BY <2>1, <2>2
  <2>5. empty # {} => Min(empty) - 1 \in Nat
    BY <2>3, <2>4
  <2> QED
    BY <2>3, <2>5
<1>2. r = [file |-> walk[n],
           parent |-> IF walk[n] = NULL /\ n = Len(path) THEN walk[n - 1] ELSE NULL]
  BY Zenon DEF namei_path_to_vfs_node
<1> HIDE DEF n
<1>3. "root" \in alive /\ "root" # NULL
  BY Constants DEF Tree, NodesTyped, alive, FixedNodes
<1>4. ASSUME NEW x \in A, NEW k \in 1..n
      PROVE  (IF x = NULL THEN NULL ELSE _find_child(x, path[k])) \in A
  <2>1. CASE x = NULL
    BY <2>1
  <2>2. CASE x # NULL
    <3>1. x \in Nodes /\ node[x] # NULL
      BY <2>2 DEF alive
    <3>2. _find_child(x, path[k]) # NULL => _find_child(x, path[k]) \in Nodes /\ node[_find_child(x, path[k])] # NULL
      BY <3>1, Found
    <3> QED
      BY <2>2, <3>2 DEF alive
  <2> QED
    BY <2>1, <2>2
<1>5. \E f : Runs(f, 0, n, "root", G) /\ \A k \in 0..n : f[k] \in S[k]
  <2>1. "root" \in S[0]
    BY <1>1, <1>3
  <2>2. ASSUME NEW k \in 0..n, k # 0, NEW x \in S[k - 1] PROVE G[k][x] \in S[k]
    <3>1. k \in 1..n /\ k - 1 \in 0..n /\ x \in A /\ S[k] = A
      BY <1>1, <2>2
    <3>2. G[k][x] = IF x = NULL THEN NULL ELSE _find_child(x, path[k])
      BY <3>1
    <3> QED
      BY <1>4, <3>1, <3>2
  <2> HIDE DEF S, G
  <2>3. 0 \in Int /\ n \in Int
    BY <1>1
  <2> QED
    BY <2>1, <2>2, <2>3, RunExists
<1>6. PICK f : Runs(f, 0, n, "root", G) /\ \A k \in 0..n : f[k] \in S[k]
  BY <1>5
<1>7. \A k \in 0..n : f[k] \in A
  BY <1>6
<1>8. ASSUME NEW k \in 0..n
      PROVE  f[k] = IF k = 0 THEN "root"
                    ELSE LET c == f[k - 1] IN IF c = NULL THEN NULL ELSE _find_child(c, path[k])
  <2>1. f[k] = IF k = 0 THEN "root" ELSE G[k][f[k - 1]]
    <3> HIDE DEF G
    <3> QED
      BY <1>6 DEF Runs
  <2>2. CASE k = 0
    BY <2>1, <2>2
  <2>3. CASE k # 0
    <3>1. k \in 1..n /\ k - 1 \in 0..n
      BY <1>1, <2>3
    <3>2. f[k - 1] \in A
      BY <1>7, <3>1
    <3>3. G[k][f[k - 1]] = IF f[k - 1] = NULL THEN NULL ELSE _find_child(f[k - 1], path[k])
      BY <3>1, <3>2
    <3> HIDE DEF G, A
    <3> QED
      BY <2>1, <2>3, <3>3
  <2> QED
    BY <2>2, <2>3
<1>9. f = [k \in 0..n |-> IF k = 0 THEN "root"
                          ELSE LET c == f[k - 1] IN IF c = NULL THEN NULL ELSE _find_child(c, path[k])]
  <2>1. f = [k \in 0..n |-> f[k]]
    <3> HIDE DEF G
    <3> QED
      BY <1>6 DEF Runs
  <2> QED
    BY <1>8, <2>1
<1>10. walk = [k \in 0..n |-> IF k = 0 THEN "root"
                              ELSE LET c == walk[k - 1] IN IF c = NULL THEN NULL ELSE _find_child(c, path[k])]
  BY <1>9, Zenon
<1> HIDE DEF walk
<1>11. \A k \in 0..n : walk[k] = f[k]
  <2>1. walk[0] = f[0] /\ 0 \in Int /\ n \in Int
    BY <1>1, <1>9, <1>10
  <2>2. ASSUME NEW k \in 0..n, k # 0, walk[k - 1] = f[k - 1] PROVE walk[k] = f[k]
    BY <1>9, <1>10, <2>2
  <2>3. InStep(walk, f, 0, n)
    BY <2>1, <2>2 DEF InStep
  <2>4. Agree(walk, f, 0, n)
    BY <2>1, <2>3, SameSteps
  <2> QED
    BY <2>4 DEF Agree
<1>12. \A k \in 0..n : walk[k] \in alive \cup {NULL}
  BY <1>7, <1>11
<1> HIDE DEF A, S, G
<1>13. r.file # NULL => r.file \in Nodes /\ node[r.file] # NULL
  <2>1. r.file = walk[n] /\ n \in 0..n
    BY <1>1, <1>2
  <2> QED
    BY <1>12, <2>1 DEF alive
<1>14. ASSUME r.parent # NULL
       PROVE  /\ r.parent \in Nodes /\ node[r.parent] # NULL
              /\ namei_path_to_filename(path) \in Names
              /\ \A d \in Nodes : node[d] # NULL /\ node[d].parent = r.parent =>
                    node[d].name # namei_path_to_filename(path)
  <2>1. walk[n] = NULL /\ n = Len(path) /\ r.parent = walk[n - 1]
    BY <1>2, <1>14
  <2>2. n # 0
    BY <1>1, <1>3, <1>10, <2>1
  <2>3. n \in 0..n /\ n - 1 \in 0..n /\ n \in 1..Len(path)
    BY <1>1, <2>1, <2>2
  <2>4. walk[n] = _find_child(r.parent, path[n])
    BY <1>10, <1>14, <2>1, <2>2, <2>3
  <2>5. r.parent \in Nodes /\ node[r.parent] # NULL
    BY <1>12, <1>14, <2>1, <2>3 DEF alive
  <2>6. namei_path_to_filename(path) = path[n] /\ path[n] \in Names
    BY <2>1, <2>3 DEF namei_path_to_filename
  <2> QED
    BY <2>1, <2>4, <2>5, <2>6, Found
<1> QED
  BY <1>13, <1>14

(* Max of an interval is its end. *)
LEMMA LastOf ==
    ASSUME NEW n \in Nat, n > 0
    PROVE  Max(0..(n - 1)) = n - 1
<1>1. PICK m : m = Max(0..(n - 1))
  OBVIOUS
<1>2. n - 1 \in 0..(n - 1) /\ \A y \in 0..(n - 1) : n - 1 >= y
  OBVIOUS
<1>3. m \in 0..(n - 1) /\ \A y \in 0..(n - 1) : m >= y
  BY <1>1, <1>2, Zenon DEF Max
<1>4. m = n - 1
  BY <1>2, <1>3
<1> QED
  BY <1>1, <1>4

(* The tree has the links that TreeLinks asks for. *)
LEMMA TreeHasLinks ==
    ASSUME TypeOK, Tree(node)
    PROVE  TreeLinks
<1> DEFINE Kids(p) == {c \in alive : node[c].parent = p}
           places(p) == {k \in 0..Cardinality(alive) : Child(node, p, k) # NULL}
<1>1. PICK q \in [Nodes -> Seq(Nodes)] : Spelled(node, q)
  BY DEF Tree
<1>2. NodesTyped(node) /\ Named(node)
  BY DEF Tree
<1>3. ASSUME NEW p \in alive
      PROVE  /\ {Child(node, p, k) : k \in places(p)} = Kids(p) \ {"root"}
             /\ Cardinality(places(p)) = Cardinality(Kids(p) \ {"root"})
             /\ p # "root" => node[p].parent \in alive
             /\ node[p].last = IF places(p) = {} THEN NULL ELSE Child(node, p, Max(places(p)))
             /\ \A c, d \in Kids(p) : node[c].name = node[d].name => c = d
             /\ \A c \in Kids(p) \ {"root"} :
                   /\ node[c].next # NULL => node[node[c].next].prev = c
                   /\ node[c].prev # NULL => node[node[c].prev].next = c
  <2> DEFINE n == Len(q[p])
  <2>1. p \in Nodes /\ node[p] # NULL /\ p # NULL
    BY Constants DEF alive
  <2>2. /\ q[p] \in Seq(Nodes) /\ n \in Nat
        /\ n = 0 => Last(node)[p] = NULL
        /\ n > 0 => Last(node)[p] = q[p][n]
        /\ \A j \in 1..n : q[p][j] \in Nodes /\ Parent(node)[q[p][j]] = p
    BY <1>1, <2>1, ChildrenOf
  <2>3. Cardinality(alive) \in Nat /\ n <= Cardinality(alive)
    BY <1>1, <2>1, FewChildren
  <2>4. \A k \in Nat : Child(node, p, k) = IF k < n THEN q[p][k + 1] ELSE NULL
    BY <1>1, <1>2, <2>1, ChildIs
  <2>5. \A c \in Nodes : Parent(node)[c] = p <=> c \in alive /\ node[c].parent = p
    BY <2>1 DEF Parent, alive
  <2>6. Kids(p) = {c \in Nodes : Parent(node)[c] = p}
    BY <2>5 DEF alive
  <2>7. "root" \notin Kids(p)
    BY <1>2, <2>1 DEF Named, alive
  <2>8. Kids(p) \ {"root"} = Kids(p)
    BY <2>7
  <2>9. places(p) = 0..(n - 1)
    <3>1. ASSUME NEW k \in 0..Cardinality(alive)
          PROVE  Child(node, p, k) # NULL <=> k < n
      <4>1. k \in Nat
        BY <2>3
      <4>2. CASE k < n
        <5>1. k + 1 \in 1..n
          BY <2>2, <4>1, <4>2
        <5> QED
          BY <2>2, <2>4, <4>1, <4>2, <5>1, Constants
      <4>3. CASE ~(k < n)
        BY <2>4, <4>1, <4>3
      <4> QED
        BY <4>2, <4>3
    <3> QED
      BY <2>2, <2>3, <3>1
  <2> HIDE DEF places
  <2>10. {Child(node, p, k) : k \in places(p)} = Kids(p)
    <3>1. ASSUME NEW k \in 0..(n - 1) PROVE Child(node, p, k) \in Kids(p)
      <4>1. k \in Nat /\ k < n /\ k + 1 \in 1..n
        BY <2>2, <3>1
      <4>2. Child(node, p, k) = q[p][k + 1]
        BY <2>4, <4>1
      <4> QED
        BY <2>2, <2>6, <4>1, <4>2
    <3>2. ASSUME NEW c \in Kids(p) PROVE \E k \in 0..(n - 1) : Child(node, p, k) = c
      <4>1. c \in Nodes /\ Parent(node)[c] = p
        BY <2>6
      <4> HIDE DEF Kids
      <4>2. PICK j \in 1..n : q[p][j] = c
        <5>1. Among(q, p, c)
          BY <1>1, <2>1, <4>1, ChildAmong
        <5>2. \E k \in 1..Len(q[p]) : q[p][k] = c
          BY <5>1, Zenon DEF Among
        <5> QED
          BY <5>2
      <4>3. j - 1 \in 0..(n - 1) /\ j - 1 \in Nat /\ j - 1 < n /\ (j - 1) + 1 = j
        BY <2>2
      <4>4. Child(node, p, j - 1) = c
        BY <2>4, <4>2, <4>3
      <4> QED
        BY <4>3, <4>4
    <3> HIDE DEF n, Kids
    <3> QED
      BY <2>9, <3>1, <3>2
  <2>11. Cardinality(places(p)) = Cardinality(Kids(p))
    <3>1. Cardinality(0..(n - 1)) = n
      BY <2>2, FS_Interval
    <3>2. Lists(NULL, Nodes, Nodes, q, First(node), Last(node), NextOf(node), Prev(node), Parent(node))
      BY <1>1 DEF Spelled
    <3>3. Cardinality({c \in Nodes : Parent(node)[c] = p}) = n
      BY <2>1, <3>2, ListsCount, Constants
    <3> QED
      BY <2>6, <2>9, <3>1, <3>3
  <2>12. p # "root" => node[p].parent \in alive
    BY <1>1, <1>2, <2>1, Siblings DEF alive
  <2>13. node[p].last = IF places(p) = {} THEN NULL ELSE Child(node, p, Max(places(p)))
    <3>1. Last(node)[p] = node[p].last
      BY <2>1 DEF Last
    <3>2. CASE n = 0
      BY <2>2, <2>9, <3>1, <3>2
    <3>3. CASE n # 0
      <4>1. n - 1 \in 0..(n - 1) /\ n - 1 \in Nat /\ n - 1 < n /\ n > 0 /\ (n - 1) + 1 = n
        BY <2>2, <3>3
      <4>2. Max(0..(n - 1)) = n - 1
        BY <4>1, LastOf
      <4>3. Child(node, p, n - 1) = q[p][n]
        BY <2>4, <4>1
      <4> QED
        BY <2>2, <2>9, <3>1, <4>1, <4>2, <4>3
    <3> QED
      BY <3>2, <3>3
  <2>14. \A c, d \in Kids(p) : node[c].name = node[d].name => c = d
    <3>1. ASSUME NEW c \in Kids(p), NEW d \in Kids(p), node[c].name = node[d].name PROVE c = d
      <4>1. /\ c \in Nodes /\ d \in Nodes /\ node[c] # NULL /\ node[d] # NULL
            /\ node[c].parent = node[d].parent /\ c # "root"
        BY <2>7 DEF alive
      <4> HIDE DEF Kids
      <4> QED
        BY <1>2, <3>1, <4>1 DEF Named
    <3> QED
      BY <3>1
  <2>15. ASSUME NEW c \in Kids(p)
         PROVE  /\ node[c].next # NULL => node[node[c].next].prev = c
                /\ node[c].prev # NULL => node[node[c].prev].next = c
    <3>1. c \in Nodes /\ node[c] # NULL /\ c # "root"
      BY <2>7 DEF alive
    <3> QED
      BY <1>1, <1>2, <3>1, Siblings
  <2> HIDE DEF Kids, n
  <2> QED
    BY <2>8, <2>10, <2>11, <2>12, <2>13, <2>14, <2>15
<1> QED
  BY <1>3, Zenon DEF TreeLinks

-----------------------------------------------------------------------------
(* Closing descriptors *)

(* A remainder is the number itself below the modulus. *)
LEMMA SmallMod ==
    ASSUME NEW a \in Nat, NEW b \in Nat, a < b
    PROVE  a % b = a
  BY SMT

(* A remainder is below the modulus. *)
LEMMA ModRange ==
    ASSUME NEW a \in Int
    PROVE  a % Word \in 0..(Word - 1)
<1>1. Word \in Nat /\ Word > 0
  BY Constants
<1> QED
  BY <1>1, SMT

(* What do_close works on. *)
States ==
    [node : [Nodes -> Vnodes \cup {NULL}], fds : [FdPool -> Descriptors \cup {NULL}],
     list : FdLists, used : [Tasks -> Rows], ctr : [Tasks -> 0..(Word - 1)], bad : BOOLEAN]

IsState(w) ==
    w = [node |-> w.node, fds |-> w.fds, list |-> w.list, used |-> w.used, ctr |-> w.ctr, bad |-> w.bad]

(* A default descriptor is only counted. *)
Skips(s, w, t) ==
    /\ IsState(w)
    /\ w.node = s.node /\ w.fds = s.fds /\ w.list = s.list /\ w.used = s.used /\ w.bad = s.bad
    /\ w.ctr = [s.ctr EXCEPT ![t] = (s.ctr[t] - 1) % Word]

(* Released memory is used. *)
Breaks(s, w, t, i) ==
    /\ IsState(w)
    /\ s.used[t][i] \in FdPool
    /\ s.fds[s.used[t][i]] = NULL \/ s.node[s.fds[s.used[t][i]].node] = NULL
    /\ w.node = s.node /\ w.fds = s.fds /\ w.list = s.list /\ w.used = s.used /\ w.ctr = s.ctr
    /\ w.bad = TRUE

(* Descriptor f of file n is closed. *)
Closes(s, w, t, i, f, n) ==
    /\ IsState(w)
    /\ f \in FdPool /\ s.used[t][i] = f /\ s.fds[f] # NULL
    /\ n \in Nodes /\ s.fds[f].node = n /\ s.node[n] # NULL
    /\ Recounted(s.node, w.node, n, (s.node[n].active_fds - 1) % Word)
    /\ w.fds = [s.fds EXCEPT ![f] = NULL]
    /\ w.used = [s.used EXCEPT ![t] = [s.used[t] EXCEPT ![i] = NULL]]
    /\ w.ctr = [s.ctr EXCEPT ![t] = (s.ctr[t] - 1) % Word]
    /\ w.list \in FdLists
    /\ w.bad = s.bad

(* The list is a record of the right parts. *)
IsList(l) == l = [first |-> l.first, next |-> l.next, prev |-> l.prev, stray |-> l.stray]

LEMMA RecordParts ==
    ASSUME NEW A, NEW B, NEW C, NEW D, NEW l
    PROVE  l \in [first : A, next : B, prev : C, stray : D]
           <=> IsList(l) /\ l.first \in A /\ l.next \in B /\ l.prev \in C /\ l.stray \in D
  BY DEF IsList

LEMMA ListParts ==
    ASSUME NEW l, IsList(l), l.first \in Addresses \cup {NULL},
           l.next \in [Addresses -> Addresses \cup {NULL}],
           l.prev \in [Addresses -> Addresses \cup {NULL, Elsewhere}],
           l.stray \in SUBSET {"released", Elsewhere}
    PROVE  l \in FdLists
<1> DEFINE A == Addresses \cup {NULL}
           B == [Addresses -> Addresses \cup {NULL}]
           C == [Addresses -> Addresses \cup {NULL, Elsewhere}]
           D == SUBSET {"released", Elsewhere}
<1>1. l.first \in A /\ l.next \in B /\ l.prev \in C /\ l.stray \in D
  OBVIOUS
<1> HIDE DEF A, B, C, D
<1>2. l \in [first : A, next : B, prev : C, stray : D]
  BY <1>1, RecordParts
<1> QED
  BY <1>2 DEF A, B, C, D, FdLists

LEMMA ListTyped ==
    ASSUME NEW l \in FdLists
    PROVE  /\ IsList(l) /\ l.first \in Addresses \cup {NULL}
           /\ l.next \in [Addresses -> Addresses \cup {NULL}]
           /\ l.prev \in [Addresses -> Addresses \cup {NULL, Elsewhere}]
           /\ l.stray \in SUBSET {"released", Elsewhere}
<1> DEFINE A == Addresses \cup {NULL}
           B == [Addresses -> Addresses \cup {NULL}]
           C == [Addresses -> Addresses \cup {NULL, Elsewhere}]
           D == SUBSET {"released", Elsewhere}
<1>1. l \in [first : A, next : B, prev : C, stray : D]
  BY DEF FdLists
<1> HIDE DEF A, B, C, D
<1>2. IsList(l) /\ l.first \in A /\ l.next \in B /\ l.prev \in C /\ l.stray \in D
  BY <1>1, RecordParts
<1> QED
  BY <1>2 DEF A, B, C, D

LEMMA ListForm ==
    ASSUME NEW l \in FdLists
    PROVE  \E a, b, c, d : l = [first |-> a, next |-> b, prev |-> c, stray |-> d]
  BY ListTyped DEF IsList

(* Writes are recorded. *)
LEMMA WroteTyped ==
    ASSUME NEW l \in FdLists, NEW W, NEW held
    PROVE  Wrote(l, W, held) \in FdLists
<1>1. PICK stray : stray = l.stray \cup (IF W \subseteq Addresses THEN {} ELSE {Elsewhere})
                           \cup (IF (W \cap FdPool) \subseteq held THEN {} ELSE {"released"})
  OBVIOUS
<1>2. PICK m : m = [l EXCEPT !.stray = stray]
  OBVIOUS
<1>3. Wrote(l, W, held) = m
  BY <1>1, <1>2, ListTyped DEF Wrote, IsList
<1>4. m.first = l.first /\ m.next = l.next /\ m.prev = l.prev /\ m.stray = stray /\ IsList(m)
  BY <1>2, ListTyped DEF IsList
<1>5. stray \in SUBSET {"released", Elsewhere}
  BY <1>1, ListTyped
<1> QED
  BY <1>3, <1>4, <1>5, ListTyped, ListParts

(* The list keeps its type when a descriptor enters it. *)
LEMMA AddTyped ==
    ASSUME NEW l \in FdLists, NEW f \in Addresses, NEW left \in Addresses \cup {NULL, Elsewhere},
           NEW held
    PROVE  fd_add(l, f, left, held) \in FdLists
<1>1. CASE l.first = NULL
  <2>1. PICK m : m = [l EXCEPT !.first = f, !.prev[f] = left]
    OBVIOUS
  <2>2. /\ m.first = f /\ m.next = l.next /\ m.prev = [l.prev EXCEPT ![f] = left]
        /\ m.stray = l.stray /\ IsList(m)
    <3>1. PICK a, b, c, d : l = [first |-> a, next |-> b, prev |-> c, stray |-> d]
      BY ListForm
    <3>2. m = [first |-> f, next |-> b, prev |-> [c EXCEPT ![f] = left], stray |-> d]
      BY <2>1, <3>1
    <3> QED
      BY <3>1, <3>2 DEF IsList
  <2>3. m.prev \in [Addresses -> Addresses \cup {NULL, Elsewhere}]
    BY <2>2, ListTyped
  <2>4. fd_add(l, f, left, held) = m
    BY <1>1, <2>1 DEF fd_add
  <2> QED
    BY <2>2, <2>3, <2>4, ListTyped, ListParts
<1>2. CASE l.first # NULL
  <2>1. PICK prev : prev = [l.prev EXCEPT ![f] = left, ![l.first] = f]
    OBVIOUS
  <2>2. PICK m : m = [l EXCEPT !.next[f] = l.first, !.prev = prev, !.first = f]
    OBVIOUS
  <2>3. /\ m.first = f /\ m.next = [l.next EXCEPT ![f] = l.first] /\ m.prev = prev
        /\ m.stray = l.stray /\ IsList(m)
    <3>1. PICK a, b, c, d : l = [first |-> a, next |-> b, prev |-> c, stray |-> d]
      BY ListForm
    <3>2. m = [first |-> f, next |-> [b EXCEPT ![f] = a], prev |-> prev, stray |-> d]
      BY <2>2, <3>1
    <3> QED
      BY <3>1, <3>2 DEF IsList
  <2>4. prev \in [Addresses -> Addresses \cup {NULL, Elsewhere}]
    BY <1>2, <2>1, ListTyped
  <2>5. m.next \in [Addresses -> Addresses \cup {NULL}]
    BY <1>2, <2>3, ListTyped
  <2>6. m \in FdLists
    BY <2>3, <2>4, <2>5, ListTyped, ListParts
  <2>7. fd_add(l, f, left, held) = Wrote(m, {l.first}, held)
    BY <1>2, <2>1, <2>2 DEF fd_add
  <2> QED
    BY <2>6, <2>7, WroteTyped
<1> QED
  BY <1>1, <1>2

(* And when one leaves it. *)
LEMMA RemoveTyped ==
    ASSUME NEW l \in FdLists, NEW f \in Addresses, NEW held
    PROVE  fd_remove(l, f, held) \in FdLists
<1>1. l.prev[f] \in Addresses \cup {NULL, Elsewhere} /\ l.next[f] \in Addresses \cup {NULL}
  BY ListTyped
<1>2. CASE l.prev[f] = NULL
  <2>1. PICK prev : prev = [x \in Addresses |-> IF x = l.first THEN NULL ELSE l.prev[x]]
    OBVIOUS
  <2>2. PICK m : m = [l EXCEPT !.prev = prev, !.first = l.next[f]]
    OBVIOUS
  <2>3. m.first = l.next[f] /\ m.next = l.next /\ m.prev = prev /\ m.stray = l.stray /\ IsList(m)
    <3>1. PICK a, b, c, d : l = [first |-> a, next |-> b, prev |-> c, stray |-> d]
      BY ListForm
    <3>2. m = [first |-> l.next[f], next |-> b, prev |-> prev, stray |-> d]
      BY <2>2, <3>1
    <3> QED
      BY <3>1, <3>2 DEF IsList
  <2>4. prev \in [Addresses -> Addresses \cup {NULL, Elsewhere}]
    BY <2>1, ListTyped
  <2>5. m \in FdLists
    BY <1>1, <2>3, <2>4, ListTyped, ListParts
  <2>6. fd_remove(l, f, held) = Wrote(m, {l.first}, held)
    BY <1>2, <2>1, <2>2, Zenon DEF fd_remove
  <2> QED
    BY <2>5, <2>6, WroteTyped
<1>3. CASE l.prev[f] # NULL
  <2>1. PICK next : next = [x \in Addresses |-> IF x = l.prev[f] THEN l.next[f] ELSE l.next[x]]
    OBVIOUS
  <2>2. PICK prev : prev = [x \in Addresses |-> IF x = l.next[f] THEN l.prev[f] ELSE l.prev[x]]
    OBVIOUS
  <2>3. PICK m : m = [l EXCEPT !.next = next, !.prev = prev]
    OBVIOUS
  <2>4. m.first = l.first /\ m.next = next /\ m.prev = prev /\ m.stray = l.stray /\ IsList(m)
    <3>1. PICK a, b, c, d : l = [first |-> a, next |-> b, prev |-> c, stray |-> d]
      BY ListForm
    <3>2. m = [first |-> a, next |-> next, prev |-> prev, stray |-> d]
      BY <2>3, <3>1
    <3> QED
      BY <3>1, <3>2 DEF IsList
  <2>5. prev \in [Addresses -> Addresses \cup {NULL, Elsewhere}]
    BY <1>1, <2>2, ListTyped
  <2>6. next \in [Addresses -> Addresses \cup {NULL}]
    BY <1>1, <2>1, ListTyped
  <2>7. m \in FdLists
    BY <2>4, <2>5, <2>6, ListTyped, ListParts
  <2>8. fd_remove(l, f, held) = Wrote(m, {l.prev[f], l.next[f]} \ {NULL}, held)
    BY <1>3, <2>1, <2>2, <2>3, Zenon DEF fd_remove
  <2> QED
    BY <2>7, <2>8, WroteTyped
<1> QED
  BY <1>2, <1>3

(* do_close does one of these. *)
LEMMA CloseCases ==
    ASSUME NEW s \in States, Placed(s.used), NEW t \in Tasks, NEW i \in Slots,
           NEW w, w = do_close(s, t, i)
    PROVE  \/ s.used[t][i] = NULL /\ w = s
           \/ i \in 0..1 /\ s.used[t][i] = Defaults[i] /\ Skips(s, w, t)
           \/ Breaks(s, w, t, i)
           \/ \E f, n : Closes(s, w, t, i, f, n)
<1>0. PICK f : f = s.used[t][i]
  OBVIOUS
<1>1. f \in FdPool \cup {NULL} \/ (i \in 0..1 /\ f = Defaults[i])
  BY <1>0 DEF Placed
<1>2. \A j \in 0..1 : Defaults[j] \notin FdPool /\ Defaults[j] # NULL
  BY FilesAssumption
<1>3. NULL \notin FdPool
  BY Constants
<1>4. CASE f = NULL
  BY <1>0, <1>4 DEF do_close
<1>5. CASE i \in 0..1 /\ f = Defaults[i]
  <2>1. f # NULL
    BY <1>2, <1>5
  <2>2. w = [s EXCEPT !.ctr[t] = (@ - 1) % Word]
    BY <1>0, <1>5, <2>1 DEF do_close
  <2>3. Skips(s, w, t)
    BY <2>2 DEF States, Skips, IsState
  <2> QED
    BY <1>0, <1>5, <2>3
<1>6. CASE f \in FdPool
  <2>1. f # NULL /\ ~(i \in 0..1 /\ f = Defaults[i])
    BY <1>2, <1>3, <1>6
  <2>2. CASE s.fds[f] = NULL \/ s.node[s.fds[f].node] = NULL
    <3>1. Target(s, f) = NULL
      BY <2>2 DEF Target
    <3>2. w = [s EXCEPT !.bad = TRUE]
      BY <1>0, <2>1, <3>1 DEF do_close
    <3>3. Breaks(s, w, t, i)
      BY <1>0, <1>6, <2>2, <3>2 DEF Breaks, States, IsState
    <3> QED
      BY <3>3
  <2>3. CASE ~(s.fds[f] = NULL \/ s.node[s.fds[f].node] = NULL)
    <3>1. PICK n : n = s.fds[f].node
      OBVIOUS
    <3>2. s.fds[f] \in Descriptors
      BY <1>6, <2>3 DEF States
    <3>3. n \in Nodes /\ n # NULL
      BY <3>1, <3>2, Constants DEF Descriptors
    <3>4. Target(s, f) = n
      BY <2>3, <3>1 DEF Target
    <3> DEFINE l == fd_remove(s.list, f, {g \in FdPool : s.fds[g] # NULL})
    <3>10. l \in FdLists
      BY <1>6, RemoveTyped DEF States, Addresses
    <3>5. w = [s EXCEPT !.node[n].active_fds = (@ - 1) % Word,
                        !.list = l,
                        !.used[t][i] = NULL,
                        !.ctr[t] = (@ - 1) % Word,
                        !.fds[f] = NULL]
      BY <1>0, <2>1, <3>3, <3>4 DEF do_close
    <3> HIDE DEF l
    <3>6. /\ w.node = [s.node EXCEPT ![n].active_fds = (s.node[n].active_fds - 1) % Word]
          /\ w.fds = [s.fds EXCEPT ![f] = NULL]
          /\ w.used = [s.used EXCEPT ![t] = [s.used[t] EXCEPT ![i] = NULL]]
          /\ w.ctr = [s.ctr EXCEPT ![t] = (s.ctr[t] - 1) % Word]
          /\ w.list = l
          /\ w.bad = s.bad
          /\ IsState(w)
      BY <3>5 DEF States, IsState
    <3>7. s.node[n] \in Vnodes
      BY <2>3, <3>1, <3>3 DEF States
    <3>8. (s.node[n].active_fds - 1) % Word \in 0..(Word - 1)
      <4>1. s.node[n].active_fds - 1 \in Int
        BY <3>7, Constants DEF Vnodes
      <4> QED
        BY <4>1, ModRange
    <3>9. Closes(s, w, t, i, f, n)
      BY <1>0, <1>6, <2>3, <3>1, <3>3, <3>6, <3>8, <3>10 DEF Closes, Recounted
    <3> QED
      BY <3>9
  <2> QED
    BY <2>2, <2>3
<1> QED
  BY <1>1, <1>4, <1>5, <1>6

(* Records of the right parts. *)
LEMMA StateParts ==
    ASSUME NEW w, IsState(w),
           w.node \in [Nodes -> Vnodes \cup {NULL}], w.fds \in [FdPool -> Descriptors \cup {NULL}],
           w.list \in FdLists,
           w.used \in [Tasks -> Rows], w.ctr \in [Tasks -> 0..(Word - 1)], w.bad \in BOOLEAN
    PROVE  w \in States
  BY DEF IsState, States

(* Types, the tree and the places of the default descriptors are kept. *)
Shaped(s) == s \in States /\ Tree(s.node) /\ Placed(s.used)

(* do_close keeps them. *)
LEMMA CloseShaped ==
    ASSUME NEW s, Shaped(s), NEW t \in Tasks, NEW i \in Slots, NEW w, w = do_close(s, t, i)
    PROVE  Shaped(w)
<1>1. s \in States /\ Tree(s.node) /\ Placed(s.used)
  BY DEF Shaped
<1>2. /\ s.node \in [Nodes -> Vnodes \cup {NULL}] /\ s.fds \in [FdPool -> Descriptors \cup {NULL}]
      /\ s.list \in FdLists
      /\ s.used \in [Tasks -> Rows] /\ s.ctr \in [Tasks -> 0..(Word - 1)] /\ s.bad \in BOOLEAN
  BY <1>1 DEF States
<1>3. [s.ctr EXCEPT ![t] = (s.ctr[t] - 1) % Word] \in [Tasks -> 0..(Word - 1)]
  <2>1. s.ctr[t] - 1 \in Int
    BY <1>2, Constants
  <2>2. (s.ctr[t] - 1) % Word \in 0..(Word - 1)
    BY <2>1, ModRange
  <2> QED
    BY <1>2, <2>2
<1>4. CASE w = s
  BY <1>1, <1>4 DEF Shaped
<1>5. CASE Skips(s, w, t)
  <2>1. w \in States
    BY <1>2, <1>3, <1>5, StateParts DEF Skips
  <2> QED
    BY <1>1, <1>5, <2>1 DEF Skips, Shaped
<1>6. CASE Breaks(s, w, t, i)
  <2>1. w \in States
    BY <1>2, <1>6, StateParts DEF Breaks
  <2> QED
    BY <1>1, <1>6, <2>1 DEF Breaks, Shaped
<1>7. CASE \E f, n : Closes(s, w, t, i, f, n)
  <2>1. PICK f, n : Closes(s, w, t, i, f, n)
    BY <1>7
  <2>2. /\ n \in Nodes /\ s.node[n] # NULL
        /\ Recounted(s.node, w.node, n, (s.node[n].active_fds - 1) % Word)
        /\ w.fds = [s.fds EXCEPT ![f] = NULL]
        /\ w.used = [s.used EXCEPT ![t] = [s.used[t] EXCEPT ![i] = NULL]]
        /\ w.ctr = [s.ctr EXCEPT ![t] = (s.ctr[t] - 1) % Word]
        /\ IsState(w) /\ w.bad = s.bad /\ w.list \in FdLists
    BY <2>1 DEF Closes
  <2>3. Tree(w.node)
    BY <1>1, <2>2, RecountTree
  <2>4. w.node \in [Nodes -> Vnodes \cup {NULL}]
    BY <2>3 DEF Tree, NodesTyped
  <2>5. w.fds \in [FdPool -> Descriptors \cup {NULL}]
    BY <1>2, <2>2
  <2>6. [s.used[t] EXCEPT ![i] = NULL] \in Rows
    BY <1>2 DEF Rows
  <2>7. w.used \in [Tasks -> Rows]
    BY <1>2, <2>2, <2>6
  <2>8. Placed(w.used)
    <3>1. ASSUME NEW u \in Tasks, NEW j \in Slots
          PROVE  w.used[u][j] = NULL \/ w.used[u][j] = s.used[u][j]
      BY <1>2, <2>2 DEF Rows
    <3> QED
      BY <1>1, <3>1 DEF Placed
  <2>9. w \in States
    BY <1>2, <1>3, <2>2, <2>4, <2>5, <2>7, StateParts
  <2> QED
    BY <2>3, <2>8, <2>9 DEF Shaped
<1> QED
  BY <1>1, <1>4, <1>5, <1>6, <1>7, CloseCases

-----------------------------------------------------------------------------
(* Closing when nothing unusual was done *)

(* A file has finitely many descriptors. *)
LEMMA DescriptorsFinite ==
    ASSUME NEW fd, NEW n
    PROVE  /\ IsFiniteSet(Of(fd, n)) /\ Cardinality(Of(fd, n)) \in Nat
           /\ Cardinality(Of(fd, n)) <= Cardinality(FdPool)
<1>1. IsFiniteSet(FdPool) /\ Of(fd, n) \in SUBSET FdPool
  BY FilesAssumption DEF Of
<1> QED
  BY <1>1, FS_Subset, FS_CardinalityType

(* The tables of the tasks ts and the files are in order. *)
Good(s, ts) == FilesHeld(s.node, s.fds) /\ Owned(s.fds, s.used, ts) /\ s.bad = FALSE

(* Closing a file takes one from what it counts. *)
LEMMA ClosesFiles ==
    ASSUME NEW s, Shaped(s), NEW w, Shaped(w), NEW t, NEW i, NEW f, NEW n, Closes(s, w, t, i, f, n),
           FilesHeld(s.node, s.fds)
    PROVE  FilesHeld(w.node, w.fds)
<1>1. /\ f \in FdPool /\ s.fds[f] # NULL /\ n \in Nodes /\ s.fds[f].node = n /\ s.node[n] # NULL
      /\ Recounted(s.node, w.node, n, (s.node[n].active_fds - 1) % Word)
      /\ w.fds = [s.fds EXCEPT ![f] = NULL]
  BY DEF Closes
<1>2. NodesTyped(s.node) /\ s.fds \in [FdPool -> Descriptors \cup {NULL}]
  BY DEF Shaped, Tree, States
<1>3. /\ \A m \in Nodes : Kept(s.node, w.node, m)
      /\ \A m \in Nodes : m # n => w.node[m] = s.node[m]
      /\ w.node[n].active_fds = (s.node[n].active_fds - 1) % Word
  BY <1>1, <1>2, RecountFields
<1>4. w.fds[f] = NULL /\ \A g \in FdPool : g # f => w.fds[g] = s.fds[g]
  BY <1>1, <1>2
<1>5. \A g \in FdPool : w.fds[g] # NULL => g # f /\ w.fds[g] = s.fds[g] /\ s.fds[g].node \in Nodes
  BY <1>2, <1>4 DEF Descriptors
<1>6. ASSUME NEW g \in FdPool, w.fds[g] # NULL PROVE w.node[w.fds[g].node] # NULL
  BY <1>3, <1>5, <1>6 DEF FilesHeld, Kept
<1>7. ASSUME NEW g \in FdPool, w.fds[g] # NULL, w.node[w.fds[g].node].v_type = "FILE"
      PROVE  w.fds[g].position <= w.node[w.fds[g].node].size
  <2>1. w.fds[g] = s.fds[g] /\ s.fds[g] # NULL /\ s.fds[g].node \in Nodes
    BY <1>5, <1>7
  <2>2. s.node[s.fds[g].node] # NULL /\ Kept(s.node, w.node, s.fds[g].node)
    BY <1>3, <2>1 DEF FilesHeld
  <2>3. /\ w.node[s.fds[g].node].v_type = s.node[s.fds[g].node].v_type
        /\ w.node[s.fds[g].node].size = s.node[s.fds[g].node].size
    BY <2>2 DEF Kept
  <2> QED
    BY <1>7, <2>1, <2>3 DEF FilesHeld
<1>8. ASSUME NEW m \in Nodes, w.node[m] # NULL
      PROVE  w.node[m].active_fds = Cardinality(Of(w.fds, m))
  <2>1. s.node[m] # NULL /\ s.node[m].active_fds = Cardinality(Of(s.fds, m))
    BY <1>3, <1>8 DEF Kept, FilesHeld
  <2>2. CASE m = n
    <3>1. Of(w.fds, n) = Of(s.fds, n) \ {f} /\ f \in Of(s.fds, n)
      BY <1>1, <1>4 DEF Of
    <3>2. Cardinality(Of(w.fds, n)) = Cardinality(Of(s.fds, n)) - 1 /\ Cardinality(Of(w.fds, n)) \in Nat
      BY <3>1, DescriptorsFinite, FS_RemoveElement
    <3>3. Cardinality(Of(w.fds, n)) < Word
      <4>1. Cardinality(FdPool) \in Nat /\ Cardinality(FdPool) < Word /\ Word \in Nat
        BY FilesAssumption, FS_CardinalityType
      <4> QED
        BY <3>2, <4>1, DescriptorsFinite
    <3>4. Cardinality(Of(w.fds, n)) % Word = Cardinality(Of(w.fds, n))
      BY <3>2, <3>3, SmallMod, Constants
    <3> QED
      BY <1>3, <2>1, <2>2, <3>2, <3>4
  <2>3. CASE m # n
    <3>1. Of(w.fds, m) = Of(s.fds, m)
      BY <1>1, <1>4, <2>3 DEF Of
    <3> QED
      BY <1>3, <2>1, <2>3, <3>1
  <2> QED
    BY <2>2, <2>3
<1> QED
  BY <1>6, <1>7, <1>8 DEF FilesHeld

(* Slot i of task t is cleared, and no other. *)
Cleared(s, w, ts, t, i) ==
    /\ w.used[t][i] = NULL
    /\ \A u \in ts : \A j \in Slots : ~(u = t /\ j = i) => w.used[u][j] = s.used[u][j]

(* Nobody else holds what is closed. *)
LEMMA ClosesOwned ==
    ASSUME NEW s, Shaped(s), NEW w, NEW ts \in SUBSET Tasks, NEW t \in ts, NEW i \in Slots,
           NEW f, NEW n, Closes(s, w, t, i, f, n), Owned(s.fds, s.used, ts)
    PROVE  Cleared(s, w, ts, t, i) /\ Owned(w.fds, w.used, ts)
<1>1. /\ f \in FdPool /\ s.used[t][i] = f
      /\ w.fds = [s.fds EXCEPT ![f] = NULL]
      /\ w.used = [s.used EXCEPT ![t] = [s.used[t] EXCEPT ![i] = NULL]]
  BY DEF Closes
<1>2. s.used \in [Tasks -> Rows] /\ s.fds \in [FdPool -> Descriptors \cup {NULL}] /\ t \in Tasks
  BY DEF Shaped, States
<1>3. w.used[t][i] = NULL
  BY <1>1, <1>2 DEF Rows
<1>4. ASSUME NEW u \in ts, NEW j \in Slots, ~(u = t /\ j = i) PROVE w.used[u][j] = s.used[u][j]
  BY <1>1, <1>2, <1>4 DEF Rows
<1>5. \A g \in FdPool : g # f => w.fds[g] = s.fds[g]
  BY <1>1, <1>2
<1>6. ASSUME NEW u \in ts, NEW j \in Slots, w.used[u][j] \in FdPool
      PROVE  /\ ~(u = t /\ j = i) /\ w.used[u][j] = s.used[u][j]
             /\ w.fds[w.used[u][j]] # NULL
  <2>1. ~(u = t /\ j = i)
    BY <1>3, <1>6, Constants
  <2>2. w.used[u][j] = s.used[u][j]
    BY <1>4, <2>1
  <2>3. s.used[u][j] # f
    BY <1>1, <2>1 DEF Owned
  <2>4. s.fds[s.used[u][j]] # NULL
    BY <1>6, <2>2 DEF Owned
  <2> QED
    BY <1>5, <1>6, <2>1, <2>2, <2>3, <2>4
<1>7. ASSUME NEW u \in ts, NEW j \in Slots, w.used[u][j] \in FdPool,
             NEW v \in ts, NEW k \in Slots, w.used[u][j] = w.used[v][k]
      PROVE  u = v /\ j = k
  <2>1. w.used[u][j] = s.used[u][j] /\ w.used[v][k] = s.used[v][k]
    BY <1>6, <1>7
  <2>2. s.used[u][j] \in FdPool /\ s.used[u][j] = s.used[v][k]
    BY <1>7, <2>1
  <2> QED
    BY <2>2, Zenon DEF Owned
<1>8. Owned(w.fds, w.used, ts)
  BY <1>6, <1>7 DEF Owned
<1> QED
  BY <1>3, <1>4, <1>8 DEF Cleared

(* do_close uses no released memory and keeps the tables and files in order. *)
LEMMA CloseGood ==
    ASSUME NEW s, Shaped(s), NEW ts \in SUBSET Tasks, NEW t \in ts, NEW i \in Slots,
           Good(s, ts), NEW w, w = do_close(s, t, i)
    PROVE  /\ Good(w, ts)
           /\ \/ s.used[t][i] = NULL /\ w = s
              \/ i \in 0..1 /\ s.used[t][i] = Defaults[i] /\ Skips(s, w, t)
              \/ \E f, n : Closes(s, w, t, i, f, n)
<1>1. s \in States /\ Placed(s.used) /\ t \in Tasks
  BY DEF Shaped
<1>2. FilesHeld(s.node, s.fds) /\ Owned(s.fds, s.used, ts) /\ s.bad = FALSE
  BY DEF Good
<1>3. ~Breaks(s, w, t, i)
  BY <1>2 DEF Breaks, Owned, FilesHeld
<1>4. \/ s.used[t][i] = NULL /\ w = s
      \/ i \in 0..1 /\ s.used[t][i] = Defaults[i] /\ Skips(s, w, t)
      \/ \E f, n : Closes(s, w, t, i, f, n)
  BY <1>1, <1>3, CloseCases
<1>5. Good(w, ts)
  <2>1. CASE w = s
    BY <2>1
  <2>2. CASE Skips(s, w, t)
    BY <1>2, <2>2 DEF Skips, Good
  <2>3. CASE \E f, n : Closes(s, w, t, i, f, n)
    <3>1. PICK f, n : Closes(s, w, t, i, f, n)
      BY <2>3
    <3>2. Shaped(w)
      BY <1>1, CloseShaped
    <3>3. FilesHeld(w.node, w.fds)
      BY <1>2, <3>1, <3>2, ClosesFiles
    <3>4. Owned(w.fds, w.used, ts)
      BY <1>2, <3>1, ClosesOwned
    <3>5. w.bad = FALSE
      BY <1>2, <3>1 DEF Closes
    <3> QED
      BY <3>3, <3>4, <3>5 DEF Good
  <2> QED
    BY <1>4, <2>1, <2>2, <2>3
<1> QED
  BY <1>4, <1>5

-----------------------------------------------------------------------------
(* Counting while closing *)

(* A task has finitely many, and leaves room for the default ones. *)
LEMMA BusyFinite ==
    ASSUME NEW row
    PROVE  /\ IsFiniteSet(Busy(row)) /\ Cardinality(Busy(row)) \in Nat
           /\ Cardinality(Busy(row)) + 2 <= MAX_FDS
<1>1. MAX_FDS \in Nat /\ MAX_FDS > 2
  BY Constants
<1>2. IsFiniteSet(2..(MAX_FDS - 1)) /\ Cardinality(2..(MAX_FDS - 1)) = MAX_FDS - 2
  BY <1>1, FS_Interval
<1>3. Busy(row) \in SUBSET (2..(MAX_FDS - 1))
  BY <1>1 DEF Busy, Slots
<1>4. IsFiniteSet(Busy(row)) /\ Cardinality(Busy(row)) <= MAX_FDS - 2
  <2>1. PICK S : S = 2..(MAX_FDS - 1)
    OBVIOUS
  <2>2. PICK T : T = Busy(row)
    OBVIOUS
  <2>3. IsFiniteSet(S) /\ T \in SUBSET S /\ Cardinality(S) = MAX_FDS - 2
    BY <1>2, <1>3, <2>1, <2>2
  <2>4. IsFiniteSet(T) /\ Cardinality(T) <= Cardinality(S)
    BY <2>3, FS_Subset
  <2> QED
    BY <2>2, <2>3, <2>4
<1>5. Cardinality(Busy(row)) \in Nat
  BY <1>4, FS_CardinalityType
<1> QED
  BY <1>1, <1>4, <1>5

(* Task t has left `2 - extra' default descriptors out of its count; the other
   tasks count exactly, and every descriptor is held. *)
Rest(s, ts, t, extra) ==
    /\ Held(s.fds, s.used, ts)
    /\ \A u \in ts : u # t => Settled(s.used[u], s.ctr[u], 2)
    /\ Settled(s.used[t], s.ctr[t], extra)

(* Closing one of the others is counted. *)
LEMMA CloseRest ==
    ASSUME NEW s, Shaped(s), NEW ts \in SUBSET Tasks, NEW t \in ts, NEW i \in Slots, i >= 2,
           Good(s, ts), NEW extra \in Nat, Rest(s, ts, t, extra), NEW w, w = do_close(s, t, i)
    PROVE  /\ Rest(w, ts, t, extra) /\ w.used[t][i] = NULL
           /\ \A j \in Slots : j # i => w.used[t][j] = s.used[t][j]
<1>1. \/ s.used[t][i] = NULL /\ w = s
      \/ \E f, n : Closes(s, w, t, i, f, n)
  BY CloseGood
<1>2. CASE s.used[t][i] = NULL /\ w = s
  BY <1>2
<1>3. CASE \E f, n : Closes(s, w, t, i, f, n)
  <2>1. PICK f, n : Closes(s, w, t, i, f, n)
    BY <1>3
  <2>2. Owned(s.fds, s.used, ts)
    BY DEF Good
  <2>3. /\ w.used[t][i] = NULL
        /\ \A u \in ts : \A j \in Slots : ~(u = t /\ j = i) => w.used[u][j] = s.used[u][j]
    <3>1. Cleared(s, w, ts, t, i)
      BY <2>1, <2>2, ClosesOwned
    <3> QED
      BY <3>1 DEF Cleared
  <2>4. /\ f \in FdPool /\ s.used[t][i] = f /\ w.fds = [s.fds EXCEPT ![f] = NULL]
        /\ w.used = [s.used EXCEPT ![t] = [s.used[t] EXCEPT ![i] = NULL]]
        /\ w.ctr = [s.ctr EXCEPT ![t] = (s.ctr[t] - 1) % Word]
    BY <2>1 DEF Closes
  <2>5. /\ s.fds \in [FdPool -> Descriptors \cup {NULL}] /\ s.used \in [Tasks -> Rows]
        /\ s.ctr \in [Tasks -> 0..(Word - 1)] /\ t \in Tasks
    BY DEF Shaped, States
  <2>6. Held(w.fds, w.used, ts)
    <3>1. ASSUME NEW g \in FdPool, w.fds[g] # NULL PROVE \E u \in ts : \E j \in Slots : w.used[u][j] = g
      <4>1. g # f /\ s.fds[g] # NULL
        BY <2>4, <2>5, <3>1
      <4>2. PICK u \in ts, j \in Slots : s.used[u][j] = g
        BY <4>1 DEF Rest, Held
      <4>3. ~(u = t /\ j = i)
        BY <2>4, <4>1, <4>2
      <4> QED
        BY <2>3, <4>2, <4>3
    <3> QED
      BY <3>1 DEF Held
  <2>7. ASSUME NEW u \in ts, u # t PROVE Settled(w.used[u], w.ctr[u], 2)
    <3>1. w.used[u] = s.used[u] /\ w.ctr[u] = s.ctr[u]
      BY <2>4, <2>5, <2>7
    <3> QED
      BY <2>7, <3>1 DEF Rest
  <2>8. Settled(w.used[t], w.ctr[t], extra)
    <3>1. Settled(s.used[t], s.ctr[t], extra)
      BY DEF Rest
    <3>2. 0 \in Slots /\ 1 \in Slots /\ i # 0 /\ i # 1
      BY Constants DEF Slots
    <3>3. w.used[t][0] = Defaults[0] /\ w.used[t][1] = Defaults[1]
      BY <2>3, <3>1, <3>2 DEF Settled
    <3>4. Busy(w.used[t]) = Busy(s.used[t]) \ {i} /\ i \in Busy(s.used[t])
      BY <2>3, <2>4, Constants DEF Busy
    <3>5. Cardinality(Busy(w.used[t])) = Cardinality(Busy(s.used[t])) - 1
      <4>1. PICK A : A = Busy(s.used[t])
        OBVIOUS
      <4>2. IsFiniteSet(A) /\ i \in A /\ Busy(w.used[t]) = A \ {i}
        BY <3>4, <4>1, BusyFinite
      <4>3. Cardinality(A \ {i}) = Cardinality(A) - 1
        BY <4>2, FS_RemoveElement
      <4> QED
        BY <4>1, <4>2, <4>3
    <3>6. w.ctr[t] = (s.ctr[t] - 1) % Word
      BY <2>4, <2>5
    <3>7. s.ctr[t] = Cardinality(Busy(s.used[t])) + extra /\ s.ctr[t] \in 0..(Word - 1)
      BY <2>5, <3>1 DEF Settled
    <3>8. s.ctr[t] - 1 \in Nat /\ s.ctr[t] - 1 < Word /\ Word \in Nat
      BY <3>5, <3>7, BusyFinite, Constants
    <3>9. (s.ctr[t] - 1) % Word = s.ctr[t] - 1
      BY <3>8, SmallMod
    <3>10. w.ctr[t] = Cardinality(Busy(w.used[t])) + extra
      BY <3>5, <3>6, <3>7, <3>9, BusyFinite
    <3> QED
      BY <3>3, <3>10 DEF Settled
  <2>9. Rest(w, ts, t, extra)
    BY <2>6, <2>7, <2>8 DEF Rest
  <2> QED
    BY <2>3, <2>9
<1> QED
  BY <1>1, <1>2, <1>3

(* Closing a default descriptor leaves it out of the count. *)
LEMMA SkipRest ==
    ASSUME NEW s, Shaped(s), NEW ts \in SUBSET Tasks, NEW t \in ts, NEW i \in 0..1,
           Good(s, ts), NEW extra \in Nat, extra > 0, Rest(s, ts, t, extra), NEW w, w = do_close(s, t, i)
    PROVE  Rest(w, ts, t, extra - 1)
<1>1. i \in Slots
  BY Constants DEF Slots
<1>2. s.used[t][i] = Defaults[i]
  BY DEF Rest, Settled
<1>3. Defaults[i] # NULL /\ Defaults[i] \notin FdPool
  BY FilesAssumption
<1>4. Skips(s, w, t)
  <2>1. \A f, n : ~Closes(s, w, t, i, f, n)
    BY <1>2, <1>3 DEF Closes
  <2> QED
    BY <1>1, <1>2, <1>3, <2>1, CloseGood
<1>5. /\ w.fds = s.fds /\ w.used = s.used
      /\ w.ctr = [s.ctr EXCEPT ![t] = (s.ctr[t] - 1) % Word]
  BY <1>4 DEF Skips
<1>6. s.ctr \in [Tasks -> 0..(Word - 1)] /\ t \in Tasks
  BY DEF Shaped, States
<1>7. s.ctr[t] = Cardinality(Busy(s.used[t])) + extra /\ s.ctr[t] \in 0..(Word - 1)
  BY <1>6 DEF Rest, Settled
<1>8. s.ctr[t] - 1 \in Nat /\ s.ctr[t] - 1 < Word /\ Word \in Nat
  BY <1>7, BusyFinite, Constants
<1>9. w.ctr[t] = s.ctr[t] - 1 /\ \A u \in ts : u # t => w.ctr[u] = s.ctr[u]
  BY <1>5, <1>6, <1>8, SmallMod
<1>10. w.ctr[t] = Cardinality(Busy(w.used[t])) + (extra - 1)
  BY <1>5, <1>7, <1>9, BusyFinite
<1> QED
  BY <1>5, <1>9, <1>10 DEF Rest, Settled

-----------------------------------------------------------------------------
(* The loops of do_exit and do_execve *)

(* One round. *)
Round(r, t, i, rest) == IF r.ctr[t] > rest THEN do_close(r, t, i) ELSE r

(* When each round leads from one set of states to the next, the loop ends in
   the last one. *)
LEMMA CloseFromEnds ==
    ASSUME NEW low \in Slots, NEW t, NEW rest, NEW S, NEW s \in S[low - 1],
           \A i \in low..(MAX_FDS - 1) : \A r \in S[i - 1] : Round(r, t, i, rest) \in S[i]
    PROVE  CloseFrom(s, t, low, rest) \in S[MAX_FDS - 1]
<1> DEFINE lo == low - 1
           hi == MAX_FDS - 1
           round[i \in (low - 1)..(MAX_FDS - 1)] ==
             IF i = low - 1 THEN s
             ELSE LET r == round[i - 1] IN IF r.ctr[t] > rest THEN do_close(r, t, i) ELSE r
           G == [i \in low..(MAX_FDS - 1) |-> [r \in S[i - 1] |-> Round(r, t, i, rest)]]
<1>1. CloseFrom(s, t, low, rest) = round[MAX_FDS - 1]
  BY Zenon DEF CloseFrom
<1>2. lo \in Int /\ hi \in Int /\ hi \in lo..hi
  BY Constants DEF Slots
<1>3. \A i \in lo..hi : i # lo => i \in low..(MAX_FDS - 1) /\ i - 1 \in lo..hi
  BY <1>2, Constants DEF Slots
<1>4. PICK f : Runs(f, lo, hi, s, G) /\ \A k \in lo..hi : f[k] \in S[k]
  <2>1. s \in S[lo]
    OBVIOUS
  <2>2. ASSUME NEW i \in lo..hi, i # lo, NEW r \in S[i - 1] PROVE G[i][r] \in S[i]
    <3>1. i \in low..(MAX_FDS - 1)
      BY <1>3, <2>2
    <3>2. G[i][r] = Round(r, t, i, rest)
      BY <3>1
    <3>3. Round(r, t, i, rest) \in S[i]
      BY <3>1
    <3> HIDE DEF G
    <3> QED
      BY <3>2, <3>3
  <2> HIDE DEF G, lo, hi
  <2> QED
    BY <1>2, <2>1, <2>2, RunExists
<1>5. ASSUME NEW i \in lo..hi
      PROVE  f[i] = IF i = low - 1 THEN s
                    ELSE LET r == f[i - 1] IN IF r.ctr[t] > rest THEN do_close(r, t, i) ELSE r
  <2>1. f[i] = IF i = lo THEN s ELSE G[i][f[i - 1]]
    <3> HIDE DEF G, lo, hi
    <3> QED
      BY <1>4 DEF Runs
  <2>2. CASE i = lo
    BY <2>1, <2>2
  <2>3. CASE i # lo
    <3>1. i \in low..(MAX_FDS - 1) /\ f[i - 1] \in S[i - 1]
      BY <1>3, <1>4, <2>3
    <3>2. G[i][f[i - 1]] = Round(f[i - 1], t, i, rest)
      BY <3>1
    <3> HIDE DEF G
    <3> QED
      BY <2>1, <2>3, <3>2 DEF Round
  <2> QED
    BY <2>2, <2>3
<1>6. f = [i \in (low - 1)..(MAX_FDS - 1) |->
             IF i = low - 1 THEN s
             ELSE LET r == f[i - 1] IN IF r.ctr[t] > rest THEN do_close(r, t, i) ELSE r]
  <2>1. f = [i \in lo..hi |-> f[i]]
    <3> HIDE DEF G, lo, hi
    <3> QED
      BY <1>4 DEF Runs
  <2> QED
    BY <1>5, <2>1
<1>7. round = [i \in (low - 1)..(MAX_FDS - 1) |->
                 IF i = low - 1 THEN s
                 ELSE LET r == round[i - 1] IN IF r.ctr[t] > rest THEN do_close(r, t, i) ELSE r]
  BY <1>6, Zenon
<1> HIDE DEF round, G
<1>8. \A i \in lo..hi : round[i] = f[i]
  <2>1. round[lo] = f[lo]
    BY <1>2, <1>6, <1>7
  <2>2. ASSUME NEW i \in lo..hi, i # lo, round[i - 1] = f[i - 1] PROVE round[i] = f[i]
    <3>1. i \in (low - 1)..(MAX_FDS - 1) /\ i # low - 1
      BY <2>2
    <3>2. f[i] = Round(f[i - 1], t, i, rest)
      BY <1>6, <3>1 DEF Round
    <3>3. round[i] = Round(round[i - 1], t, i, rest)
      BY <1>7, <3>1 DEF Round
    <3> QED
      BY <2>2, <3>2, <3>3, Zenon
  <2> HIDE DEF lo, hi
  <2>3. \A k \in lo..hi : k # lo /\ round[k - 1] = f[k - 1] => round[k] = f[k]
    BY <2>2
  <2>4. InStep(round, f, lo, hi)
    BY <2>1, <2>3, Zenon DEF InStep
  <2>5. Agree(round, f, lo, hi)
    BY <1>2, <2>4, SameSteps
  <2> QED
    BY <2>5, Zenon DEF Agree
<1> QED
  BY <1>1, <1>2, <1>4, <1>8

(* do_execve: what do_close keeps is kept. *)
Executes(r, ts, t) ==
    /\ Shaped(r)
    /\ Calm => Good(r, ts)
    /\ Calm /\ Orderly => Rest(r, ts, t, 2)

(* The loop of do_execve ends with what it started with. *)
LEMMA ExecutesEnds ==
    ASSUME NEW ts \in SUBSET Tasks, NEW t \in ts, NEW s, Executes(s, ts, t)
    PROVE  Executes(CloseFrom(s, t, 2, 2), ts, t)
<1> DEFINE S == [i \in 1..(MAX_FDS - 1) |-> {r \in States : Executes(r, ts, t)}]
<1>1. 2 \in Slots /\ MAX_FDS - 1 \in 1..(MAX_FDS - 1) /\ 2 - 1 = 1 /\ 1 \in 1..(MAX_FDS - 1)
  BY Constants DEF Slots
<1>2. s \in S[2 - 1]
  BY <1>1 DEF Executes, Shaped
<1>3. ASSUME NEW i \in 2..(MAX_FDS - 1), NEW r \in S[i - 1]
      PROVE  Round(r, t, i, 2) \in S[i]
  <2>1. i - 1 \in 1..(MAX_FDS - 1) /\ i \in 1..(MAX_FDS - 1) /\ i \in Slots /\ i >= 2
    BY Constants DEF Slots
  <2>2. Executes(r, ts, t)
    BY <2>1
  <2>3. Executes(do_close(r, t, i), ts, t)
    <3>1. Shaped(r) /\ t \in Tasks
      BY <2>2 DEF Executes
    <3>2. Shaped(do_close(r, t, i))
      BY <2>1, <3>1, CloseShaped
    <3>3. Calm => Good(do_close(r, t, i), ts)
      BY <2>1, <2>2, <3>1, CloseGood DEF Executes
    <3>4. Calm /\ Orderly => Rest(do_close(r, t, i), ts, t, 2)
      BY <2>1, <2>2, <3>1, CloseRest DEF Executes
    <3> QED
      BY <3>2, <3>3, <3>4 DEF Executes
  <2>4. Executes(Round(r, t, i, 2), ts, t)
    BY <2>2, <2>3 DEF Round
  <2> QED
    BY <2>1, <2>4 DEF Executes, Shaped
<1> HIDE DEF S
<1>4. CloseFrom(s, t, 2, 2) \in S[MAX_FDS - 1]
  BY <1>1, <1>2, <1>3, CloseFromEnds
<1> QED
  BY <1>1, <1>4 DEF S

(* do_exit: after round i, two default descriptors are not counted any more, and
   the slots from 2 to i are empty. *)
Uncounted(i) == IF i > 1 THEN 0 ELSE 1 - i
Leaves(r, ts, t, i) ==
    /\ Rest(r, ts, t, Uncounted(i))
    /\ \A j \in Slots : 2 <= j /\ j <= i => r.used[t][j] = NULL
Exits(r, ts, t, i) ==
    /\ Shaped(r)
    /\ Calm => Good(r, ts)
    /\ Calm /\ Orderly => Leaves(r, ts, t, i)

(* One round of it. *)
LEMMA LeavesRound ==
    ASSUME NEW ts \in SUBSET Tasks, NEW t \in ts, NEW i \in Slots, NEW r,
           Shaped(r), Good(r, ts), Leaves(r, ts, t, i - 1)
    PROVE  Leaves(Round(r, t, i, 0), ts, t, i)
<1>1. i \in Nat /\ i \in 0..(MAX_FDS - 1) /\ t \in Tasks
  BY Constants DEF Slots
<1>2. r.ctr[t] = Cardinality(Busy(r.used[t])) + Uncounted(i - 1) /\ Cardinality(Busy(r.used[t])) \in Nat
  BY BusyFinite DEF Leaves, Rest, Settled
<1>3. Rest(r, ts, t, Uncounted(i - 1))
  BY DEF Leaves
<1>4. CASE i \in 0..1
  <2>1. Uncounted(i - 1) \in Nat /\ Uncounted(i - 1) > 0 /\ Uncounted(i) = Uncounted(i - 1) - 1
    BY <1>4 DEF Uncounted
  <2>2. Round(r, t, i, 0) = do_close(r, t, i)
    BY <1>2, <2>1 DEF Round
  <2>3. Rest(do_close(r, t, i), ts, t, Uncounted(i - 1) - 1)
    BY <1>3, <1>4, <2>1, SkipRest
  <2>4. \A j \in Slots : ~(2 <= j /\ j <= i)
    BY <1>4 DEF Slots
  <2> QED
    BY <2>1, <2>2, <2>3, <2>4 DEF Leaves
<1>5. CASE i >= 2
  <2>1. Uncounted(i) = 0 /\ Uncounted(i - 1) = 0
    BY <1>1, <1>5 DEF Uncounted
  <2>2. \A j \in Slots : 2 <= j /\ j <= i => j = i \/ (2 <= j /\ j <= i - 1)
    BY <1>1 DEF Slots
  <2>3. CASE r.ctr[t] > 0
    <3>1. Round(r, t, i, 0) = do_close(r, t, i)
      BY <2>3 DEF Round
    <3>2. 0 \in Nat /\ Rest(r, ts, t, 0)
      BY <1>3, <2>1
    <3>3. /\ Rest(do_close(r, t, i), ts, t, 0) /\ do_close(r, t, i).used[t][i] = NULL
          /\ \A j \in Slots : j # i => do_close(r, t, i).used[t][j] = r.used[t][j]
      BY <1>5, <3>2, CloseRest
    <3>4. \A j \in Slots : 2 <= j /\ j <= i => do_close(r, t, i).used[t][j] = NULL
      BY <2>2, <3>3 DEF Leaves
    <3> QED
      BY <2>1, <3>1, <3>3, <3>4 DEF Leaves
  <2>4. CASE ~(r.ctr[t] > 0)
    <3>1. Round(r, t, i, 0) = r
      BY <2>4 DEF Round
    <3>2. Cardinality(Busy(r.used[t])) = 0
      BY <1>2, <2>1, <2>4
    <3>3. Busy(r.used[t]) = {}
      BY <3>2, BusyFinite, FS_EmptySet
    <3>4. \A j \in Slots : 2 <= j => r.used[t][j] = NULL
      BY <3>3 DEF Busy, Slots
    <3> QED
      BY <1>3, <2>1, <3>1, <3>4 DEF Leaves
  <2> QED
    BY <2>3, <2>4
<1> QED
  BY <1>1, <1>4, <1>5

(* The loop of do_exit ends with nothing but the default descriptors. *)
LEMMA ExitsEnds ==
    ASSUME NEW ts \in SUBSET Tasks, NEW t \in ts, NEW s, Exits(s, ts, t, -1)
    PROVE  Exits(CloseFrom(s, t, 0, 0), ts, t, MAX_FDS - 1)
<1> DEFINE S == [i \in -1..(MAX_FDS - 1) |-> {r \in States : Exits(r, ts, t, i)}]
<1>1. 0 \in Slots /\ MAX_FDS - 1 \in -1..(MAX_FDS - 1) /\ 0 - 1 = -1 /\ -1 \in -1..(MAX_FDS - 1)
  BY Constants DEF Slots
<1>2. s \in S[0 - 1]
  BY <1>1 DEF Exits, Shaped
<1>3. ASSUME NEW i \in 0..(MAX_FDS - 1), NEW r \in S[i - 1]
      PROVE  Round(r, t, i, 0) \in S[i]
  <2>1. i - 1 \in -1..(MAX_FDS - 1) /\ i \in -1..(MAX_FDS - 1) /\ i \in Slots
    BY Constants DEF Slots
  <2>2. Exits(r, ts, t, i - 1)
    BY <2>1
  <2>3. Exits(Round(r, t, i, 0), ts, t, i)
    <3>1. Shaped(r) /\ t \in Tasks
      BY <2>2 DEF Exits
    <3>2. Shaped(do_close(r, t, i))
      BY <2>1, <3>1, CloseShaped
    <3>3. Calm => Good(r, ts) /\ Good(do_close(r, t, i), ts)
      BY <2>1, <2>2, <3>1, CloseGood DEF Exits
    <3>4. Calm /\ Orderly => Leaves(Round(r, t, i, 0), ts, t, i)
      BY <2>1, <2>2, <3>1, <3>3, LeavesRound DEF Exits
    <3>5. Shaped(Round(r, t, i, 0)) /\ (Calm => Good(Round(r, t, i, 0), ts))
      BY <3>1, <3>2, <3>3 DEF Round
    <3> QED
      BY <3>4, <3>5 DEF Exits
  <2> QED
    BY <2>1, <2>3 DEF Exits, Shaped
<1> HIDE DEF S
<1>4. CloseFrom(s, t, 0, 0) \in S[MAX_FDS - 1]
  BY <1>1, <1>2, <1>3, CloseFromEnds
<1> QED
  BY <1>1, <1>4 DEF S

-----------------------------------------------------------------------------
(* What the system calls do to the files *)

(* The more unusual things programs did, the less is promised. *)
LEMMA CoreOdd ==
    ASSUME NEW nd, NEW fd, NEW us, NEW ct, NEW ts, NEW o, Core(nd, fd, us, ct, ts, o),
           NEW o2, o \subseteq o2
    PROVE  Core(nd, fd, us, ct, ts, o2)
<1>1. /\ CalmIn(o2) => CalmIn(o)
      /\ OrderlyIn(o2) => OrderlyIn(o)
  BY DEF CalmIn, OrderlyIn
<1> QED
  BY <1>1 DEF Core

(* do_open: descriptor f is made for file n. *)
LEMMA OpensFiles ==
    ASSUME NEW nd, Tree(nd), NEW fd \in [FdPool -> Descriptors \cup {NULL}], FilesHeld(nd, fd),
           NEW n \in Nodes, nd[n] # NULL, NEW f \in FdPool, fd[f] = NULL, NEW d \in Descriptors,
           d.node = n, d.position = 0,
           NEW nd2, Recounted(nd, nd2, n, (nd[n].active_fds + 1) % Word),
           NEW fd2, fd2 = [fd EXCEPT ![f] = d]
    PROVE  FilesHeld(nd2, fd2)
<1>1. NodesTyped(nd)
  BY DEF Tree
<1>2. /\ NodesTyped(nd2) /\ \A m \in Nodes : Kept(nd, nd2, m)
      /\ \A m \in Nodes : m # n => nd2[m] = nd[m]
      /\ nd2[n].active_fds = (nd[n].active_fds + 1) % Word
  BY <1>1, RecountFields
<1>3. d # NULL
  BY Constants
<1>4. fd2[f] = d /\ \A g \in FdPool : g # f => fd2[g] = fd[g]
  OBVIOUS
<1>5. \A g \in FdPool : fd[g] # NULL => fd[g].node \in Nodes /\ nd[fd[g].node] # NULL
  BY DEF FilesHeld, Descriptors
<1>6. \A g \in FdPool : fd2[g] # NULL => fd2[g].node \in Nodes /\ nd[fd2[g].node] # NULL
  BY <1>4, <1>5
<1>7. ASSUME NEW g \in FdPool, fd2[g] # NULL PROVE nd2[fd2[g].node] # NULL
  BY <1>2, <1>6, <1>7 DEF Kept
<1>8. ASSUME NEW g \in FdPool, fd2[g] # NULL, nd2[fd2[g].node].v_type = "FILE"
      PROVE  fd2[g].position <= nd2[fd2[g].node].size
  <2>1. CASE g = f
    <3>1. nd2[n] \in Vnodes
      BY <1>2 DEF NodesTyped, Kept
    <3>2. nd2[n].size \in 0..(Word - 1)
      BY <3>1 DEF Vnodes
    <3> QED
      BY <1>4, <2>1, <3>2, Constants
  <2>2. CASE g # f
    <3>1. fd2[g] = fd[g] /\ fd[g] # NULL /\ fd[g].node \in Nodes /\ nd[fd[g].node] # NULL
      BY <1>4, <1>5, <1>8, <2>2
    <3>2. nd2[fd[g].node].v_type = nd[fd[g].node].v_type /\ nd2[fd[g].node].size = nd[fd[g].node].size
      <4>1. Kept(nd, nd2, fd[g].node)
        BY <1>2, <3>1
      <4> QED
        BY <3>1, <4>1 DEF Kept
    <3> QED
      BY <1>8, <3>1, <3>2 DEF FilesHeld
  <2> QED
    BY <2>1, <2>2
<1>9. ASSUME NEW m \in Nodes, nd2[m] # NULL
      PROVE  nd2[m].active_fds = Cardinality(Of(fd2, m))
  <2>1. nd[m] # NULL /\ nd[m].active_fds = Cardinality(Of(fd, m))
    BY <1>2, <1>9 DEF Kept, FilesHeld
  <2>2. CASE m = n
    <3>1. Of(fd2, n) = Of(fd, n) \cup {f} /\ f \notin Of(fd, n)
      BY <1>3, <1>4 DEF Of
    <3>2. Cardinality(Of(fd2, n)) = Cardinality(Of(fd, n)) + 1 /\ Cardinality(Of(fd2, n)) \in Nat
      <4>1. IsFiniteSet(Of(fd, n)) /\ Cardinality(Of(fd2, n)) \in Nat
        BY DescriptorsFinite
      <4>2. Cardinality(Of(fd, n) \cup {f}) = Cardinality(Of(fd, n)) + 1
        BY <3>1, <4>1, FS_AddElement
      <4> QED
        BY <3>1, <4>1, <4>2
    <3>3. Cardinality(Of(fd2, n)) < Word
      <4>1. Cardinality(FdPool) \in Nat /\ Cardinality(FdPool) < Word /\ Word \in Nat
        BY FilesAssumption, FS_CardinalityType
      <4> QED
        BY <3>2, <4>1, DescriptorsFinite
    <3>4. Cardinality(Of(fd2, n)) % Word = Cardinality(Of(fd2, n))
      BY <3>2, <3>3, SmallMod, Constants
    <3> QED
      BY <1>2, <2>1, <2>2, <3>2, <3>4
  <2>3. CASE m # n
    <3>1. Of(fd2, m) = Of(fd, m)
      BY <1>3, <1>4, <2>3 DEF Of
    <3> QED
      BY <1>2, <2>1, <2>3, <3>1
  <2> QED
    BY <2>2, <2>3
<1> QED
  BY <1>7, <1>8, <1>9 DEF FilesHeld

(* The new descriptor is stored, and entered in at most one table. *)
Stored(fd, fd2, f, d) == fd2 = [fd EXCEPT ![f] = d]
Entered(us, us2, t, i, f) == us2 = us \/ us2 = [us EXCEPT ![t] = [us[t] EXCEPT ![i] = f]]

(* No task had it before. *)
LEMMA OpensOwned ==
    ASSUME NEW fd \in [FdPool -> Descriptors \cup {NULL}], NEW us \in [Tasks -> Rows],
           NEW ts \in SUBSET Tasks, Owned(fd, us, ts),
           NEW f \in FdPool, fd[f] = NULL, NEW d \in Descriptors,
           NEW fd2, Stored(fd, fd2, f, d),
           NEW us2, NEW t \in ts, NEW i \in Slots, Entered(us, us2, t, i, f)
    PROVE  Owned(fd2, us2, ts)
<1>1. \A g \in FdPool : fd2[g] # NULL <=> g = f \/ fd[g] # NULL
  BY Constants DEF Stored
<1>2. \A u \in ts : \A j \in Slots : us[u][j] # f
  BY DEF Owned
<1>3. CASE us2 = us
  <2>1. ASSUME NEW u \in ts, NEW j \in Slots, us[u][j] \in FdPool
        PROVE  /\ fd2[us[u][j]] # NULL
               /\ \A v \in ts : \A k \in Slots : us[u][j] = us[v][k] => u = v /\ j = k
    BY <1>1, <2>1 DEF Owned
  <2> QED
    BY <1>3, <2>1 DEF Owned
<1>4. CASE us2 = [us EXCEPT ![t] = [us[t] EXCEPT ![i] = f]]
  <2>1. us2[t][i] = f /\ \A u \in ts : \A j \in Slots : ~(u = t /\ j = i) => us2[u][j] = us[u][j]
    BY <1>4 DEF Rows
  <2>2. ASSUME NEW u \in ts, NEW j \in Slots, us2[u][j] \in FdPool PROVE fd2[us2[u][j]] # NULL
    <3>1. CASE u = t /\ j = i
      BY <1>1, <2>1, <3>1
    <3>2. CASE ~(u = t /\ j = i)
      BY <1>1, <2>1, <2>2, <3>2 DEF Owned
    <3> QED
      BY <3>1, <3>2
  <2>3. ASSUME NEW u \in ts, NEW j \in Slots, us2[u][j] \in FdPool,
               NEW v \in ts, NEW k \in Slots, us2[u][j] = us2[v][k]
        PROVE  u = v /\ j = k
    <3>1. CASE (u = t /\ j = i) \/ (v = t /\ k = i)
      BY <1>2, <2>1, <2>3, <3>1
    <3>2. CASE ~(u = t /\ j = i) /\ ~(v = t /\ k = i)
      <4>1. us[u][j] \in FdPool /\ us[u][j] = us[v][k]
        BY <2>1, <2>3, <3>2
      <4> QED
        BY <4>1, Zenon DEF Owned
    <3> QED
      BY <3>1, <3>2
  <2> QED
    BY <2>2, <2>3 DEF Owned
<1> QED
  BY <1>3, <1>4 DEF Entered

(* A free slot takes the new descriptor. *)
LEMMA OpensTidy ==
    ASSUME NEW fd \in [FdPool -> Descriptors \cup {NULL}], NEW us \in [Tasks -> Rows],
           NEW ct \in [Tasks -> 0..(Word - 1)], NEW ts \in SUBSET Tasks, Tidy(fd, us, ct, ts),
           NEW f \in FdPool, NEW d, NEW fd2, fd2 = [fd EXCEPT ![f] = d],
           NEW t \in ts, NEW i \in Slots, i >= 2, us[t][i] = NULL,
           NEW us2, us2 = [us EXCEPT ![t] = [us[t] EXCEPT ![i] = f]],
           NEW ct2, ct2 = [ct EXCEPT ![t] = (ct[t] + 1) % Word]
    PROVE  Tidy(fd2, us2, ct2, ts)
<1>1. us2[t][i] = f /\ \A u \in ts : \A j \in Slots : ~(u = t /\ j = i) => us2[u][j] = us[u][j]
  BY DEF Rows
<1>2. \A g \in FdPool : g # f => fd2[g] = fd[g]
  OBVIOUS
<1>3. Held(fd2, us2, ts)
  <2>1. ASSUME NEW g \in FdPool, fd2[g] # NULL PROVE \E u \in ts : \E j \in Slots : us2[u][j] = g
    <3>1. CASE g = f
      BY <1>1, <3>1
    <3>2. CASE g # f
      <4>1. PICK u \in ts, j \in Slots : us[u][j] = g
        BY <1>2, <2>1, <3>2 DEF Tidy, Held
      <4>2. ~(u = t /\ j = i)
        BY <4>1, Constants
      <4> QED
        BY <1>1, <4>1, <4>2
    <3> QED
      BY <3>1, <3>2
  <2> QED
    BY <2>1 DEF Held
<1>4. ASSUME NEW u \in ts, u # t PROVE Settled(us2[u], ct2[u], 2)
  <2>1. us2[u] = us[u] /\ ct2[u] = ct[u]
    BY <1>4
  <2> QED
    BY <2>1 DEF Tidy
<1>5. Settled(us2[t], ct2[t], 2)
  <2>1. Settled(us[t], ct[t], 2)
    BY DEF Tidy
  <2>2. 0 \in Slots /\ 1 \in Slots /\ i # 0 /\ i # 1
    BY Constants DEF Slots
  <2>3. us2[t][0] = Defaults[0] /\ us2[t][1] = Defaults[1]
    BY <1>1, <2>1, <2>2 DEF Settled
  <2>4. Busy(us2[t]) = Busy(us[t]) \cup {i} /\ i \notin Busy(us[t])
    BY <1>1, Constants DEF Busy
  <2>5. IsFiniteSet(Busy(us[t])) /\ Cardinality(Busy(us[t])) \in Nat
    BY BusyFinite
  <2>6. Cardinality(Busy(us2[t])) = Cardinality(Busy(us[t])) + 1
    <3>1. Cardinality(Busy(us[t]) \cup {i}) = Cardinality(Busy(us[t])) + 1
      BY <2>4, <2>5, FS_AddElement
    <3> QED
      BY <2>4, <3>1
  <2>7. ct2[t] = (ct[t] + 1) % Word
    OBVIOUS
  <2>8. ct[t] = Cardinality(Busy(us[t])) + 2
    BY <2>1 DEF Settled
  <2>9. ct[t] + 1 = Cardinality(Busy(us2[t])) + 2 /\ ct[t] + 1 \in Nat
    BY <2>5, <2>6, <2>8
  <2>10. ct[t] + 1 < Word /\ Word \in Nat
    BY <2>9, BusyFinite, Constants
  <2>11. (ct[t] + 1) % Word = ct[t] + 1
    BY <2>9, <2>10, SmallMod
  <2> QED
    BY <2>3, <2>7, <2>9, <2>11 DEF Settled
<1> QED
  BY <1>3, <1>4, <1>5 DEF Tidy

(* The end of do_open: the descriptor is made and entered, or the table is full. *)
Makes(nd, nd2, fd, fd2, n, f, mode) ==
    /\ nd2 = [nd EXCEPT ![n].active_fds = (@ + 1) % Word]
    /\ fd2 = [fd EXCEPT ![f] = [position |-> 0, mode |-> mode, node |-> n]]
Enters(us, us2, ct, ct2, t, i, f) ==
    /\ us[t][i] = NULL
    /\ us2 = [us EXCEPT ![t] = [us[t] EXCEPT ![i] = f]]
    /\ ct2 = [ct EXCEPT ![t] = (ct[t] + 1) % Word]
Full(us, us2, ct, ct2, o, o2) == us2 = us /\ ct2 = ct /\ o2 = o \cup {"table full"}

(* do_open keeps the files in order; a full table is noted. *)
LEMMA OpenCore ==
    ASSUME NEW nd, NEW fd, NEW us, NEW ct, NEW ts, NEW o, Core(nd, fd, us, ct, ts, o),
           NEW t \in ts, NEW n \in Nodes, nd[n] # NULL, NEW f \in FdPool, fd[f] = NULL,
           NEW mode \in Modes, NEW i \in Slots, i >= 2,
           NEW nd2, NEW fd2, Makes(nd, nd2, fd, fd2, n, f, mode), NEW us2, NEW ct2, NEW o2,
           Full(us, us2, ct, ct2, o, o2) \/ (Enters(us, us2, ct, ct2, t, i, f) /\ o2 = o)
    PROVE  Core(nd2, fd2, us2, ct2, ts, o2)
<1>1. /\ Tree(nd) /\ fd \in [FdPool -> Descriptors \cup {NULL}] /\ us \in [Tasks -> Rows] /\ Placed(us)
      /\ ct \in [Tasks -> 0..(Word - 1)] /\ init \in ts /\ ts \in SUBSET Tasks /\ t \in Tasks
  BY DEF Core
<1>2. CalmIn(o2) => CalmIn(o) /\ FilesHeld(nd, fd) /\ Owned(fd, us, ts)
  BY DEF Core, CalmIn, Full
<1>3. PICK d : d = [position |-> 0, mode |-> mode, node |-> n]
  OBVIOUS
<1>4. d \in Descriptors /\ d.node = n /\ d.position = 0
  <2>1. 0 \in 0..(Word - 1)
    BY Constants
  <2> QED
    BY <1>3, <2>1 DEF Descriptors
<1>5. fd2 = [fd EXCEPT ![f] = d]
  BY <1>3 DEF Makes
<1>6. Recounted(nd, nd2, n, (nd[n].active_fds + 1) % Word)
  <2>1. nd[n] \in Vnodes
    BY <1>1 DEF Tree, NodesTyped
  <2>2. nd[n].active_fds + 1 \in Int
    BY <2>1, Constants DEF Vnodes
  <2>3. (nd[n].active_fds + 1) % Word \in 0..(Word - 1)
    BY <2>2, ModRange
  <2>4. nd2 = [nd EXCEPT ![n].active_fds = (nd[n].active_fds + 1) % Word]
    BY <1>1 DEF Tree, NodesTyped, Makes
  <2> QED
    BY <2>3, <2>4 DEF Recounted
<1>7. Tree(nd2)
  BY <1>1, <1>6, RecountTree
<1>8. fd2 \in [FdPool -> Descriptors \cup {NULL}]
  BY <1>1, <1>4, <1>5
<1>9. us2 \in [Tasks -> Rows] /\ Placed(us2)
  <2>1. CASE us2 = us
    BY <1>1, <2>1
  <2>2. CASE us2 = [us EXCEPT ![t] = [us[t] EXCEPT ![i] = f]]
    <3>1. [us[t] EXCEPT ![i] = f] \in Rows
      BY <1>1 DEF Rows
    <3>2. us2 \in [Tasks -> Rows]
      BY <1>1, <2>2, <3>1
    <3>3. ASSUME NEW u \in Tasks, NEW j \in Slots PROVE us2[u][j] = f \/ us2[u][j] = us[u][j]
      BY <1>1, <2>2 DEF Rows
    <3> QED
      BY <1>1, <3>2, <3>3 DEF Placed
  <2> QED
    BY <2>1, <2>2 DEF Full, Enters
<1>10. ct2 \in [Tasks -> 0..(Word - 1)]
  <2>1. ct[t] + 1 \in Int
    BY <1>1, Constants
  <2>2. (ct[t] + 1) % Word \in 0..(Word - 1)
    BY <2>1, ModRange
  <2>3. [ct EXCEPT ![t] = (ct[t] + 1) % Word] \in [Tasks -> 0..(Word - 1)]
    BY <1>1, <2>2
  <2>4. ct2 = ct \/ ct2 = [ct EXCEPT ![t] = (ct[t] + 1) % Word]
    BY DEF Full, Enters
  <2> QED
    BY <1>1, <2>3, <2>4
<1>11. CalmIn(o2) => FilesHeld(nd2, fd2)
  BY <1>1, <1>2, <1>4, <1>5, <1>6, OpensFiles
<1>12. CalmIn(o2) => Owned(fd2, us2, ts)
  <2>1. Entered(us, us2, t, i, f)
    BY DEF Full, Enters, Entered
  <2>2. Stored(fd, fd2, f, d)
    BY <1>5 DEF Stored
  <2> QED
    BY <1>1, <1>2, <1>4, <2>1, <2>2, OpensOwned
<1>13. CalmIn(o2) /\ OrderlyIn(o2) => Tidy(fd2, us2, ct2, ts)
  <2>1. CASE Full(us, us2, ct, ct2, o, o2)
    BY <2>1 DEF OrderlyIn, Full
  <2>2. CASE Enters(us, us2, ct, ct2, t, i, f) /\ o2 = o
    <3>1. CalmIn(o2) /\ OrderlyIn(o2) => Tidy(fd, us, ct, ts)
      BY <2>2 DEF Core
    <3>2. /\ us[t][i] = NULL
          /\ us2 = [us EXCEPT ![t] = [us[t] EXCEPT ![i] = f]]
          /\ ct2 = [ct EXCEPT ![t] = (ct[t] + 1) % Word]
      BY <2>2 DEF Enters
    <3> QED
      BY <1>1, <1>5, <3>1, <3>2, OpensTidy
  <2> QED
    BY <2>1, <2>2
<1> QED
  BY <1>1, <1>7, <1>8, <1>9, <1>10, <1>11, <1>12, <1>13 DEF Core

(* Vnode c, which no descriptor names, comes or goes. *)
LEMMA OldHeld ==
    ASSUME NEW nd, NEW fd \in [FdPool -> Descriptors \cup {NULL}], FilesHeld(nd, fd),
           NEW p, NEW c \in Nodes, NEW nd2, OldBodies(nd, nd2, p, c),
           Of(fd, c) = {}, nd2[c] = NULL \/ nd2[c].active_fds = 0
    PROVE  FilesHeld(nd2, fd)
<1>1. \A n \in Nodes : n # c => /\ nd2[n] = NULL <=> nd[n] = NULL
                                /\ nd[n] # NULL => /\ nd2[n].v_type = nd[n].v_type /\ nd2[n].size = nd[n].size
                                                   /\ nd2[n].active_fds = nd[n].active_fds
  BY DEF OldBodies, OldBody
<1>2. \A f \in FdPool : fd[f] # NULL => fd[f].node \in Nodes /\ fd[f].node # c /\ nd[fd[f].node] # NULL
  BY DEF Descriptors, Of, FilesHeld
<1>3. \A f \in FdPool : fd[f] # NULL => nd2[fd[f].node] # NULL
  BY <1>1, <1>2
<1>4. ASSUME NEW f \in FdPool, fd[f] # NULL, nd2[fd[f].node].v_type = "FILE"
      PROVE  fd[f].position <= nd2[fd[f].node].size
  <2>1. fd[f].node \in Nodes /\ fd[f].node # c /\ nd[fd[f].node] # NULL
    BY <1>2, <1>4
  <2>2. /\ nd2[fd[f].node].v_type = nd[fd[f].node].v_type
        /\ nd2[fd[f].node].size = nd[fd[f].node].size
    BY <1>1, <2>1
  <2> QED
    BY <1>4, <2>2 DEF FilesHeld
<1>5. ASSUME NEW n \in Nodes, nd2[n] # NULL PROVE nd2[n].active_fds = Cardinality(Of(fd, n))
  <2>1. CASE n = c
    BY <1>5, <2>1, FS_EmptySet
  <2>2. CASE n # c
    BY <1>1, <1>5, <2>2 DEF FilesHeld
  <2> QED
    BY <2>1, <2>2
<1> QED
  BY <1>3, <1>4, <1>5 DEF FilesHeld

(* vfs_touch and vfs_mkdir. *)
LEMMA GrowCore ==
    ASSUME NEW nd, NEW fd, NEW us, NEW ct, NEW ts, NEW o, Core(nd, fd, us, ct, ts, o),
           NEW p \in Nodes, nd[p] # NULL, nd[p].op \cap {"touch", "mkdir"} # {},
           NEW c \in Nodes, nd[c] = NULL, NEW r, Sound(r), r.active_fds = 0,
           \A d \in Nodes : nd[d] # NULL /\ nd[d].parent = p => nd[d].name # r.name,
           NEW nd2, nd2 = namei_add_child([nd EXCEPT ![c] = r], p, c)
    PROVE  Core(nd2, fd, us, ct, ts, o) /\ nd2[c] # NULL
<1>1. Tree(nd) /\ fd \in [FdPool -> Descriptors \cup {NULL}]
  BY DEF Core
<1>2. Tree(nd2) /\ NewBody(nd2, p, c, r) /\ OldBodies(nd, nd2, p, c)
  BY <1>1, NewTree
<1>3. nd2[c] # NULL /\ nd2[c].active_fds = 0
  BY <1>2 DEF NewBody
<1>4. CalmIn(o) => FilesHeld(nd2, fd)
  <2>1. ASSUME CalmIn(o) PROVE FilesHeld(nd2, fd)
    <3>1. FilesHeld(nd, fd)
      BY <2>1 DEF Core
    <3>2. Of(fd, c) = {}
      BY <3>1 DEF FilesHeld, Of
    <3> QED
      BY <1>1, <1>2, <1>3, <3>1, <3>2, OldHeld
  <2> QED
    BY <2>1
<1> QED
  BY <1>2, <1>3, <1>4 DEF Core

(* Deleting a vnode: if it is open, that is noted. *)
LEMMA DeleteCore ==
    ASSUME NEW nd, NEW fd, NEW us, NEW ct, NEW ts, NEW o, Core(nd, fd, us, ct, ts, o),
           NEW c \in Nodes, nd[c] # NULL, c # "root", nd[c].first = NULL,
           nd[c].op \cap {"remove", "rmdir"} # {},
           NEW o2, o \subseteq o2, CalmIn(o2) => nd[c].active_fds = 0,
           NEW nd2, nd2 = Released(nd, c)
    PROVE  Core(nd2, fd, us, ct, ts, o2)
<1>0. Core(nd, fd, us, ct, ts, o2)
  BY CoreOdd
<1>1. Tree(nd) /\ fd \in [FdPool -> Descriptors \cup {NULL}] /\ Core(nd, fd, us, ct, ts, o2)
  BY <1>0 DEF Core
<1>2. Tree(nd2) /\ nd2[c] = NULL /\ OldBodies(nd, nd2, nd[c].parent, c)
  BY <1>1, GoneTree
<1>3. CalmIn(o2) => FilesHeld(nd2, fd)
  <2>1. ASSUME CalmIn(o2) PROVE FilesHeld(nd2, fd)
    <3>1. FilesHeld(nd, fd)
      BY <1>1, <2>1 DEF Core
    <3>2. Cardinality(Of(fd, c)) = 0
      BY <2>1, <3>1 DEF FilesHeld
    <3>3. Of(fd, c) = {}
      BY <3>2, DescriptorsFinite, FS_EmptySet
    <3> QED
      BY <1>1, <1>2, <3>1, <3>3, OldHeld
  <2> QED
    BY <2>1
<1> QED
  BY <1>1, <1>2, <1>3 DEF Core

(* A position is set, inside a file. *)
LEMMA MoveCore ==
    ASSUME NEW nd, NEW fd, NEW us, NEW ct, NEW ts, NEW o, Core(nd, fd, us, ct, ts, o),
           NEW f \in FdPool, fd[f] # NULL, NEW x \in 0..(Word - 1),
           CalmIn(o) /\ nd[fd[f].node].v_type = "FILE" => x <= nd[fd[f].node].size,
           NEW fd2, fd2 = [fd EXCEPT ![f].position = x]
    PROVE  Core(nd, fd2, us, ct, ts, o)
<1>1. fd \in [FdPool -> Descriptors \cup {NULL}]
  BY DEF Core
<1>2. PICK d : d = [fd[f] EXCEPT !.position = x]
  OBVIOUS
<1>3. fd[f] \in Descriptors
  BY <1>1
<1>4. d \in Descriptors /\ d # NULL /\ d.node = fd[f].node /\ d.position = x
  <2>1. d \in Descriptors /\ d.node = fd[f].node /\ d.position = x
    BY <1>2, <1>3 DEF Descriptors
  <2> QED
    BY <2>1, Constants
<1>5. fd2 = [fd EXCEPT ![f] = d]
  BY <1>1, <1>2
<1>6. fd2 \in [FdPool -> Descriptors \cup {NULL}] /\ fd2[f] = d /\ \A g \in FdPool : g # f => fd2[g] = fd[g]
  BY <1>1, <1>4, <1>5
<1>7. \A g \in FdPool : /\ fd2[g] # NULL <=> fd[g] # NULL
                        /\ fd[g] # NULL => fd2[g].node = fd[g].node
  BY <1>4, <1>6
<1>8. \A n : Of(fd2, n) = Of(fd, n)
  BY <1>7 DEF Of
<1>9. CalmIn(o) => FilesHeld(nd, fd2)
  <2>1. ASSUME CalmIn(o) PROVE FilesHeld(nd, fd2)
    <3>1. FilesHeld(nd, fd)
      BY <2>1 DEF Core
    <3>2. \A g \in FdPool : fd2[g] # NULL => nd[fd2[g].node] # NULL
      BY <1>7, <3>1 DEF FilesHeld
    <3>3. \A n \in Nodes : nd[n] # NULL => nd[n].active_fds = Cardinality(Of(fd2, n))
      BY <1>8, <3>1 DEF FilesHeld
    <3>4. ASSUME NEW g \in FdPool, fd2[g] # NULL, nd[fd2[g].node].v_type = "FILE"
          PROVE  fd2[g].position <= nd[fd2[g].node].size
      <4>1. CASE g = f
        BY <1>4, <1>6, <2>1, <3>4, <4>1
      <4>2. CASE g # f
        BY <1>6, <3>1, <3>4, <4>2 DEF FilesHeld
      <4> QED
        BY <4>1, <4>2
    <3> QED
      BY <3>2, <3>3, <3>4 DEF FilesHeld
  <2> QED
    BY <2>1
<1>10. CalmIn(o) => Owned(fd2, us, ts)
  <2>1. ASSUME CalmIn(o) PROVE Owned(fd2, us, ts)
    <3>1. Owned(fd, us, ts)
      BY <2>1 DEF Core
    <3>2. ASSUME NEW u \in ts, NEW j \in Slots, us[u][j] \in FdPool PROVE fd2[us[u][j]] # NULL
      BY <1>7, <3>1, <3>2 DEF Owned
    <3> QED
      BY <3>1, <3>2 DEF Owned
  <2> QED
    BY <2>1
<1>11. CalmIn(o) /\ OrderlyIn(o) => Tidy(fd2, us, ct, ts)
  BY <1>7 DEF Core, Tidy, Held
<1> QED
  BY <1>6, <1>9, <1>10, <1>11 DEF Core

(* A task that counts exactly copies all its descriptors. *)
LEMMA AllCopied ==
    ASSUME NEW row, NEW count, Settled(row, count, 2), NEW i \in Slots, row[i] # NULL
    PROVE  Cardinality({j \in Slots : j < i /\ row[j] # NULL}) < count
<1> DEFINE U == Busy(row) \cup {0} \cup {1}
           V == {j \in Slots : j < i /\ row[j] # NULL}
<1>1. IsFiniteSet(Busy(row)) /\ Cardinality(Busy(row)) \in Nat
  BY BusyFinite
<1>2. 0 \notin Busy(row) /\ 1 \notin Busy(row) \cup {0}
  BY DEF Busy
<1>3. IsFiniteSet(Busy(row) \cup {0}) /\ Cardinality(Busy(row) \cup {0}) = Cardinality(Busy(row)) + 1
  BY <1>1, <1>2, FS_AddElement
<1>4. IsFiniteSet(U) /\ Cardinality(U) = Cardinality(Busy(row) \cup {0}) + 1
  BY <1>2, <1>3, FS_AddElement
<1>5. Cardinality(U) = count /\ count \in Nat
  BY <1>1, <1>3, <1>4 DEF Settled
<1>6. \A j \in Slots : row[j] # NULL => j \in U
  BY Constants DEF Slots, Busy
<1>7. V \subseteq U \ {i} /\ i \in U
  <2>1. i \in U
    BY <1>6
  <2>2. \A j \in V : j \in U /\ j # i
    BY <1>6 DEF Slots
  <2> HIDE DEF U, V
  <2> QED
    BY <2>1, <2>2
<1> HIDE DEF U, V
<1>8. IsFiniteSet(U \ {i}) /\ Cardinality(U \ {i}) = count - 1
  BY <1>4, <1>5, <1>7, FS_RemoveElement
<1>9. IsFiniteSet(V) /\ Cardinality(V) <= Cardinality(U \ {i})
  BY <1>7, <1>8, FS_Subset
<1>10. Cardinality(V) \in Nat
  BY <1>9, FS_CardinalityType
<1>11. Cardinality(V) < count
  BY <1>5, <1>8, <1>9, <1>10
<1> QED
  BY <1>11 DEF V

(* What do_fork copies. *)
Copied(row, count) ==
    {i \in Slots : row[i] # NULL /\ Cardinality({j \in Slots : j < i /\ row[j] # NULL}) < count}
CopyOf(row, count) == [i \in Slots |-> IF i \in Copied(row, count) THEN row[i] ELSE NULL]

(* The copy of a task that counts exactly and has no files open. *)
LEMMA CopySettled ==
    ASSUME NEW row \in Rows, NEW count, Settled(row, count, 2),
           \A i \in Slots : i >= 2 => row[i] \in FdPool \cup {NULL},
           \A i \in Copied(row, count) : row[i] \notin FdPool
    PROVE  Settled(CopyOf(row, count), count, 2)
<1>1. \A i \in Slots : row[i] # NULL => i \in Copied(row, count)
  BY AllCopied DEF Copied
<1>2. \A i \in Slots : i >= 2 => row[i] = NULL
  BY <1>1
<1>3. Busy(row) = {} /\ Busy(CopyOf(row, count)) = {}
  BY <1>2 DEF Busy, CopyOf
<1>4. 0 \in Slots /\ 1 \in Slots
  BY Constants DEF Slots
<1>5. row[0] = Defaults[0] /\ row[1] = Defaults[1] /\ row[0] # NULL /\ row[1] # NULL
  <2>1. Defaults[0] # NULL /\ Defaults[1] # NULL
    BY FilesAssumption
  <2> QED
    BY <2>1 DEF Settled
<1>6. CopyOf(row, count)[0] = Defaults[0] /\ CopyOf(row, count)[1] = Defaults[1]
  BY <1>1, <1>4, <1>5 DEF CopyOf
<1> QED
  BY <1>3, <1>6 DEF Settled

(* The table and the counter of task c are a copy of those of t. *)
Forks(us, us2, ct, ct2, t, c) ==
    us2 = [us EXCEPT ![c] = CopyOf(us[t], ct[t])] /\ ct2 = [ct EXCEPT ![c] = ct[t]]
SharesFile(us, ct, t) == \E i \in Copied(us[t], ct[t]) : us[t][i] \in FdPool

(* do_fork keeps the files in order; sharing a file is noted. *)
LEMMA ForkCore ==
    ASSUME NEW nd, NEW fd, NEW us, NEW ct, NEW ts, NEW o, Core(nd, fd, us, ct, ts, o),
           NEW t \in ts, NEW c \in Tasks, c \notin ts,
           NEW us2, NEW ct2, Forks(us, us2, ct, ct2, t, c),
           NEW o2, o \subseteq o2, SharesFile(us, ct, t) => "shared" \in o2
    PROVE  Core(nd, fd, us2, ct2, ts \cup {c}, o2)
<1>0. Core(nd, fd, us, ct, ts, o2)
  BY CoreOdd
<1>1. /\ Tree(nd) /\ fd \in [FdPool -> Descriptors \cup {NULL}] /\ us \in [Tasks -> Rows] /\ Placed(us)
      /\ ct \in [Tasks -> 0..(Word - 1)] /\ init \in ts /\ ts \subseteq Tasks /\ t \in Tasks
  BY DEF Core
<1>2. PICK row : row = CopyOf(us[t], ct[t])
  OBVIOUS
<1>3. \A i \in Slots : row[i] = NULL \/ (row[i] = us[t][i] /\ i \in Copied(us[t], ct[t]))
  BY <1>2 DEF CopyOf
<1>4. row \in Rows
  <2>1. us[t] \in Rows /\ DOMAIN row = Slots /\ row = [i \in Slots |-> row[i]]
    BY <1>1, <1>2 DEF CopyOf
  <2> QED
    BY <1>3, <2>1 DEF Rows
<1>5. us2[c] = row /\ \A u \in Tasks : u # c => us2[u] = us[u]
  BY <1>1, <1>2 DEF Forks
<1>6. us2 \in [Tasks -> Rows]
  BY <1>1, <1>2, <1>4 DEF Forks
<1>7. Placed(us2)
  <2>1. ASSUME NEW u \in Tasks, NEW i \in Slots
        PROVE  us2[u][i] \in FdPool \cup {NULL} \/ (i \in 0..1 /\ us2[u][i] = Defaults[i])
    <3>1. CASE u = c
      BY <1>1, <1>3, <1>5, <3>1 DEF Placed
    <3>2. CASE u # c
      BY <1>1, <1>5, <3>2 DEF Placed
    <3> QED
      BY <3>1, <3>2
  <2> QED
    BY <2>1 DEF Placed
<1>8. ct2 \in [Tasks -> 0..(Word - 1)] /\ ct2[c] = ct[t] /\ \A u \in Tasks : u # c => ct2[u] = ct[u]
  BY <1>1 DEF Forks
<1>9. CalmIn(o2) => \A i \in Copied(us[t], ct[t]) : us[t][i] \notin FdPool
  BY DEF CalmIn, SharesFile
<1>10. CalmIn(o2) => \A i \in Slots : row[i] \notin FdPool
  BY <1>3, <1>9, Constants
<1>11. \A u \in ts : u \in Tasks /\ u # c /\ us2[u] = us[u] /\ ct2[u] = ct[u]
  BY <1>1, <1>5, <1>8
<1>12. CalmIn(o2) => FilesHeld(nd, fd) /\ Owned(fd, us2, ts \cup {c})
  <2>1. ASSUME CalmIn(o2) PROVE FilesHeld(nd, fd) /\ Owned(fd, us2, ts \cup {c})
    <3>1. FilesHeld(nd, fd) /\ Owned(fd, us, ts)
      BY <1>0, <2>1 DEF Core
    <3>2. ASSUME NEW u \in ts \cup {c}, NEW i \in Slots, us2[u][i] \in FdPool
          PROVE  u \in ts /\ us2[u][i] = us[u][i]
      BY <1>5, <1>10, <1>11, <2>1, <3>2
    <3>3. ASSUME NEW u \in ts \cup {c}, NEW i \in Slots, us2[u][i] \in FdPool
          PROVE  fd[us2[u][i]] # NULL
      BY <3>1, <3>2, <3>3 DEF Owned
    <3>4. ASSUME NEW u \in ts \cup {c}, NEW i \in Slots, us2[u][i] \in FdPool,
                 NEW v \in ts \cup {c}, NEW j \in Slots, us2[u][i] = us2[v][j]
          PROVE  u = v /\ i = j
      <4>1. u \in ts /\ v \in ts /\ us[u][i] = us[v][j] /\ us[u][i] \in FdPool
        BY <3>2, <3>4
      <4> QED
        BY <3>1, <4>1, Zenon DEF Owned
    <3> QED
      BY <3>1, <3>3, <3>4 DEF Owned
  <2> QED
    BY <2>1
<1>13. CalmIn(o2) /\ OrderlyIn(o2) => Tidy(fd, us2, ct2, ts \cup {c})
  <2>1. ASSUME CalmIn(o2), OrderlyIn(o2) PROVE Tidy(fd, us2, ct2, ts \cup {c})
    <3>1. Tidy(fd, us, ct, ts)
      BY <1>0, <2>1 DEF Core
    <3>2. Held(fd, us2, ts \cup {c})
      <4>1. ASSUME NEW f \in FdPool, fd[f] # NULL
            PROVE  \E u \in ts \cup {c} : \E i \in Slots : us2[u][i] = f
        <5>1. PICK u \in ts, i \in Slots : us[u][i] = f
          BY <3>1, <4>1 DEF Tidy, Held
        <5> QED
          BY <1>11, <5>1
      <4> QED
        BY <4>1 DEF Held
    <3>3. \A u \in ts : Settled(us2[u], ct2[u], 2)
      BY <1>11, <3>1 DEF Tidy
    <3>4. Settled(us2[c], ct2[c], 2)
      <4>1. us[t] \in Rows /\ Settled(us[t], ct[t], 2)
        BY <1>1, <3>1 DEF Tidy
      <4>2. \A i \in Slots : i >= 2 => us[t][i] \in FdPool \cup {NULL}
        BY <1>1 DEF Placed
      <4>3. Settled(CopyOf(us[t], ct[t]), ct[t], 2)
        BY <1>9, <2>1, <4>1, <4>2, CopySettled
      <4> QED
        BY <1>2, <1>5, <1>8, <4>3
    <3> QED
      BY <3>2, <3>3, <3>4 DEF Tidy
  <2> QED
    BY <2>1
<1> QED
  BY <1>1, <1>6, <1>7, <1>8, <1>12, <1>13 DEF Core

-----------------------------------------------------------------------------
(* The actions *)

(* The status after a step that uses no released memory, or does so because of
   what programs did. *)
LEMMA StatusKept ==
    ASSUME FilesInv, odd \subseteq odd', fd_list' = fd_list \/ fd_list' \in FdLists,
           \/ status' = status
           \/ status' \in {"hang", "overwritten"}
           \/ status' = "crash" /\ ~(CalmIn(odd') /\ "root removed" \notin odd')
    PROVE  /\ fd_list' \in FdLists
           /\ status' \in {"running", "crash", "overwritten", "hang"}
           /\ Calm' /\ "root removed" \notin odd' => status' # "crash"
<1>1. Calm' => Calm
  BY DEF Calm, CalmIn
<1>2. Calm' <=> CalmIn(odd')
  BY DEF Calm
<1>3. /\ fd_list \in FdLists
      /\ status \in {"running", "crash", "overwritten", "hang"} /\ (Calm /\ "root removed" \notin odd => status # "crash")
  BY DEF FilesInv
<1> QED
  BY <1>1, <1>2, <1>3

(* The parts of the invariant after a step. *)
LEMMA InvariantParts ==
    ASSUME Core(node', fds', used_fd', fd_ctr', tasks', odd'), fd_list' \in FdLists,
           status' \in {"running", "crash", "overwritten", "hang"},
           Calm' /\ "root removed" \notin odd' => status' # "crash"
    PROVE  FilesInv'
  BY DEF FilesInv

(* _find_free_fd_num finds an empty entry behind the default ones. *)
LEMMA FreeSlot ==
    ASSUME NEW t, NEW i, i = _find_free_fd_num(t), i # -1
    PROVE  i \in Slots /\ i >= 2 /\ used_fd[t][i] = NULL
<1> DEFINE empty == {j \in Slots : j >= 2 /\ used_fd[t][j] = NULL}
<1>1. empty # {} /\ i = Min(empty)
  BY DEF _find_free_fd_num
<1>2. empty \in SUBSET Nat
  BY DEF Slots
<1>3. Min(empty) \in empty
  BY <1>1, <1>2, LeastIs
<1>4. i \in empty
  BY <1>1, <1>3
<1> QED
  BY <1>4

(* The end of do_open keeps the invariant, whether the file is old or new. *)
LEMMA OpenedInv ==
    ASSUME FilesInv, NEW t \in tasks, NEW nd, Core(nd, fds, used_fd, fd_ctr, tasks, odd),
           NEW n \in Nodes, nd[n] # NULL, NEW mode \in Modes, Opened(t, nd, n, mode)
    PROVE  FilesInv'
<1>1. PICK i : i = _find_free_fd_num(t)
  OBVIOUS
<1>2. PICK f \in FdPool \ open_fds : \E left \in Left(f) :
        /\ node' = [nd EXCEPT ![n].active_fds = (@ + 1) % Word]
        /\ fds' = [fds EXCEPT ![f] = [position |-> 0, mode |-> mode, node |-> n]]
        /\ fd_list' = fd_add(fd_list, f, left, open_fds \cup {f})
        /\ IF i = -1
           THEN Noted({"table full"}) /\ UNCHANGED <<used_fd, fd_ctr>>
           ELSE /\ used_fd' = [used_fd EXCEPT ![t][i] = f]
                /\ fd_ctr' = [fd_ctr EXCEPT ![t] = (@ + 1) % Word]
                /\ UNCHANGED odd
        /\ UNCHANGED <<tasks, status>>
  BY <1>1 DEF Opened
<1>3. f \in FdPool /\ fds[f] = NULL
  BY <1>2 DEF open_fds
<1>4. Makes(nd, node', fds, fds', n, f, mode) /\ tasks' = tasks /\ status' = status
  BY <1>2 DEF Makes
<1>5. used_fd \in [Tasks -> Rows] /\ fd_ctr \in [Tasks -> 0..(Word - 1)] /\ tasks \subseteq Tasks
  BY DEF FilesInv, Core
<1>6. Core(node', fds', used_fd', fd_ctr', tasks, odd') /\ odd \subseteq odd'
  <2>1. CASE i = -1
    <3>1. Full(used_fd, used_fd', fd_ctr, fd_ctr', odd, odd')
      BY <1>2, <2>1 DEF Full, Noted
    <3>2. 2 \in Slots /\ 2 >= 2
      BY Constants DEF Slots
    <3>3. Core(node', fds', used_fd', fd_ctr', tasks, odd')
      BY <1>3, <1>4, <3>1, <3>2, OpenCore
    <3> QED
      BY <3>1, <3>3 DEF Full
  <2>2. CASE i # -1
    <3>1. i \in Slots /\ i >= 2 /\ used_fd[t][i] = NULL
      BY <1>1, <2>2, FreeSlot
    <3>2. /\ used_fd' = [used_fd EXCEPT ![t][i] = f]
          /\ fd_ctr' = [fd_ctr EXCEPT ![t] = (@ + 1) % Word]
          /\ odd' = odd
      BY <1>2, <2>2
    <3>3. Enters(used_fd, used_fd', fd_ctr, fd_ctr', t, i, f)
      BY <1>5, <3>1, <3>2 DEF Enters, Rows
    <3> QED
      BY <1>3, <1>4, <3>1, <3>2, <3>3, OpenCore
  <2> QED
    BY <2>1, <2>2
<1>7. fd_list' \in FdLists
  <2>1. PICK left \in Left(f) : fd_list' = fd_add(fd_list, f, left, open_fds \cup {f})
    BY <1>2
  <2>2. fd_list \in FdLists /\ f \in Addresses
    BY <1>3 DEF FilesInv, Addresses
  <2>3. left \in Addresses \cup {NULL, Elsewhere}
    <3>1. fd_list.prev[f] \in Addresses \cup {NULL, Elsewhere}
      BY <2>2, ListTyped
    <3> QED
      BY <3>1, FilesAssumption DEF Left
  <2> QED
    BY <2>1, <2>2, <2>3, AddTyped
<1> QED
  BY <1>4, <1>6, <1>7, StatusKept, InvariantParts

(* Paths are made of names. *)
LEMMA PathNames ==
    ASSUME NEW path \in Paths
    PROVE  path \in Seq(Names)
<1>1. path \in Seq(STRING)
  BY FilesAssumption
<1>2. \A k \in DOMAIN path : path[k] \in Names
  BY DEF Names
<1>3. path = [k \in 1..Len(path) |-> path[k]] /\ Len(path) \in Nat /\ DOMAIN path = 1..Len(path)
  BY <1>1
<1> HIDE DEF Names
<1>4. path \in [1..Len(path) -> Names]
  BY <1>2, <1>3
<1> QED
  BY <1>3, <1>4, SeqDef

(* open of a file that is there. *)
LEMMA OpenInv ==
    ASSUME FilesInv, NEW t \in tasks, NEW path \in Paths, NEW mode \in Modes, open(t, path, mode)
    PROVE  FilesInv'
<1>1. PICK r : r = namei_path_to_vfs_node(path)
  OBVIOUS
<1>2. r.file # NULL /\ Opened(t, node, r.file, mode)
  BY <1>1 DEF open
<1>3. Core(node, fds, used_fd, fd_ctr, tasks, odd) /\ Tree(node) /\ path \in Seq(Names)
  BY PathNames DEF FilesInv, Core
<1>4. r.file \in Nodes /\ node[r.file] # NULL
  BY <1>1, <1>2, <1>3, Looked
<1> QED
  BY <1>2, <1>3, <1>4, OpenedInv

(* A vnode that is made has no links. *)
LEMMA VnodeFresh ==
    ASSUME NEW name \in Names, NEW v_type \in {"FILE", "DIR", "MNTPT", "CHRDEV"},
           NEW op \in SUBSET Operations, NEW size \in 0..(Word - 1),
           NEW v, v = Vnode(name, v_type, op, size)
    PROVE  /\ Fresh(v)
           /\ v.name = name /\ v.v_type = v_type /\ v.op = op /\ v.size = size /\ v.active_fds = 0
<1>1. 0 \in 0..(Word - 1)
  BY Constants
<1>2. v \in Vnodes
  BY <1>1 DEF Vnode, Vnodes
<1> QED
  BY <1>2 DEF Vnode, Fresh

(* The vnodes that programs make. *)
LEMMA FreshFile ==
    ASSUME NEW name \in Names
    PROVE  Sound(ramfs_touch(name)) /\ ramfs_touch(name).active_fds = 0 /\ ramfs_touch(name).name = name
<1>1. FileSize \in 0..(Word - 1)
  BY FilesAssumption
<1>2. PICK op : op = {"open", "close", "read", "write", "remove"}
  OBVIOUS
<1>3. op \in SUBSET Operations
  BY <1>2 DEF Operations
<1>4. op \cap {"touch", "mkdir"} = {}
  BY <1>2
<1>5. PICK v : v = ramfs_touch(name)
  OBVIOUS
<1>6. v = Vnode(name, "FILE", op, FileSize)
  BY <1>2, <1>5 DEF ramfs_touch
<1>7. PICK kind \in {"FILE", "DIR", "MNTPT", "CHRDEV"} : v = Vnode(name, kind, op, FileSize)
  BY <1>6
<1>8. Fresh(v) /\ v.name = name /\ v.op = op /\ v.active_fds = 0
  BY <1>1, <1>3, <1>7, VnodeFresh
<1> QED
  BY <1>4, <1>5, <1>8 DEF Sound

(* A directory takes children and cannot be removed by do_unlink. *)
LEMMA FreshDirectory ==
    ASSUME NEW name \in Names
    PROVE  Sound(ramfs_mkdir(name)) /\ ramfs_mkdir(name).active_fds = 0 /\ ramfs_mkdir(name).name = name
<1>1. 0 \in 0..(Word - 1)
  BY Constants
<1>2. PICK op : op = {"open", "close", "touch", "mkdir", "rmdir", "readdir"}
  OBVIOUS
<1>3. op \in SUBSET Operations
  BY <1>2 DEF Operations
<1>4. "remove" \notin op
  BY <1>2
<1>5. PICK v : v = ramfs_mkdir(name)
  OBVIOUS
<1>6. v = Vnode(name, "DIR", op, 0)
  BY <1>2, <1>5 DEF ramfs_mkdir
<1>7. PICK kind \in {"FILE", "DIR", "MNTPT", "CHRDEV"} : v = Vnode(name, kind, op, 0)
  BY <1>6
<1>8. Fresh(v) /\ v.name = name /\ v.op = op /\ v.active_fds = 0
  BY <1>1, <1>3, <1>7, VnodeFresh
<1> QED
  BY <1>4, <1>5, <1>8 DEF Sound

(* open of a file that is not there. *)
LEMMA CreateInv ==
    ASSUME FilesInv, NEW t \in tasks, NEW path \in Paths, NEW mode \in Modes, open_creat(t, path, mode)
    PROVE  FilesInv'
<1>1. PICK r : r = namei_path_to_vfs_node(path)
  OBVIOUS
<1>2. PICK name : name = namei_path_to_filename(path)
  OBVIOUS
<1>3. r.parent # NULL /\ "touch" \in node[r.parent].op
  BY <1>1 DEF open_creat, Can
<1>4. PICK n \in NodePool \ alive :
        Opened(t, namei_add_child([node EXCEPT ![n] = ramfs_touch(name)], r.parent, n), n, mode)
  BY <1>1, <1>2 DEF open_creat
<1>5. Core(node, fds, used_fd, fd_ctr, tasks, odd) /\ Tree(node) /\ path \in Seq(Names)
  BY PathNames DEF FilesInv, Core
<1>6. /\ r.parent \in Nodes /\ node[r.parent] # NULL /\ name \in Names
      /\ \A d \in Nodes : node[d] # NULL /\ node[d].parent = r.parent => node[d].name # name
  BY <1>1, <1>2, <1>3, <1>5, Looked
<1>7. n \in Nodes /\ node[n] = NULL
  BY <1>4 DEF Nodes, alive
<1>8. PICK v : v = ramfs_touch(name)
  OBVIOUS
<1>9. Sound(v) /\ v.active_fds = 0 /\ v.name = name
  BY <1>6, <1>8, FreshFile
<1>10. node[r.parent].op \cap {"touch", "mkdir"} # {}
  BY <1>3
<1>11. PICK nd : nd = namei_add_child([node EXCEPT ![n] = v], r.parent, n)
  OBVIOUS
<1>12. Core(nd, fds, used_fd, fd_ctr, tasks, odd) /\ nd[n] # NULL
  BY <1>5, <1>6, <1>7, <1>9, <1>10, <1>11, GrowCore
<1>13. Opened(t, nd, n, mode)
  BY <1>4, <1>8, <1>11
<1> QED
  BY <1>7, <1>12, <1>13, OpenedInv

(* A directory is made. *)
LEMMA MkdirInv ==
    ASSUME FilesInv, NEW path \in Paths, mkdir(path)
    PROVE  FilesInv'
<1>1. PICK r : r = namei_path_to_vfs_node(path)
  OBVIOUS
<1>2. PICK name : name = namei_path_to_filename(path)
  OBVIOUS
<1>3. r.parent # NULL /\ "mkdir" \in node[r.parent].op
  BY <1>1 DEF mkdir, Can
<1>4. PICK n \in NodePool \ alive :
        node' = namei_add_child([node EXCEPT ![n] = ramfs_mkdir(name)], r.parent, n)
  BY <1>1, <1>2 DEF mkdir
<1>5. Core(node, fds, used_fd, fd_ctr, tasks, odd) /\ Tree(node) /\ path \in Seq(Names)
  BY PathNames DEF FilesInv, Core
<1>6. /\ r.parent \in Nodes /\ node[r.parent] # NULL /\ name \in Names
      /\ \A d \in Nodes : node[d] # NULL /\ node[d].parent = r.parent => node[d].name # name
  BY <1>1, <1>2, <1>3, <1>5, Looked
<1>7. n \in Nodes /\ node[n] = NULL
  BY <1>4 DEF Nodes, alive
<1>8. PICK v : v = ramfs_mkdir(name)
  OBVIOUS
<1>9. Sound(v) /\ v.active_fds = 0 /\ v.name = name
  BY <1>6, <1>8, FreshDirectory
<1>10. node[r.parent].op \cap {"touch", "mkdir"} # {}
  BY <1>3
<1>11. node' = namei_add_child([node EXCEPT ![n] = v], r.parent, n)
  BY <1>4, <1>8
<1>12. Core(node', fds, used_fd, fd_ctr, tasks, odd)
  BY <1>5, <1>6, <1>7, <1>9, <1>10, <1>11, GrowCore
<1>13. /\ fds' = fds /\ used_fd' = used_fd /\ fd_ctr' = fd_ctr /\ fd_list' = fd_list /\ tasks' = tasks
       /\ odd' = odd /\ status' = status
  BY DEF mkdir
<1> QED
  BY <1>12, <1>13, StatusKept, InvariantParts

(* The root stays; other files go when nobody has them open. *)
LEMMA RemoveInv ==
    ASSUME FilesInv, NEW path \in Paths, remove(path)
    PROVE  FilesInv'
<1>1. PICK n : n = namei_path_to_vfs_node(path).file
  OBVIOUS
<1>2. /\ n # NULL /\ node[n].active_fds = 0 /\ "remove" \in node[n].op
      /\ IF n = "root"
         THEN Noted({"root removed"}) /\ status' = "crash" /\ UNCHANGED files
         ELSE Delete(n) /\ UNCHANGED <<status, odd>>
  BY <1>1 DEF remove, Can
<1>3. Core(node, fds, used_fd, fd_ctr, tasks, odd) /\ Tree(node) /\ path \in Seq(Names)
  BY PathNames DEF FilesInv, Core
<1>4. n \in Nodes /\ node[n] # NULL
  BY <1>1, <1>2, <1>3, Looked
<1>5. CASE n = "root"
  <2>1. /\ node' = node /\ fds' = fds /\ used_fd' = used_fd /\ fd_ctr' = fd_ctr /\ fd_list' = fd_list /\ tasks' = tasks
        /\ status' = "crash" /\ odd \subseteq odd' /\ "root removed" \in odd'
    BY <1>2, <1>5 DEF files, Noted
  <2>2. Core(node', fds', used_fd', fd_ctr', tasks', odd')
    BY <1>3, <2>1, CoreOdd
  <2> QED
    BY <2>1, <2>2, StatusKept, InvariantParts
<1>6. CASE n # "root"
  <2>1. /\ node' = Released(node, n) /\ fds' = fds /\ used_fd' = used_fd /\ fd_ctr' = fd_ctr
        /\ fd_list' = fd_list /\ tasks' = tasks /\ status' = status /\ odd' = odd
    BY <1>2, <1>6 DEF Delete, Released
  <2>2. node[n].first = NULL /\ node[n].op \cap {"remove", "rmdir"} # {}
    BY <1>2, <1>3, <1>4, <1>6 DEF Tree, Kinds
  <2>3. Core(node', fds, used_fd, fd_ctr, tasks, odd)
    BY <1>2, <1>3, <1>4, <1>6, <2>1, <2>2, DeleteCore
  <2> QED
    BY <2>1, <2>3, StatusKept, InvariantParts
<1> QED
  BY <1>5, <1>6

(* A directory goes when it is empty. *)
LEMMA RmdirInv ==
    ASSUME FilesInv, NEW path \in Paths, rmdir(path)
    PROVE  FilesInv'
<1>1. PICK n : n = namei_path_to_vfs_node(path).file
  OBVIOUS
<1>2. /\ n # NULL /\ node[n].first = NULL /\ "rmdir" \in node[n].op /\ Delete(n)
      /\ Noted(IF node[n].active_fds > 0 THEN {"open directory removed"} ELSE {})
      /\ status' = status
  BY <1>1 DEF rmdir, Can
<1>3. Core(node, fds, used_fd, fd_ctr, tasks, odd) /\ Tree(node) /\ path \in Seq(Names)
  BY PathNames DEF FilesInv, Core
<1>4. n \in Nodes /\ node[n] # NULL
  BY <1>1, <1>2, <1>3, Looked
<1>5. /\ node' = Released(node, n) /\ fds' = fds /\ used_fd' = used_fd /\ fd_ctr' = fd_ctr
      /\ fd_list' = fd_list /\ tasks' = tasks
  BY <1>2 DEF Delete, Released
<1>6. n # "root" /\ node[n].op \cap {"remove", "rmdir"} # {}
  BY <1>2, <1>3 DEF Tree, Kinds, FixedNodes
<1>7. node[n] \in Vnodes
  BY <1>3, <1>4 DEF Tree, NodesTyped
<1>8. node[n].active_fds \in Nat
  BY <1>7, Constants DEF Vnodes
<1>9. odd \subseteq odd' /\ (CalmIn(odd') => node[n].active_fds = 0)
  <2>1. odd' = odd \cup (IF node[n].active_fds > 0 THEN {"open directory removed"} ELSE {})
    BY <1>2 DEF Noted
  <2>2. CASE node[n].active_fds > 0
    BY <2>1, <2>2 DEF CalmIn
  <2>3. CASE node[n].active_fds = 0
    BY <2>1, <2>3
  <2> QED
    BY <1>8, <2>2, <2>3
<1>10. Core(node', fds, used_fd, fd_ctr, tasks, odd')
  BY <1>2, <1>3, <1>4, <1>5, <1>6, <1>9, DeleteCore
<1> QED
  BY <1>2, <1>5, <1>9, <1>10, StatusKept, InvariantParts

(* A descriptor that a task holds. *)
LEMMA HeldIs ==
    ASSUME FilesInv, NEW t \in tasks, NEW i \in Slots, File(t, i), NEW f, f = used_fd[t][i]
    PROVE  /\ f \in FdPool
           /\ Calm => fds[f] # NULL /\ node[fds[f].node] # NULL
           /\ Valid(t, i) <=> fds[f] # NULL /\ node[fds[f].node] # NULL
<1>1. f \in FdPool
  BY DEF File
<1>2. Calm => FilesHeld(node, fds) /\ Owned(fds, used_fd, tasks)
  BY DEF FilesInv, Core, Calm
<1>3. Calm => fds[f] # NULL
  BY <1>1, <1>2 DEF Owned
<1>4. Calm => node[fds[f].node] # NULL
  BY <1>1, <1>2, <1>3 DEF FilesHeld
<1>5. fds \in [FdPool -> Descriptors \cup {NULL}]
  BY DEF FilesInv, Core
<1>6. fds[f] # NULL => fds[f].node \in Nodes /\ fds[f].node # NULL
  BY <1>1, <1>5, Constants DEF Descriptors
<1>7. Target(State, f) = IF fds[f] = NULL \/ node[fds[f].node] = NULL THEN NULL ELSE fds[f].node
  BY DEF Target, State
<1>8. Valid(t, i) <=> Target(State, f) # NULL
  BY DEF Valid
<1> QED
  BY <1>1, <1>3, <1>4, <1>6, <1>7, <1>8

(* Released memory is used only when programs did unusual things. *)
LEMMA UseReleasedInv ==
    ASSUME FilesInv, NEW t \in tasks, NEW i \in Slots, use_released(t, i)
    PROVE  FilesInv'
<1>1. File(t, i) /\ ~Valid(t, i)
  BY DEF use_released
<1>2. ~Calm
  BY <1>1, HeldIs
<1>3. /\ node' = node /\ fds' = fds /\ used_fd' = used_fd /\ fd_ctr' = fd_ctr /\ fd_list' = fd_list /\ tasks' = tasks
      /\ odd' = odd /\ status' = "crash"
  BY DEF use_released, files
<1>4. Core(node', fds', used_fd', fd_ctr', tasks', odd')
  BY <1>3 DEF FilesInv
<1>5. ~CalmIn(odd')
  BY <1>2, <1>3 DEF Calm
<1> QED
  BY <1>3, <1>4, <1>5, StatusKept, InvariantParts

(* The descriptor of a call and its file. *)
LEMMA ValidIs ==
    ASSUME FilesInv, NEW t \in tasks, NEW i \in Slots, Valid(t, i), NEW f, f = used_fd[t][i]
    PROVE  /\ f \in FdPool /\ fds[f] \in Descriptors /\ fds[f] # NULL
           /\ fds[f].position \in 0..(Word - 1) /\ fds[f].node \in Nodes
           /\ node[fds[f].node] \in Vnodes /\ node[fds[f].node].size \in 0..(Word - 1)
           /\ Calm /\ node[fds[f].node].v_type = "FILE" => fds[f].position <= node[fds[f].node].size
<1>1. File(t, i)
  BY DEF Valid
<1>2. f \in FdPool /\ fds[f] # NULL /\ node[fds[f].node] # NULL
  BY <1>1, HeldIs
<1>3. /\ fds \in [FdPool -> Descriptors \cup {NULL}] /\ Tree(node)
      /\ Calm => FilesHeld(node, fds)
  BY DEF FilesInv, Core, Calm
<1>4. fds[f] \in Descriptors
  BY <1>2, <1>3
<1>5. fds[f].position \in 0..(Word - 1) /\ fds[f].node \in Nodes
  BY <1>4 DEF Descriptors
<1>6. node[fds[f].node] \in Vnodes
  BY <1>2, <1>3, <1>5 DEF Tree, NodesTyped
<1>7. node[fds[f].node].size \in 0..(Word - 1)
  BY <1>6 DEF Vnodes
<1> QED
  BY <1>2, <1>3, <1>4, <1>5, <1>6, <1>7 DEF FilesHeld

(* A position is set that is not behind the end of the file. *)
LEMMA MoveInv ==
    ASSUME FilesInv, NEW t \in tasks, NEW i \in Slots, Valid(t, i), NEW f, f = used_fd[t][i],
           NEW x \in Int,
           Calm /\ node[fds[f].node].v_type = "FILE" => 0 <= x /\ x <= node[fds[f].node].size,
           SetPosition(f, x)
    PROVE  FilesInv'
<1>1. f \in FdPool /\ fds[f] # NULL /\ node[fds[f].node].size \in 0..(Word - 1)
  BY ValidIs
<1>2. PICK y : y = x % Word
  OBVIOUS
<1>3. y \in 0..(Word - 1)
  BY <1>2, ModRange
<1>4. CalmIn(odd) /\ node[fds[f].node].v_type = "FILE" => y <= node[fds[f].node].size
  <2>1. ASSUME Calm, node[fds[f].node].v_type = "FILE" PROVE y <= node[fds[f].node].size
    <3>1. x \in Nat /\ x < Word /\ x <= node[fds[f].node].size
      BY <1>1, <2>1, Constants
    <3>2. y = x
      BY <1>2, <3>1, SmallMod, Constants
    <3> QED
      BY <3>1, <3>2
  <2> QED
    BY <2>1 DEF Calm
<1>5. /\ fds' = [fds EXCEPT ![f].position = y]
      /\ node' = node /\ used_fd' = used_fd /\ fd_ctr' = fd_ctr /\ fd_list' = fd_list /\ tasks' = tasks
      /\ odd' = odd /\ status' = status
  BY <1>2 DEF SetPosition
<1>6. Core(node, fds, used_fd, fd_ctr, tasks, odd)
  BY DEF FilesInv
<1>7. Core(node, fds', used_fd, fd_ctr, tasks, odd)
  BY <1>1, <1>3, <1>4, <1>5, <1>6, MoveCore
<1> QED
  BY <1>5, <1>7, StatusKept, InvariantParts

(* The smaller of two numbers. *)
LEMMA LesserIs ==
    ASSUME NEW a \in Nat, NEW b \in Nat
    PROVE  Min({a, b}) \in Nat /\ Min({a, b}) <= a /\ Min({a, b}) <= b
<1>1. {a, b} \in SUBSET Nat /\ {a, b} # {} /\ a \in {a, b} /\ b \in {a, b}
  OBVIOUS
<1> QED
  BY <1>1, LeastIs

(* What read and write may do lies in front of the end of the file. *)
LEMMA RoomIs ==
    ASSUME FilesInv, NEW t \in tasks, NEW i \in Slots, Valid(t, i), NEW f, f = used_fd[t][i],
           NEW size \in Nat
    PROVE  /\ Room(f, size) \in Nat /\ Room(f, size) <= size
           /\ Calm /\ node[fds[f].node].v_type = "FILE" =>
                 fds[f].position + Room(f, size) <= node[fds[f].node].size
<1>1. /\ fds[f].position \in 0..(Word - 1) /\ node[fds[f].node].size \in 0..(Word - 1)
      /\ Calm /\ node[fds[f].node].v_type = "FILE" => fds[f].position <= node[fds[f].node].size
  BY ValidIs
<1>2. PICK p : p = fds[f].position
  OBVIOUS
<1>3. PICK z : z = node[fds[f].node].size
  OBVIOUS
<1>4. PICK left : left = (z - p) % Word
  OBVIOUS
<1>5. p \in 0..(Word - 1) /\ z \in 0..(Word - 1) /\ p \in Nat /\ z \in Nat /\ z < Word
  BY <1>1, <1>2, <1>3, Constants
<1>6. left \in Nat
  <2>1. z - p \in Int
    BY <1>5
  <2>2. left \in 0..(Word - 1)
    BY <1>4, <2>1, ModRange
  <2> QED
    BY <2>2, Constants
<1>7. p <= z => left = z - p
  <2>1. ASSUME p <= z PROVE left = z - p
    <3>1. z - p \in Nat /\ z - p < Word
      BY <1>5, <2>1, Constants
    <3> QED
      BY <1>4, <3>1, SmallMod, Constants
  <2> QED
    BY <2>1
<1>8. Room(f, size) = IF node[fds[f].node].v_type = "CHRDEV" THEN size ELSE Min({size, left})
  BY <1>2, <1>3, <1>4 DEF Room
<1>9. Min({size, left}) \in Nat /\ Min({size, left}) <= size /\ Min({size, left}) <= left
  BY <1>6, LesserIs
<1>10. Room(f, size) \in Nat /\ Room(f, size) <= size
  BY <1>8, <1>9
<1>11. ASSUME Calm, node[fds[f].node].v_type = "FILE" PROVE p + Room(f, size) <= z
  <2>1. left = z - p
    BY <1>1, <1>2, <1>3, <1>7, <1>11
  <2>2. Room(f, size) <= left
    BY <1>8, <1>9, <1>11
  <2> QED
    BY <1>5, <1>10, <2>1, <2>2
<1> QED
  BY <1>2, <1>3, <1>10, <1>11

(* read moves to the end of the file at most. *)
LEMMA ReadInv ==
    ASSUME FilesInv, NEW t \in tasks, NEW i \in Slots, NEW size \in Sizes, read(t, i, size)
    PROVE  FilesInv'
<1>1. PICK f : f = used_fd[t][i]
  OBVIOUS
<1>2. Valid(t, i) /\ SetPosition(f, fds[f].position + Room(f, size))
  BY <1>1 DEF read
<1>3. size \in Nat
  BY FilesAssumption
<1>4. fds[f].position \in 0..(Word - 1)
  BY <1>1, <1>2, ValidIs
<1>5. /\ Room(f, size) \in Nat
      /\ Calm /\ node[fds[f].node].v_type = "FILE" =>
            fds[f].position + Room(f, size) <= node[fds[f].node].size
  BY <1>1, <1>2, <1>3, RoomIs
<1>6. fds[f].position + Room(f, size) \in Int /\ 0 <= fds[f].position + Room(f, size)
  BY <1>4, <1>5, Constants
<1> QED
  BY <1>1, <1>2, <1>5, <1>6, MoveInv

(* write either fits or never comes back. *)
LEMMA WriteInv ==
    ASSUME FilesInv, NEW t \in tasks, NEW i \in Slots, NEW size \in Sizes, write(t, i, size)
    PROVE  FilesInv'
<1>1. PICK f : f = used_fd[t][i]
  OBVIOUS
<1>2. /\ Valid(t, i)
      /\ IF Room(f, size) < size
         THEN status' = "hang" /\ Noted({"past the end"}) /\ UNCHANGED files
         ELSE SetPosition(f, fds[f].position + size)
  BY <1>1 DEF write
<1>3. size \in Nat
  BY FilesAssumption
<1>4. CASE Room(f, size) < size
  <2>1. /\ node' = node /\ fds' = fds /\ used_fd' = used_fd /\ fd_ctr' = fd_ctr /\ fd_list' = fd_list /\ tasks' = tasks
        /\ odd \subseteq odd' /\ status' = "hang"
    BY <1>2, <1>4 DEF files, Noted
  <2>2. Core(node, fds, used_fd, fd_ctr, tasks, odd)
    BY DEF FilesInv
  <2>3. Core(node', fds', used_fd', fd_ctr', tasks', odd')
    BY <2>1, <2>2, CoreOdd
  <2> QED
    BY <2>1, <2>3, StatusKept, InvariantParts
<1>5. CASE ~(Room(f, size) < size)
  <2>1. fds[f].position \in 0..(Word - 1)
    BY <1>1, <1>2, ValidIs
  <2>2. /\ Room(f, size) \in Nat /\ Room(f, size) <= size
        /\ Calm /\ node[fds[f].node].v_type = "FILE" =>
              fds[f].position + Room(f, size) <= node[fds[f].node].size
    BY <1>1, <1>2, <1>3, RoomIs
  <2>3. Room(f, size) = size
    BY <1>3, <1>5, <2>2
  <2>4. fds[f].position + size \in Int /\ 0 <= fds[f].position + size
    BY <1>3, <2>1, Constants
  <2>5. SetPosition(f, fds[f].position + size)
    BY <1>2, <1>5
  <2>6. Calm /\ node[fds[f].node].v_type = "FILE" => fds[f].position + size <= node[fds[f].node].size
    BY <2>2, <2>3
  <2> QED
    BY <1>1, <1>2, <2>4, <2>5, <2>6, MoveInv
<1> QED
  BY <1>4, <1>5

(* lseek refuses what lies outside of the file. *)
LEMMA LseekInv ==
    ASSUME FilesInv, NEW t \in tasks, NEW i \in Slots, NEW offset \in Int, NEW whence,
           lseek(t, i, offset, whence)
    PROVE  FilesInv'
<1>1. PICK f : f = used_fd[t][i]
  OBVIOUS
<1>2. PICK new : new = IF whence = "SEEK_CUR" THEN (fds[f].position + offset) % Word ELSE offset
  OBVIOUS
<1>3. PICK x : x = seek(f, offset, whence)
  OBVIOUS
<1>4. Valid(t, i) /\ x # -1 /\ SetPosition(f, x)
  BY <1>1, <1>3 DEF lseek
<1>5. x = IF new < 0 \/ new > node[fds[f].node].size THEN -1 ELSE new
  BY <1>2, <1>3 DEF seek
<1>6. fds[f].position \in 0..(Word - 1) /\ node[fds[f].node].size \in 0..(Word - 1)
  BY <1>1, <1>4, ValidIs
<1>7. new \in Int
  <2>1. fds[f].position + offset \in Int
    BY <1>6
  <2>2. (fds[f].position + offset) % Word \in 0..(Word - 1)
    BY <2>1, ModRange
  <2> QED
    BY <1>2, <2>2
<1>8. x \in Int /\ 0 <= x /\ x <= node[fds[f].node].size
  BY <1>4, <1>5, <1>6, <1>7
<1> QED
  BY <1>1, <1>4, <1>8, MoveInv

(* A directory is not a file: its positions have no end. *)
LEMMA ReaddirInv ==
    ASSUME FilesInv, NEW t \in tasks, NEW i \in Slots, readdir(t, i)
    PROVE  FilesInv'
<1>1. PICK f : f = used_fd[t][i]
  OBVIOUS
<1>2. /\ Valid(t, i) /\ node[fds[f].node].v_type \in {"DIR", "MNTPT"}
      /\ SetPosition(f, fds[f].position + 1)
  BY <1>1 DEF readdir
<1>3. fds[f].position \in 0..(Word - 1)
  BY <1>1, <1>2, ValidIs
<1>4. fds[f].position + 1 \in Int /\ node[fds[f].node].v_type # "FILE"
  BY <1>2, <1>3
<1> QED
  BY <1>1, <1>2, <1>4, MoveInv

(* do_fork copies pointers: if it copies one to an open file, that is noted. *)
LEMMA ForkInv ==
    ASSUME FilesInv, NEW t \in tasks, NEW c \in Tasks, fork(t, c)
    PROVE  FilesInv'
<1>1. PICK copied : copied = Copied(used_fd[t], fd_ctr[t])
  OBVIOUS
<1>2. /\ c \notin tasks /\ tasks' = tasks \cup {c}
      /\ used_fd' = [used_fd EXCEPT ![c] = [i \in Slots |-> IF i \in copied THEN used_fd[t][i] ELSE NULL]]
      /\ fd_ctr' = [fd_ctr EXCEPT ![c] = fd_ctr[t]]
      /\ odd' = odd \cup (IF \E i \in copied : used_fd[t][i] \in FdPool THEN {"shared"} ELSE {})
      /\ node' = node /\ fds' = fds /\ fd_list' = fd_list /\ status' = status
  BY <1>1, Zenon DEF fork, Copied, Noted, File
<1>3. used_fd' = [used_fd EXCEPT ![c] = CopyOf(used_fd[t], fd_ctr[t])]
  BY <1>1, <1>2 DEF CopyOf
<1>4. odd \subseteq odd'
  BY <1>2
<1>5. SharesFile(used_fd, fd_ctr, t) => "shared" \in odd'
  BY <1>1, <1>2 DEF SharesFile
<1>6. Core(node, fds, used_fd, fd_ctr, tasks, odd)
  BY DEF FilesInv
<1>7. Core(node, fds, used_fd', fd_ctr', tasks \cup {c}, odd')
  <2>1. Forks(used_fd, used_fd', fd_ctr, fd_ctr', t, c)
    BY <1>2, <1>3 DEF Forks
  <2> QED
    BY <1>2, <1>4, <1>5, <1>6, <2>1, ForkCore
<1>8. Core(node', fds', used_fd', fd_ctr', tasks', odd')
  BY <1>2, <1>7
<1> QED
  BY <1>2, <1>4, <1>8, StatusKept, InvariantParts

(* What do_close and the loops start from. *)
LEMMA StateIs ==
    ASSUME FilesInv
    PROVE  /\ Shaped(State) /\ State.used = used_fd /\ State.ctr = fd_ctr
           /\ State.node = node /\ State.fds = fds /\ State.list = fd_list
           /\ Calm => Good(State, tasks)
           /\ Calm /\ Orderly => \A t \in tasks : Rest(State, tasks, t, 2)
<1>1. /\ State.node = node /\ State.fds = fds /\ State.used = used_fd /\ State.ctr = fd_ctr
      /\ State.bad = FALSE /\ State.list = fd_list /\ IsState(State)
  BY DEF State, IsState
<1>2. Core(node, fds, used_fd, fd_ctr, tasks, odd)
  BY DEF FilesInv
<1>3. State \in States
  <2>1. node \in [Nodes -> Vnodes \cup {NULL}] /\ fds \in [FdPool -> Descriptors \cup {NULL}]
    BY <1>2 DEF Core, Tree, NodesTyped
  <2>2. used_fd \in [Tasks -> Rows] /\ fd_ctr \in [Tasks -> 0..(Word - 1)]
    BY <1>2 DEF Core
  <2>3. fd_list \in FdLists
    BY DEF FilesInv
  <2> QED
    BY <1>1, <2>1, <2>2, <2>3, StateParts
<1>4. Shaped(State)
  BY <1>1, <1>2, <1>3 DEF Core, Shaped
<1>5. Calm => Good(State, tasks)
  BY <1>1, <1>2 DEF Core, Good, Calm
<1>6. Calm /\ Orderly => Tidy(fds, used_fd, fd_ctr, tasks)
  BY <1>2 DEF Core, Calm, Orderly
<1>7. Calm /\ Orderly => \A t \in tasks : Rest(State, tasks, t, 2)
  BY <1>1, <1>6 DEF Tidy, Rest
<1> QED
  BY <1>1, <1>4, <1>5, <1>7

(* What they end with becomes the state. *)
Neat(s, ts) == Tidy(s.fds, s.used, s.ctr, ts)

(* If that is in order, the invariant holds again. *)
LEMMA SetInv ==
    ASSUME FilesInv, NEW s, Set(s), odd \subseteq odd', Shaped(s), init \in tasks', tasks' \subseteq Tasks,
           CalmIn(odd') => Good(s, tasks'),
           CalmIn(odd') /\ OrderlyIn(odd') => Neat(s, tasks')
    PROVE  FilesInv'
<1>1. /\ node' = s.node /\ fds' = s.fds /\ used_fd' = s.used /\ fd_ctr' = s.ctr
      /\ fd_list' = s.list
      /\ status' = IF s.bad THEN "crash"
                   ELSE IF Elsewhere \in s.list.stray THEN "overwritten" ELSE status
  BY DEF Set
<1>2. /\ s.fds \in [FdPool -> Descriptors \cup {NULL}] /\ s.used \in [Tasks -> Rows]
      /\ s.ctr \in [Tasks -> 0..(Word - 1)] /\ s.bad \in BOOLEAN /\ s.list \in FdLists
  BY DEF Shaped, States
<1>3. Tree(s.node) /\ Placed(s.used)
  BY DEF Shaped
<1>4. CalmIn(odd') => FilesHeld(s.node, s.fds) /\ Owned(s.fds, s.used, tasks') /\ s.bad = FALSE
  BY DEF Good
<1>5. CalmIn(odd') /\ OrderlyIn(odd') => Tidy(s.fds, s.used, s.ctr, tasks')
  BY DEF Neat
<1>6. Core(s.node, s.fds, s.used, s.ctr, tasks', odd')
  BY <1>2, <1>3, <1>4, <1>5 DEF Core
<1>7. Core(node', fds', used_fd', fd_ctr', tasks', odd')
  BY <1>1, <1>6
<1>8. /\ status' \in {status, "overwritten"} \/ (status' = "crash" /\ ~CalmIn(odd'))
      /\ fd_list' \in FdLists
  BY <1>1, <1>2, <1>4
<1> QED
  BY <1>7, <1>8, StatusKept, InvariantParts

(* Closing a default descriptor is noted. *)
LEMMA CloseInv ==
    ASSUME FilesInv, NEW t \in tasks, NEW i \in Slots, close(t, i)
    PROVE  FilesInv'
<1>1. PICK w : w = do_close(State, t, i)
  OBVIOUS
<1>2. Set(w) /\ tasks' = tasks
  BY <1>1 DEF close
<1>3. odd' = odd \cup (IF i \in 0..1 /\ used_fd[t][i] = Defaults[i] THEN {"default closed"} ELSE {})
  BY Zenon DEF close, Noted
<1>4. odd \subseteq odd'
  BY <1>3
<1>5. init \in tasks /\ tasks \subseteq Tasks /\ t \in Tasks
  BY DEF FilesInv, Core
<1>6. Shaped(State) /\ State.used = used_fd
  BY StateIs
<1>7. Shaped(w)
  BY <1>1, <1>5, <1>6, CloseShaped
<1>8. (CalmIn(odd') => Calm) /\ (OrderlyIn(odd') => Orderly)
  BY <1>4 DEF CalmIn, OrderlyIn, Calm, Orderly
<1>9. Calm => Good(w, tasks)
  <2>1. ASSUME Calm PROVE Good(w, tasks)
    <3>1. Good(State, tasks)
      BY <2>1, StateIs
    <3> QED
      BY <1>1, <1>5, <1>6, <3>1, CloseGood
  <2> QED
    BY <2>1
<1>10. ASSUME CalmIn(odd'), OrderlyIn(odd') PROVE Neat(w, tasks)
  <2>1. Good(State, tasks) /\ Rest(State, tasks, t, 2)
    BY <1>8, <1>10, StateIs
  <2>2. ~(i \in 0..1 /\ used_fd[t][i] = Defaults[i])
    BY <1>3, <1>10 DEF OrderlyIn
  <2>3. used_fd[t][0] = Defaults[0] /\ used_fd[t][1] = Defaults[1]
    BY <1>6, <2>1 DEF Rest, Settled
  <2>4. i >= 2
    BY <2>2, <2>3, Constants DEF Slots
  <2>5. Rest(w, tasks, t, 2)
    BY <1>1, <1>5, <1>6, <2>1, <2>4, CloseRest
  <2> QED
    BY <2>5 DEF Rest, Tidy, Neat
<1> QED
  BY <1>2, <1>4, <1>5, <1>7, <1>8, <1>9, <1>10, SetInv

(* Execve puts the default descriptors where they belong. *)
Restored(s, w, t) ==
    /\ IsState(w)
    /\ w.node = s.node /\ w.fds = s.fds /\ w.list = s.list /\ w.ctr = s.ctr /\ w.bad = s.bad
    /\ w.used = [s.used EXCEPT ![t] = [s.used[t] EXCEPT ![0] = Defaults[0], ![1] = Defaults[1]]]

(* What execve maintains while it closes files still holds then. *)
LEMMA RestoredExecutes ==
    ASSUME NEW s, NEW ts \in SUBSET Tasks, NEW t \in ts, Executes(s, ts, t), NEW w, Restored(s, w, t)
    PROVE  Executes(w, ts, t)
<1>1. s \in States /\ Tree(s.node) /\ Placed(s.used) /\ s.used \in [Tasks -> Rows]
  BY DEF Executes, Shaped, States
<1>2. 0 \in Slots /\ 1 \in Slots /\ t \in Tasks
  BY Constants DEF Slots
<1>3. /\ \A j \in Slots : w.used[t][j] = IF j = 0 THEN Defaults[0] ELSE IF j = 1 THEN Defaults[1] ELSE s.used[t][j]
      /\ \A u \in Tasks : u # t => w.used[u] = s.used[u]
      /\ w.used \in [Tasks -> Rows]
  <2>1. PICK row : row = [s.used[t] EXCEPT ![0] = Defaults[0], ![1] = Defaults[1]]
    OBVIOUS
  <2>2. /\ row \in Rows
        /\ \A j \in Slots : row[j] = IF j = 0 THEN Defaults[0] ELSE IF j = 1 THEN Defaults[1] ELSE s.used[t][j]
    BY <1>1, <1>2, <2>1 DEF Rows
  <2>3. w.used = [s.used EXCEPT ![t] = row]
    BY <2>1 DEF Restored
  <2>4. w.used[t] = row
    BY <1>1, <1>2, <2>3
  <2>5. \A u \in Tasks : u # t => w.used[u] = s.used[u]
    BY <1>1, <2>3
  <2>6. w.used \in [Tasks -> Rows]
    BY <1>1, <2>2, <2>3
  <2> QED
    BY <2>2, <2>4, <2>5, <2>6
<1>4. Shaped(w)
  <2>1. w \in States
    <3>1. /\ s.node \in [Nodes -> Vnodes \cup {NULL}] /\ s.fds \in [FdPool -> Descriptors \cup {NULL}]
          /\ s.list \in FdLists /\ s.ctr \in [Tasks -> 0..(Word - 1)] /\ s.bad \in BOOLEAN
      BY <1>1 DEF States
    <3>2. /\ IsState(w) /\ w.node = s.node /\ w.fds = s.fds /\ w.list = s.list
          /\ w.ctr = s.ctr /\ w.bad = s.bad
      BY DEF Restored
    <3> QED
      BY <1>3, <3>1, <3>2, StateParts
  <2>2. Placed(w.used)
    <3>1. ASSUME NEW u \in Tasks, NEW j \in Slots
          PROVE  w.used[u][j] \in FdPool \cup {NULL} \/ (j \in 0..1 /\ w.used[u][j] = Defaults[j])
      <4>1. s.used[u][j] \in FdPool \cup {NULL} \/ (j \in 0..1 /\ s.used[u][j] = Defaults[j])
        BY <1>1 DEF Placed
      <4>2. CASE u # t
        BY <1>3, <4>1, <4>2
      <4>3. CASE u = t
        <5>1. CASE j = 0 \/ j = 1
          <6>1. w.used[t][j] = Defaults[j]
            BY <1>3, <5>1, Zenon
          <6>2. j \in 0..1
            BY <5>1
          <6> QED
            BY <4>3, <6>1, <6>2
        <5>2. CASE ~(j = 0 \/ j = 1)
          BY <1>3, <4>1, <4>3, <5>2
        <5> QED
          BY <5>1, <5>2
      <4> QED
        BY <4>2, <4>3
    <3> QED
      BY <3>1 DEF Placed
  <2>3. Tree(w.node)
    BY <1>1 DEF Restored
  <2> QED
    BY <2>1, <2>2, <2>3 DEF Shaped
<1>5. \A u \in ts : \A j \in Slots : w.used[u][j] \in FdPool => w.used[u][j] = s.used[u][j]
  <2>1. Defaults[0] \notin FdPool /\ Defaults[1] \notin FdPool
    BY FilesAssumption
  <2> QED
    BY <1>3, <2>1
<1>6. ASSUME Calm PROVE Good(w, ts)
  <2>1. FilesHeld(s.node, s.fds) /\ Owned(s.fds, s.used, ts) /\ s.bad = FALSE
    BY <1>6 DEF Executes, Good
  <2>2. Owned(s.fds, w.used, ts)
    <3>1. ASSUME NEW u \in ts, NEW j \in Slots, w.used[u][j] \in FdPool
          PROVE  /\ s.fds[w.used[u][j]] # NULL
                 /\ \A v \in ts : \A k \in Slots : w.used[u][j] = w.used[v][k] => u = v /\ j = k
      <4>1. w.used[u][j] = s.used[u][j]
        BY <1>5, <3>1
      <4>2. ASSUME NEW v \in ts, NEW k \in Slots, w.used[u][j] = w.used[v][k] PROVE u = v /\ j = k
        <5>1. w.used[v][k] = s.used[v][k]
          BY <1>5, <3>1, <4>2
        <5>2. s.used[u][j] = s.used[v][k] /\ s.used[u][j] \in FdPool
          BY <3>1, <4>1, <4>2, <5>1
        <5>3. Owned(s.fds, s.used, ts)
          BY <2>1
        <5> QED
          BY <5>2, <5>3 DEF Owned
      <4> QED
        BY <2>1, <3>1, <4>1, <4>2 DEF Owned
    <3> QED
      BY <3>1 DEF Owned
  <2> QED
    BY <2>1, <2>2 DEF Good, Restored
<1>7. ASSUME Calm, Orderly PROVE Rest(w, ts, t, 2)
  <2>1. Rest(s, ts, t, 2)
    BY <1>7 DEF Executes
  <2>2. s.used[t][0] = Defaults[0] /\ s.used[t][1] = Defaults[1]
    BY <2>1 DEF Rest, Settled
  <2>3. w.used = s.used
    <3>1. \A j \in Slots : w.used[t][j] = s.used[t][j]
      BY <1>3, <2>2
    <3>2. w.used[t] = s.used[t]
      <4>1. w.used[t] \in Rows /\ s.used[t] \in Rows
        BY <1>1, <1>2, <1>3
      <4> QED
        BY <3>1, <4>1 DEF Rows
    <3>3. \A u \in Tasks : w.used[u] = s.used[u]
      BY <1>3, <3>2
    <3> QED
      BY <1>1, <1>3, <3>3
  <2> QED
    BY <2>1, <2>3 DEF Rest, Restored
<1> QED
  BY <1>4, <1>6, <1>7 DEF Executes

(* do_execve keeps the invariant. *)
LEMMA ExecveInv ==
    ASSUME FilesInv, NEW t \in tasks, execve(t)
    PROVE  FilesInv'
<1>1. PICK s : s = [State EXCEPT !.used[t][0] = Defaults[0], !.used[t][1] = Defaults[1]]
  OBVIOUS
<1>2. PICK w : w = CloseFrom(s, t, 2, 2)
  OBVIOUS
<1>3. Set(w) /\ tasks' = tasks /\ odd' = odd
  BY <1>1, <1>2 DEF execve
<1>4. init \in tasks /\ tasks \in SUBSET Tasks /\ t \in Tasks
  BY DEF FilesInv, Core
<1>5. Executes(State, tasks, t)
  BY StateIs DEF Executes
<1>6. State \in States
  BY StateIs DEF Shaped
<1>7. Restored(State, s, t)
  <2>1. PICK r : r = State
    OBVIOUS
  <2>2. r \in States /\ s = [r EXCEPT !.used[t][0] = Defaults[0], !.used[t][1] = Defaults[1]]
    BY <1>1, <1>6, <2>1
  <2>3. Restored(r, s, t)
    BY <1>4, <2>2 DEF Restored, IsState, States
  <2> QED
    BY <2>1, <2>3
<1>8. Executes(s, tasks, t)
  BY <1>4, <1>5, <1>7, RestoredExecutes
<1>9. Executes(w, tasks, t)
  BY <1>2, <1>4, <1>8, ExecutesEnds
<1>10. Shaped(w) /\ (Calm => Good(w, tasks)) /\ (Calm /\ Orderly => Rest(w, tasks, t, 2))
  BY <1>9 DEF Executes
<1>11. Rest(w, tasks, t, 2) => Neat(w, tasks)
  BY DEF Rest, Neat, Tidy
<1>12. (CalmIn(odd') => Calm) /\ (OrderlyIn(odd') => Orderly)
  BY <1>3 DEF Calm, Orderly
<1> QED
  BY <1>3, <1>4, <1>10, <1>11, <1>12, SetInv

(* The end of a task: its table is cleared. *)
Wiped(s, w, t) ==
    /\ IsState(w)
    /\ w.node = s.node /\ w.fds = s.fds /\ w.list = s.list /\ w.bad = s.bad
    /\ w.used = [s.used EXCEPT ![t] = [i \in Slots |-> NULL]]
    /\ w.ctr = [s.ctr EXCEPT ![t] = 0]

(* The tables of the other tasks stay as they are. *)
LEMMA WipedShaped ==
    ASSUME NEW s, Shaped(s), NEW t \in Tasks, NEW w, Wiped(s, w, t)
    PROVE  /\ Shaped(w)
           /\ \A u \in Tasks : u # t => w.used[u] = s.used[u] /\ w.ctr[u] = s.ctr[u]
<1>1. s \in States /\ Tree(s.node) /\ Placed(s.used)
  BY DEF Shaped
<1>2. /\ s.node \in [Nodes -> Vnodes \cup {NULL}] /\ s.fds \in [FdPool -> Descriptors \cup {NULL}]
      /\ s.list \in FdLists
      /\ s.used \in [Tasks -> Rows] /\ s.ctr \in [Tasks -> 0..(Word - 1)] /\ s.bad \in BOOLEAN
  BY <1>1 DEF States
<1>3. PICK row : row = [i \in Slots |-> NULL]
  OBVIOUS
<1>4. row \in Rows /\ \A i \in Slots : row[i] = NULL
  BY <1>3 DEF Rows
<1>5. w.used = [s.used EXCEPT ![t] = row] /\ w.ctr = [s.ctr EXCEPT ![t] = 0]
  BY <1>3 DEF Wiped
<1>6. 0 \in 0..(Word - 1)
  BY Constants
<1>7. w.used \in [Tasks -> Rows] /\ w.used[t] = row /\ \A u \in Tasks : u # t => w.used[u] = s.used[u]
  BY <1>2, <1>4, <1>5
<1>8. w.ctr \in [Tasks -> 0..(Word - 1)] /\ \A u \in Tasks : u # t => w.ctr[u] = s.ctr[u]
  BY <1>2, <1>5, <1>6
<1>9. IsState(w) /\ w.node = s.node /\ w.fds = s.fds /\ w.list = s.list /\ w.bad = s.bad
  BY DEF Wiped
<1>10. w \in States
  BY <1>2, <1>7, <1>8, <1>9, StateParts
<1>11. Placed(w.used)
  BY <1>1, <1>4, <1>7 DEF Placed
<1>12. Shaped(w)
  BY <1>1, <1>9, <1>10, <1>11 DEF Shaped
<1> QED
  BY <1>7, <1>8, <1>12

(* What a task leaves behind when it had only the default descriptors left. *)
LEMMA WipedNeat ==
    ASSUME NEW s, Shaped(s), NEW ts \in SUBSET Tasks, NEW t \in ts, NEW w, Wiped(s, w, t),
           Leaves(s, ts, t, MAX_FDS - 1)
    PROVE  Neat(w, ts \ {t})
<1>1. Rest(s, ts, t, Uncounted(MAX_FDS - 1))
  BY DEF Leaves
<1>2. \A j \in Slots : j >= 2 => s.used[t][j] = NULL
  BY Constants DEF Leaves, Slots
<1>3. s.used[t][0] = Defaults[0] /\ s.used[t][1] = Defaults[1]
  BY <1>1 DEF Rest, Settled
<1>4. \A j \in Slots : s.used[t][j] \notin FdPool
  <2>1. ASSUME NEW j \in Slots PROVE s.used[t][j] \notin FdPool
    <3>1. Defaults[0] \notin FdPool /\ Defaults[1] \notin FdPool /\ NULL \notin FdPool
      BY FilesAssumption, Constants
    <3>2. j = 0 \/ j = 1 \/ j >= 2
      BY Constants DEF Slots
    <3> QED
      BY <1>2, <1>3, <3>1, <3>2
  <2> QED
    BY <2>1
<1>5. /\ \A u \in Tasks : u # t => w.used[u] = s.used[u] /\ w.ctr[u] = s.ctr[u]
      /\ w.fds = s.fds
  BY WipedShaped DEF Wiped
<1>6. Held(w.fds, w.used, ts \ {t})
  <2>1. ASSUME NEW f \in FdPool, w.fds[f] # NULL
        PROVE  \E u \in ts \ {t} : \E j \in Slots : w.used[u][j] = f
    <3>1. PICK u \in ts, j \in Slots : s.used[u][j] = f
      BY <1>1, <1>5, <2>1 DEF Rest, Held
    <3>2. u # t
      BY <1>4, <3>1
    <3> QED
      BY <1>5, <3>1, <3>2
  <2> QED
    BY <2>1 DEF Held
<1>7. \A u \in ts \ {t} : Settled(w.used[u], w.ctr[u], 2)
  BY <1>1, <1>5 DEF Rest
<1> QED
  BY <1>6, <1>7 DEF Neat, Tidy

(* do_exit and the release of the task keep the invariant. *)
LEMMA ExitInv ==
    ASSUME FilesInv, NEW t \in tasks, exit(t)
    PROVE  FilesInv'
<1>1. PICK s : s = CloseFrom(State, t, 0, 0)
  OBVIOUS
<1>2. PICK w : w = [s EXCEPT !.used[t] = [i \in Slots |-> NULL], !.ctr[t] = 0]
  OBVIOUS
<1>3. Set(w) /\ tasks' = tasks \ {t} /\ odd' = odd /\ t # init
  BY <1>1, <1>2 DEF exit
<1>4. init \in tasks /\ tasks \in SUBSET Tasks /\ t \in Tasks
  BY DEF FilesInv, Core
<1>5. Exits(State, tasks, t, -1)
  <2>1. Uncounted(-1) = 2
    BY DEF Uncounted
  <2>2. \A j \in Slots : ~(2 <= j /\ j <= -1)
    BY Constants DEF Slots
  <2>3. Rest(State, tasks, t, 2) => Leaves(State, tasks, t, -1)
    BY <2>1, <2>2 DEF Leaves
  <2> QED
    BY <2>3, StateIs DEF Exits
<1>6. Exits(s, tasks, t, MAX_FDS - 1)
  BY <1>1, <1>4, <1>5, ExitsEnds
<1>7. Shaped(s) /\ (Calm => Good(s, tasks)) /\ (Calm /\ Orderly => Leaves(s, tasks, t, MAX_FDS - 1))
  BY <1>6 DEF Exits
<1>8. Wiped(s, w, t)
  <2>1. s \in States
    BY <1>7 DEF Shaped
  <2> QED
    BY <1>2, <1>4, <2>1 DEF Wiped, IsState, States
<1>9. /\ Shaped(w)
      /\ \A u \in Tasks : u # t => w.used[u] = s.used[u] /\ w.ctr[u] = s.ctr[u]
  BY <1>4, <1>7, <1>8, WipedShaped
<1>10. ASSUME Calm PROVE Good(w, tasks \ {t})
  <2>1. FilesHeld(s.node, s.fds) /\ Owned(s.fds, s.used, tasks) /\ s.bad = FALSE
    BY <1>7, <1>10 DEF Good
  <2>2. Owned(s.fds, w.used, tasks \ {t})
    BY <1>4, <1>9, <2>1 DEF Owned
  <2> QED
    BY <1>8, <2>1, <2>2 DEF Wiped, Good
<1>11. ASSUME Calm, Orderly PROVE Neat(w, tasks \ {t})
  BY <1>4, <1>7, <1>8, <1>11, WipedNeat
<1>12. (CalmIn(odd') => Calm) /\ (OrderlyIn(odd') => Orderly)
  BY <1>3 DEF Calm, Orderly
<1>13. init \in tasks' /\ tasks' \subseteq Tasks
  BY <1>3, <1>4
<1> QED
  BY <1>3, <1>9, <1>10, <1>11, <1>12, <1>13, SetInv

-----------------------------------------------------------------------------
(* The boot *)

(* Vnode n is r with these links. *)
At(nd, n, r, parent, first, last, prev, next) ==
    nd[n] # NULL /\ Relinked(r, nd[n], parent, first, last, prev, next)

(* A vnode that was made. *)
LEMMA FreshAt ==
    ASSUME NEW r, Fresh(r), NEW nd, NEW n, nd[n] = r
    PROVE  At(nd, n, r, NULL, NULL, NULL, NULL, NULL)
<1>1. r \in Vnodes /\ r # NULL
  BY Constants DEF Fresh
<1>2. Relinked(r, r, r.parent, r.first, r.last, r.prev, r.next)
  BY <1>1, NoLink
<1> QED
  BY <1>1, <1>2 DEF At, Fresh

(* Memory stays what it is when c is linked to its first sibling, or without one. *)
AddTo(nd, nd2, p, c) == nd2 = namei_add_child(nd, p, c) /\ p \in Nodes /\ c \in Nodes /\ p # c

(* What becomes of vnode n when c is the first child of p. *)
FirstLinks(nd, nd2, p, c) ==
    /\ NodesOk(nd2)
    /\ \A n \in Nodes : nd[n] = NULL => nd2[n] = NULL
    /\ \A n \in Nodes : \A r, up, first, last, prev, next :
          At(nd, n, r, up, first, last, prev, next) =>
              At(nd2, n, r, IF n = c THEN p ELSE up, IF n = p THEN c ELSE first,
                 IF n = p THEN c ELSE last, IF n = c THEN NULL ELSE prev,
                 IF n = c THEN NULL ELSE next)

(* namei_add_child does that to a directory without children. *)
LEMMA FirstAt ==
    ASSUME NEW nd, NodesOk(nd), NEW nd2, NEW p, NEW c, AddTo(nd, nd2, p, c),
           nd[p] # NULL, nd[p].first = NULL, nd[c] # NULL
    PROVE  FirstLinks(nd, nd2, p, c)
<1>1. /\ IsMap(nd2)
      /\ \A n \in Nodes : nd[n] = NULL => nd2[n] = NULL
      /\ \A n \in Nodes : nd[n] # NULL => AddedTo(nd, nd2, p, c, n)
  <2>1. PICK l : l = nd[p].last
    OBVIOUS
  <2>2. p \in Nodes /\ c \in Nodes /\ p # c /\ nd2 = namei_add_child(nd, p, c)
    BY DEF AddTo
  <2> QED
    BY <2>1, <2>2, AddFields
<1>2. ASSUME NEW n \in Nodes, nd[n] # NULL
      PROVE  Relinked(nd[n], nd2[n], IF n = c THEN p ELSE nd[n].parent, IF n = p THEN c ELSE nd[n].first,
                      IF n = p THEN c ELSE nd[n].last, IF n = c THEN NULL ELSE nd[n].prev,
                      IF n = c THEN NULL ELSE nd[n].next)
  BY <1>1, <1>2 DEF AddedTo, Relinked
<1>3. NodesOk(nd2)
  <2>1. \A n \in Nodes : nd2[n] \in Vnodes \cup {NULL}
    BY <1>1, <1>2 DEF Relinked
  <2> QED
    BY <1>1, <2>1 DEF IsMap, NodesOk
<1>4. ASSUME NEW n \in Nodes, NEW r, NEW up, NEW first, NEW last, NEW prev, NEW next,
             At(nd, n, r, up, first, last, prev, next)
      PROVE  At(nd2, n, r, IF n = c THEN p ELSE up, IF n = p THEN c ELSE first,
                IF n = p THEN c ELSE last, IF n = c THEN NULL ELSE prev,
                IF n = c THEN NULL ELSE next)
  <2>1. nd[n] # NULL /\ Relinked(r, nd[n], up, first, last, prev, next)
    BY <1>4 DEF At
  <2>2. nd2[n] \in Vnodes /\ nd2[n] # NULL
    BY <1>2, <2>1, Constants DEF Relinked
  <2>3. Relinked(r, nd2[n], IF n = c THEN p ELSE up, IF n = p THEN c ELSE first,
                 IF n = p THEN c ELSE last, IF n = c THEN NULL ELSE prev,
                 IF n = c THEN NULL ELSE next)
    BY <1>2, <2>1 DEF Relinked
  <2> QED
    BY <2>2, <2>3 DEF At
<1> QED
  BY <1>1, <1>3, <1>4 DEF FirstLinks

(* What becomes of vnode n when c is put behind l, the last child of p. *)
SecondLinks(nd, nd2, p, c, l) ==
    /\ NodesOk(nd2)
    /\ \A n \in Nodes : nd[n] = NULL => nd2[n] = NULL
    /\ \A n \in Nodes : \A r, up, first, last, prev, next :
          At(nd, n, r, up, first, last, prev, next) =>
              At(nd2, n, r, IF n = c THEN p ELSE up, first,
                 IF n = p THEN c ELSE last, IF n = c THEN l ELSE prev,
                 IF n = c THEN NULL ELSE IF n = l THEN c ELSE next)

(* namei_add_child does that to a directory with children. *)
LEMMA SecondAt ==
    ASSUME NEW nd, NodesOk(nd), NEW nd2, NEW p, NEW c, AddTo(nd, nd2, p, c),
           nd[p] # NULL, nd[p].first # NULL, nd[c] # NULL,
           NEW l \in Nodes, l = nd[p].last, l # c, l # p, nd[l] # NULL
    PROVE  SecondLinks(nd, nd2, p, c, l)
<1>1. /\ IsMap(nd2)
      /\ \A n \in Nodes : nd[n] = NULL => nd2[n] = NULL
      /\ \A n \in Nodes : nd[n] # NULL => AddedTo(nd, nd2, p, c, n)
  <2>2. p \in Nodes /\ c \in Nodes /\ p # c /\ nd2 = namei_add_child(nd, p, c)
    BY DEF AddTo
  <2> QED
    BY <2>2, AddFields
<1>2. ASSUME NEW n \in Nodes, nd[n] # NULL
      PROVE  Relinked(nd[n], nd2[n], IF n = c THEN p ELSE nd[n].parent, nd[n].first,
                      IF n = p THEN c ELSE nd[n].last, IF n = c THEN l ELSE nd[n].prev,
                      IF n = c THEN NULL ELSE IF n = l THEN c ELSE nd[n].next)
  BY <1>1, <1>2 DEF AddedTo, Relinked
<1>3. NodesOk(nd2)
  <2>1. \A n \in Nodes : nd2[n] \in Vnodes \cup {NULL}
    BY <1>1, <1>2 DEF Relinked
  <2> QED
    BY <1>1, <2>1 DEF IsMap, NodesOk
<1>4. ASSUME NEW n \in Nodes, NEW r, NEW up, NEW first, NEW last, NEW prev, NEW next,
             At(nd, n, r, up, first, last, prev, next)
      PROVE  At(nd2, n, r, IF n = c THEN p ELSE up, first,
                IF n = p THEN c ELSE last, IF n = c THEN l ELSE prev,
                IF n = c THEN NULL ELSE IF n = l THEN c ELSE next)
  <2>1. nd[n] # NULL /\ Relinked(r, nd[n], up, first, last, prev, next)
    BY <1>4 DEF At
  <2>2. nd2[n] \in Vnodes /\ nd2[n] # NULL
    BY <1>2, <2>1, Constants DEF Relinked
  <2>3. Relinked(r, nd2[n], IF n = c THEN p ELSE up, first,
                 IF n = p THEN c ELSE last, IF n = c THEN l ELSE prev,
                 IF n = c THEN NULL ELSE IF n = l THEN c ELSE next)
    BY <1>2, <2>1 DEF Relinked
  <2> QED
    BY <2>2, <2>3 DEF At
<1> QED
  BY <1>1, <1>3, <1>4 DEF SecondLinks

(* The tree at boot, made of five vnodes. *)
Booted(nd, root, bin, sh, dev, zero) ==
    /\ NodesOk(nd)
    /\ \A n \in Nodes : n \notin FixedNodes => nd[n] = NULL
    /\ At(nd, "root", root, NULL, "bin", "dev", NULL, NULL)
    /\ At(nd, "bin", bin, "root", "sh", "sh", NULL, "dev")
    /\ At(nd, "sh", sh, "bin", NULL, NULL, NULL, NULL)
    /\ At(nd, "dev", dev, "root", "zero", "zero", "bin", NULL)
    /\ At(nd, "zero", zero, "dev", NULL, NULL, NULL, NULL)

(* The part of it that is the archive, and the memory before it is linked. *)
Archive(nd, root, bin, sh) ==
    /\ NodesOk(nd)
    /\ \A n \in Nodes : n \notin {"root", "bin", "sh"} => nd[n] = NULL
    /\ At(nd, "root", root, NULL, "bin", "bin", NULL, NULL)
    /\ At(nd, "bin", bin, "root", "sh", "sh", NULL, NULL)
    /\ At(nd, "sh", sh, "bin", NULL, NULL, NULL, NULL)
Unlinked(nd, root, bin, sh) ==
    nd = [[[n \in Nodes |-> NULL] EXCEPT !["root"] = root] EXCEPT !["bin"] = bin, !["sh"] = sh]

(* initrd_load. *)
LEMMA BootArchive ==
    ASSUME NEW root, Fresh(root), NEW bin, Fresh(bin), NEW sh, Fresh(sh),
           NEW nd2, Unlinked(nd2, root, bin, sh),
           NEW nd3, nd3 = namei_add_child(nd2, "root", "bin"),
           NEW nd4, nd4 = namei_add_child(nd3, "bin", "sh")
    PROVE  Archive(nd4, root, bin, sh)
<1>1. "root" \in Nodes /\ "bin" \in Nodes /\ "sh" \in Nodes
  BY DEF Nodes, FixedNodes
<1>2. root \in Vnodes /\ bin \in Vnodes /\ sh \in Vnodes
  BY DEF Fresh
<1>3. /\ nd2 = [n \in Nodes |-> nd2[n]]
      /\ nd2["root"] = root /\ nd2["bin"] = bin /\ nd2["sh"] = sh
      /\ \A n \in Nodes : n \notin {"root", "bin", "sh"} => nd2[n] = NULL
  BY <1>1 DEF Unlinked
<1>4. NodesOk(nd2)
  <2>1. \A n \in Nodes : nd2[n] \in Vnodes \cup {NULL}
    BY <1>2, <1>3
  <2> QED
    BY <1>3, <2>1 DEF NodesOk
<1>5. /\ At(nd2, "root", root, NULL, NULL, NULL, NULL, NULL)
      /\ At(nd2, "bin", bin, NULL, NULL, NULL, NULL, NULL)
      /\ At(nd2, "sh", sh, NULL, NULL, NULL, NULL, NULL)
  BY <1>3, FreshAt
<1>6. /\ NodesOk(nd3)
      /\ \A n \in Nodes : n \notin {"root", "bin", "sh"} => nd3[n] = NULL
      /\ At(nd3, "root", root, NULL, "bin", "bin", NULL, NULL)
      /\ At(nd3, "bin", bin, "root", NULL, NULL, NULL, NULL)
      /\ At(nd3, "sh", sh, NULL, NULL, NULL, NULL, NULL)
  <2>1. AddTo(nd2, nd3, "root", "bin")
    BY <1>1 DEF AddTo
  <2>2. nd2["root"] # NULL /\ nd2["root"].first = NULL /\ nd2["bin"] # NULL
    BY <1>5 DEF At, Relinked
  <2>3. /\ NodesOk(nd3)
        /\ \A n \in Nodes : nd2[n] = NULL => nd3[n] = NULL
        /\ \A n \in Nodes : \A r, up, first, last, prev, next :
              At(nd2, n, r, up, first, last, prev, next) =>
                  At(nd3, n, r, IF n = "bin" THEN "root" ELSE up, IF n = "root" THEN "bin" ELSE first,
                     IF n = "root" THEN "bin" ELSE last, IF n = "bin" THEN NULL ELSE prev,
                     IF n = "bin" THEN NULL ELSE next)
    <3>1. FirstLinks(nd2, nd3, "root", "bin")
      BY <1>4, <2>1, <2>2, FirstAt
    <3> QED
      BY <3>1 DEF FirstLinks
  <2>4. At(nd3, "root", root, NULL, "bin", "bin", NULL, NULL)
    BY <1>1, <1>5, <2>3
  <2>5. At(nd3, "bin", bin, "root", NULL, NULL, NULL, NULL)
    BY <1>1, <1>5, <2>3
  <2>6. At(nd3, "sh", sh, NULL, NULL, NULL, NULL, NULL)
    BY <1>1, <1>5, <2>3
  <2> QED
    BY <1>3, <2>3, <2>4, <2>5, <2>6
<1>7. AddTo(nd3, nd4, "bin", "sh")
  BY <1>1 DEF AddTo
<1>8. nd3["bin"] # NULL /\ nd3["bin"].first = NULL /\ nd3["sh"] # NULL
  BY <1>6 DEF At, Relinked
<1>9. /\ NodesOk(nd4)
      /\ \A n \in Nodes : nd3[n] = NULL => nd4[n] = NULL
      /\ \A n \in Nodes : \A r, up, first, last, prev, next :
            At(nd3, n, r, up, first, last, prev, next) =>
                At(nd4, n, r, IF n = "sh" THEN "bin" ELSE up, IF n = "bin" THEN "sh" ELSE first,
                   IF n = "bin" THEN "sh" ELSE last, IF n = "sh" THEN NULL ELSE prev,
                   IF n = "sh" THEN NULL ELSE next)
  <2>1. FirstLinks(nd3, nd4, "bin", "sh")
    BY <1>6, <1>7, <1>8, FirstAt
  <2> QED
    BY <2>1 DEF FirstLinks
<1>10. At(nd4, "root", root, NULL, "bin", "bin", NULL, NULL)
  BY <1>1, <1>6, <1>9
<1>11. At(nd4, "bin", bin, "root", "sh", "sh", NULL, NULL)
  BY <1>1, <1>6, <1>9
<1>12. At(nd4, "sh", sh, "bin", NULL, NULL, NULL, NULL)
  BY <1>1, <1>6, <1>9
<1> QED
  BY <1>6, <1>9, <1>10, <1>11, <1>12 DEF Archive

(* devfs_init. *)
LEMMA BootDevices ==
    ASSUME NEW root, NEW bin, NEW sh, NEW dev, Fresh(dev), NEW zero, Fresh(zero),
           NEW nd4, Archive(nd4, root, bin, sh),
           NEW nd5, nd5 = [nd4 EXCEPT !["dev"] = dev, !["zero"] = zero],
           NEW nd6, nd6 = namei_add_child(nd5, "root", "dev"),
           NEW nd7, nd7 = namei_add_child(nd6, "dev", "zero")
    PROVE  Booted(nd7, root, bin, sh, dev, zero)
<1>0. /\ NodesOk(nd4)
      /\ \A n \in Nodes : n \notin {"root", "bin", "sh"} => nd4[n] = NULL
      /\ At(nd4, "root", root, NULL, "bin", "bin", NULL, NULL)
      /\ At(nd4, "bin", bin, "root", "sh", "sh", NULL, NULL)
      /\ At(nd4, "sh", sh, "bin", NULL, NULL, NULL, NULL)
  BY DEF Archive
<1>1. "root" \in Nodes /\ "bin" \in Nodes /\ "sh" \in Nodes /\ "dev" \in Nodes /\ "zero" \in Nodes
  BY DEF Nodes, FixedNodes
<1>2. dev \in Vnodes /\ zero \in Vnodes
  BY DEF Fresh
<1>3. /\ nd5 = [n \in Nodes |-> nd5[n]]
      /\ nd5["dev"] = dev /\ nd5["zero"] = zero
      /\ \A n \in Nodes : n # "dev" /\ n # "zero" => nd5[n] = nd4[n]
  BY <1>0, <1>1 DEF NodesOk
<1>4. NodesOk(nd5)
  <2>1. \A n \in Nodes : nd5[n] \in Vnodes \cup {NULL}
    BY <1>0, <1>2, <1>3 DEF NodesOk
  <2> QED
    BY <1>3, <2>1 DEF NodesOk
<1>5. /\ At(nd5, "root", root, NULL, "bin", "bin", NULL, NULL)
      /\ At(nd5, "bin", bin, "root", "sh", "sh", NULL, NULL)
      /\ At(nd5, "sh", sh, "bin", NULL, NULL, NULL, NULL)
  BY <1>0, <1>1, <1>3 DEF At
<1>6. /\ At(nd5, "dev", dev, NULL, NULL, NULL, NULL, NULL)
      /\ At(nd5, "zero", zero, NULL, NULL, NULL, NULL, NULL)
  BY <1>3, FreshAt
<1>7. \A n \in Nodes : n \notin FixedNodes => nd5[n] = NULL
  BY <1>0, <1>3 DEF FixedNodes
<1>8. /\ NodesOk(nd6)
      /\ \A n \in Nodes : n \notin FixedNodes => nd6[n] = NULL
      /\ At(nd6, "root", root, NULL, "bin", "dev", NULL, NULL)
      /\ At(nd6, "bin", bin, "root", "sh", "sh", NULL, "dev")
      /\ At(nd6, "sh", sh, "bin", NULL, NULL, NULL, NULL)
      /\ At(nd6, "dev", dev, "root", NULL, NULL, "bin", NULL)
      /\ At(nd6, "zero", zero, NULL, NULL, NULL, NULL, NULL)
  <2>1. AddTo(nd5, nd6, "root", "dev")
    BY <1>1 DEF AddTo
  <2>2. nd5["root"] # NULL /\ nd5["root"].first = "bin" /\ nd5["root"].last = "bin"
    BY <1>5 DEF At, Relinked
  <2>3. nd5["root"].first # NULL
    BY <1>1, <2>2, Constants
  <2>4. nd5["dev"] # NULL /\ nd5["bin"] # NULL
    BY <1>5, <1>6 DEF At
  <2>5. /\ NodesOk(nd6)
        /\ \A n \in Nodes : nd5[n] = NULL => nd6[n] = NULL
        /\ \A n \in Nodes : \A r, up, first, last, prev, next :
              At(nd5, n, r, up, first, last, prev, next) =>
                  At(nd6, n, r, IF n = "dev" THEN "root" ELSE up, first,
                     IF n = "root" THEN "dev" ELSE last, IF n = "dev" THEN "bin" ELSE prev,
                     IF n = "dev" THEN NULL ELSE IF n = "bin" THEN "dev" ELSE next)
    <3>1. SecondLinks(nd5, nd6, "root", "dev", "bin")
      BY <1>1, <1>4, <2>1, <2>2, <2>3, <2>4, SecondAt
    <3> QED
      BY <3>1 DEF SecondLinks
  <2>6. At(nd6, "root", root, NULL, "bin", "dev", NULL, NULL)
    BY <1>1, <1>5, <2>5
  <2>7. At(nd6, "bin", bin, "root", "sh", "sh", NULL, "dev")
    BY <1>1, <1>5, <2>5
  <2>8. At(nd6, "sh", sh, "bin", NULL, NULL, NULL, NULL)
    BY <1>1, <1>5, <2>5
  <2>9. At(nd6, "dev", dev, "root", NULL, NULL, "bin", NULL)
    BY <1>1, <1>6, <2>5
  <2>10. At(nd6, "zero", zero, NULL, NULL, NULL, NULL, NULL)
    BY <1>1, <1>6, <2>5
  <2> QED
    BY <1>7, <2>5, <2>6, <2>7, <2>8, <2>9, <2>10
<1>9. AddTo(nd6, nd7, "dev", "zero")
  BY <1>1 DEF AddTo
<1>10. nd6["dev"] # NULL /\ nd6["dev"].first = NULL /\ nd6["zero"] # NULL
  BY <1>8 DEF At, Relinked
<1>11. /\ NodesOk(nd7)
       /\ \A n \in Nodes : nd6[n] = NULL => nd7[n] = NULL
       /\ \A n \in Nodes : \A r, up, first, last, prev, next :
             At(nd6, n, r, up, first, last, prev, next) =>
                 At(nd7, n, r, IF n = "zero" THEN "dev" ELSE up, IF n = "dev" THEN "zero" ELSE first,
                    IF n = "dev" THEN "zero" ELSE last, IF n = "zero" THEN NULL ELSE prev,
                    IF n = "zero" THEN NULL ELSE next)
  <2>1. FirstLinks(nd6, nd7, "dev", "zero")
    BY <1>8, <1>9, <1>10, FirstAt
  <2> QED
    BY <2>1 DEF FirstLinks
<1>12. At(nd7, "root", root, NULL, "bin", "dev", NULL, NULL)
  BY <1>1, <1>8, <1>11
<1>13. At(nd7, "bin", bin, "root", "sh", "sh", NULL, "dev")
  BY <1>1, <1>8, <1>11
<1>14. At(nd7, "sh", sh, "bin", NULL, NULL, NULL, NULL)
  BY <1>1, <1>8, <1>11
<1>15. At(nd7, "dev", dev, "root", "zero", "zero", "bin", NULL)
  BY <1>1, <1>8, <1>11
<1>16. At(nd7, "zero", zero, "dev", NULL, NULL, NULL, NULL)
  BY <1>1, <1>8, <1>11
<1> QED
  BY <1>8, <1>11, <1>12, <1>13, <1>14, <1>15, <1>16 DEF Booted

(* What the vnodes of the boot can do, and what they are called. *)
BootKinds(root, bin, sh, dev, zero) ==
    /\ "remove" \notin bin.op /\ "remove" \notin sh.op /\ "remove" \notin dev.op /\ "remove" \notin zero.op
    /\ "rmdir" \notin root.op /\ "rmdir" \notin bin.op /\ "rmdir" \notin sh.op /\ "rmdir" \notin zero.op
    /\ bin.name # dev.name

(* The lists of children at boot. *)
BootLists == [n \in Nodes |-> IF n = "root" THEN <<"bin", "dev">>
                              ELSE IF n = "bin" THEN <<"sh">>
                              ELSE IF n = "dev" THEN <<"zero">> ELSE << >>]

(* What they contain. *)
LEMMA BootSequences ==
    /\ BootLists \in [Nodes -> Seq(Nodes)]
    /\ Len(BootLists["root"]) = 2 /\ BootLists["root"][1] = "bin" /\ BootLists["root"][2] = "dev"
    /\ Len(BootLists["bin"]) = 1 /\ BootLists["bin"][1] = "sh"
    /\ Len(BootLists["dev"]) = 1 /\ BootLists["dev"][1] = "zero"
    /\ \A n \in Nodes : n \notin {"root", "bin", "dev"} => Len(BootLists[n]) = 0
<1>1. "root" \in Nodes /\ "bin" \in Nodes /\ "sh" \in Nodes /\ "dev" \in Nodes /\ "zero" \in Nodes
  BY DEF Nodes, FixedNodes
<1>2. BootLists["root"] = <<"bin", "dev">> /\ BootLists["bin"] = <<"sh">> /\ BootLists["dev"] = <<"zero">>
  BY <1>1 DEF BootLists
<1>3. \A n \in Nodes : n \notin {"root", "bin", "dev"} => BootLists[n] = << >>
  BY DEF BootLists
<1>4. \A n \in Nodes : BootLists[n] \in Seq(Nodes)
  <2>1. <<"bin", "dev">> \in Seq(Nodes)
    BY <1>1
  <2>2. <<"sh">> \in Seq(Nodes) /\ <<"zero">> \in Seq(Nodes) /\ << >> \in Seq(Nodes)
    BY <1>1
  <2> QED
    BY <1>2, <1>3, <2>1, <2>2
<1>5. BootLists \in [Nodes -> Seq(Nodes)]
  <2>1. BootLists = [n \in Nodes |-> BootLists[n]]
    BY DEF BootLists
  <2> QED
    BY <1>4, <2>1
<1>6. Len(BootLists["root"]) = 2 /\ BootLists["root"][1] = "bin" /\ BootLists["root"][2] = "dev"
  BY <1>2
<1>7. /\ Len(BootLists["bin"]) = 1 /\ BootLists["bin"][1] = "sh"
      /\ Len(BootLists["dev"]) = 1 /\ BootLists["dev"][1] = "zero"
  BY <1>2
<1>8. \A n \in Nodes : n \notin {"root", "bin", "dev"} => Len(BootLists[n]) = 0
  BY <1>3
<1> QED
  BY <1>5, <1>6, <1>7, <1>8

(* The links of the vnodes at boot. *)
BootLinks(nd) ==
    /\ \A n \in {"root", "bin", "sh", "dev", "zero"} : n \in Nodes /\ nd[n] # NULL /\ n # NULL
    /\ \A n \in Nodes : n \notin {"root", "bin", "sh", "dev", "zero"} => nd[n] = NULL
    /\ nd["root"].parent = NULL /\ nd["root"].first = "bin" /\ nd["root"].last = "dev"
    /\ nd["root"].prev = NULL /\ nd["root"].next = NULL
    /\ nd["bin"].parent = "root" /\ nd["bin"].first = "sh" /\ nd["bin"].last = "sh"
    /\ nd["bin"].prev = NULL /\ nd["bin"].next = "dev"
    /\ nd["sh"].parent = "bin" /\ nd["sh"].first = NULL /\ nd["sh"].last = NULL
    /\ nd["sh"].prev = NULL /\ nd["sh"].next = NULL
    /\ nd["dev"].parent = "root" /\ nd["dev"].first = "zero" /\ nd["dev"].last = "zero"
    /\ nd["dev"].prev = "bin" /\ nd["dev"].next = NULL
    /\ nd["zero"].parent = "dev" /\ nd["zero"].first = NULL /\ nd["zero"].last = NULL
    /\ nd["zero"].prev = NULL /\ nd["zero"].next = NULL

(* The links spell these lists. *)
LEMMA BootSpelled ==
    ASSUME NEW nd, NodesOk(nd), BootLinks(nd)
    PROVE  Spelled(nd, BootLists)
<1>1. \A n \in {"root", "bin", "sh", "dev", "zero"} : n \in Nodes /\ nd[n] # NULL /\ n # NULL
  BY DEF BootLinks
<1>2. \A n \in Nodes : n \notin {"root", "bin", "sh", "dev", "zero"} => nd[n] = NULL
  BY DEF BootLinks
<1>3. /\ First(nd)["root"] = "bin" /\ First(nd)["bin"] = "sh" /\ First(nd)["sh"] = NULL
      /\ First(nd)["dev"] = "zero" /\ First(nd)["zero"] = NULL
  BY DEF BootLinks, First
<1>4. /\ Last(nd)["root"] = "dev" /\ Last(nd)["bin"] = "sh" /\ Last(nd)["sh"] = NULL
      /\ Last(nd)["dev"] = "zero" /\ Last(nd)["zero"] = NULL
  BY DEF BootLinks, Last
<1>5. /\ NextOf(nd)["root"] = NULL /\ NextOf(nd)["bin"] = "dev" /\ NextOf(nd)["sh"] = NULL
      /\ NextOf(nd)["dev"] = NULL /\ NextOf(nd)["zero"] = NULL
  BY DEF BootLinks, NextOf
<1>6. /\ Prev(nd)["root"] = NULL /\ Prev(nd)["bin"] = NULL /\ Prev(nd)["sh"] = NULL
      /\ Prev(nd)["dev"] = "bin" /\ Prev(nd)["zero"] = NULL
  BY DEF BootLinks, Prev
<1>7. /\ Parent(nd)["root"] = NULL /\ Parent(nd)["bin"] = "root" /\ Parent(nd)["sh"] = "bin"
      /\ Parent(nd)["dev"] = "root" /\ Parent(nd)["zero"] = "dev"
  BY DEF BootLinks, Parent
<1>8. \A n \in Nodes : nd[n] = NULL => First(nd)[n] = NULL /\ Last(nd)[n] = NULL /\ Parent(nd)[n] = NULL
  BY DEF First, Last, Parent
<1>9. /\ First(nd) \in [Nodes -> Nodes \cup {NULL}] /\ Last(nd) \in [Nodes -> Nodes \cup {NULL}]
      /\ NextOf(nd) \in [Nodes -> Nodes \cup {NULL}] /\ Prev(nd) \in [Nodes -> Nodes \cup {NULL}]
      /\ Parent(nd) \in [Nodes -> Nodes \cup {NULL}]
  <2>1. \A n \in Nodes : nd[n] # NULL =>
          /\ nd[n].first \in Nodes \cup {NULL} /\ nd[n].last \in Nodes \cup {NULL}
          /\ nd[n].next \in Nodes \cup {NULL} /\ nd[n].prev \in Nodes \cup {NULL}
          /\ nd[n].parent \in Nodes \cup {NULL}
    BY DEF NodesOk, Vnodes
  <2> QED
    BY <2>1 DEF First, Last, NextOf, Prev, Parent
<1>10. ASSUME NEW i \in Nodes
       PROVE  /\ Len(BootLists[i]) = 0 => First(nd)[i] = NULL
              /\ Len(BootLists[i]) > 0 =>
                    First(nd)[i] = BootLists[i][1] /\ Last(nd)[i] = BootLists[i][Len(BootLists[i])]
  <2>1. CASE i = "root"
    BY <1>3, <1>4, <2>1, BootSequences
  <2>2. CASE i = "bin"
    BY <1>3, <1>4, <2>2, BootSequences
  <2>3. CASE i = "dev"
    BY <1>3, <1>4, <2>3, BootSequences
  <2>4. CASE i \notin {"root", "bin", "dev"}
    <3>1. Len(BootLists[i]) = 0
      BY <2>4, BootSequences
    <3>2. First(nd)[i] = NULL
      BY <1>2, <1>3, <1>8, <2>4
    <3> QED
      BY <3>1, <3>2
  <2> QED
    BY <2>1, <2>2, <2>3, <2>4
<1>11. ASSUME NEW i \in Nodes, NEW k \in 1..Len(BootLists[i])
       PROVE  /\ Parent(nd)[BootLists[i][k]] = i
              /\ NextOf(nd)[BootLists[i][k]] = IF k = Len(BootLists[i]) THEN NULL ELSE BootLists[i][k + 1]
              /\ Prev(nd)[BootLists[i][k]] = IF k = 1 THEN NULL ELSE BootLists[i][k - 1]
              /\ \A j \in 1..Len(BootLists[i]) : BootLists[i][j] = BootLists[i][k] => j = k
  <2>1. CASE i = "root"
    <3>1. Len(BootLists[i]) = 2 /\ BootLists[i][1] = "bin" /\ BootLists[i][2] = "dev"
      BY <2>1, BootSequences
    <3>2. k = 1 \/ k = 2
      BY <3>1
    <3>3. \A j \in 1..Len(BootLists[i]) : j = 1 \/ j = 2
      BY <3>1
    <3> QED
      BY <1>5, <1>6, <1>7, <2>1, <3>1, <3>2, <3>3
  <2>2. CASE i = "bin"
    <3>1. Len(BootLists[i]) = 1 /\ BootLists[i][1] = "sh"
      BY <2>2, BootSequences
    <3>2. k = 1 /\ \A j \in 1..Len(BootLists[i]) : j = 1
      BY <3>1
    <3> QED
      BY <1>5, <1>6, <1>7, <2>2, <3>1, <3>2
  <2>3. CASE i = "dev"
    <3>1. Len(BootLists[i]) = 1 /\ BootLists[i][1] = "zero"
      BY <2>3, BootSequences
    <3>2. k = 1 /\ \A j \in 1..Len(BootLists[i]) : j = 1
      BY <3>1
    <3> QED
      BY <1>5, <1>6, <1>7, <2>3, <3>1, <3>2
  <2>4. CASE i \notin {"root", "bin", "dev"}
    <3>1. Len(BootLists[i]) = 0
      BY <2>4, BootSequences
    <3> QED
      BY <3>1
  <2> QED
    BY <2>1, <2>2, <2>3, <2>4
<1>12. ASSUME NEW c \in Nodes, Parent(nd)[c] # NULL
       PROVE  \E k \in 1..Len(BootLists[Parent(nd)[c]]) : BootLists[Parent(nd)[c]][k] = c
  <2>1. c \in {"bin", "sh", "dev", "zero"}
    BY <1>2, <1>7, <1>8, <1>12
  <2>2. 1 \in 1..1 /\ 1 \in 1..2 /\ 2 \in 1..2
    OBVIOUS
  <2>3. CASE c = "bin"
    BY <1>7, <2>2, <2>3, BootSequences
  <2>4. CASE c = "sh"
    BY <1>7, <2>2, <2>4, BootSequences
  <2>5. CASE c = "dev"
    BY <1>7, <2>2, <2>5, BootSequences
  <2>6. CASE c = "zero"
    BY <1>7, <2>2, <2>6, BootSequences
  <2> QED
    BY <2>1, <2>3, <2>4, <2>5, <2>6
<1>13. Lists(NULL, Nodes, Nodes, BootLists, First(nd), Last(nd), NextOf(nd), Prev(nd), Parent(nd))
  BY <1>9, <1>10, <1>11, <1>12, BootSequences, Zenon DEF Lists
<1>14. \A n \in Nodes : First(nd)[n] = NULL => Last(nd)[n] = NULL
  BY <1>1, <1>2, <1>3, <1>4, <1>8
<1>15. \A n \in Nodes : nd[n] = NULL => Len(BootLists[n]) = 0
  BY <1>1, BootSequences
<1> QED
  BY <1>13, <1>14, <1>15 DEF Spelled

(* The vnodes of the boot form a tree. *)
LEMMA BootTree ==
    ASSUME NEW nd, NEW root, NEW bin, NEW sh, NEW dev, NEW zero, Booted(nd, root, bin, sh, dev, zero),
           BootKinds(root, bin, sh, dev, zero)
    PROVE  Tree(nd)
<1>1. /\ NodesOk(nd)
      /\ \A n \in Nodes : n \notin FixedNodes => nd[n] = NULL
      /\ At(nd, "root", root, NULL, "bin", "dev", NULL, NULL)
      /\ At(nd, "bin", bin, "root", "sh", "sh", NULL, "dev")
      /\ At(nd, "sh", sh, "bin", NULL, NULL, NULL, NULL)
      /\ At(nd, "dev", dev, "root", "zero", "zero", "bin", NULL)
      /\ At(nd, "zero", zero, "dev", NULL, NULL, NULL, NULL)
  BY DEF Booted
<1>2. \A n \in {"root", "bin", "sh", "dev", "zero"} : n \in Nodes /\ nd[n] # NULL /\ n # NULL
  BY <1>1, Constants DEF At, Nodes, FixedNodes
<1>3. BootLinks(nd)
  BY <1>1, <1>2 DEF At, Relinked, FixedNodes, BootLinks
<1>4. /\ nd["root"].op = root.op /\ nd["bin"].op = bin.op /\ nd["sh"].op = sh.op
      /\ nd["dev"].op = dev.op /\ nd["zero"].op = zero.op
      /\ nd["bin"].name = bin.name /\ nd["dev"].name = dev.name
  BY <1>1 DEF At, Relinked
<1>5. \A n \in Nodes : nd[n] # NULL => n \in {"root", "bin", "sh", "dev", "zero"}
  BY <1>1 DEF FixedNodes
<1>6. /\ nd["root"].parent = NULL /\ nd["bin"].parent = "root" /\ nd["sh"].parent = "bin"
      /\ nd["dev"].parent = "root" /\ nd["zero"].parent = "dev"
  BY <1>3 DEF BootLinks
<1>7. NodesTyped(nd)
  BY <1>1, <1>2 DEF NodesTyped, NodesOk, FixedNodes
<1>8. Named(nd)
  <2>1. \A n \in Nodes : nd[n] # NULL => (n = "root" <=> nd[n].parent = NULL) /\ nd[n].parent # n
    BY <1>2, <1>5, <1>6
  <2>2. ASSUME NEW c \in Nodes, NEW d \in Nodes, nd[c] # NULL, nd[d] # NULL, c # "root",
               nd[c].parent = nd[d].parent, nd[c].name = nd[d].name
        PROVE  c = d
    <3>1. c \in {"bin", "sh", "dev", "zero"} /\ d \in {"root", "bin", "sh", "dev", "zero"}
      BY <1>5, <2>2
    <3>2. d # "root"
      BY <1>2, <1>6, <2>2, <3>1
    <3>3. nd["bin"].name # nd["dev"].name
      BY <1>4 DEF BootKinds
    <3> QED
      BY <1>6, <2>2, <3>1, <3>2, <3>3
  <2> QED
    BY <2>1, <2>2 DEF Named
<1>9. Kinds(nd)
  <2>1. \A n \in Nodes : nd[n] # NULL /\ "remove" \in nd[n].op => n = "root"
    BY <1>4, <1>5 DEF BootKinds
  <2>2. \A n \in FixedNodes \ {"root"} : "remove" \notin nd[n].op
    BY <1>4 DEF BootKinds, FixedNodes
  <2>3. \A n \in FixedNodes \ {"dev"} : "rmdir" \notin nd[n].op
    BY <1>4 DEF BootKinds, FixedNodes
  <2> QED
    BY <1>6, <2>1, <2>2, <2>3 DEF Kinds
<1>10. Spelled(nd, BootLists) /\ BootLists \in [Nodes -> Seq(Nodes)]
  BY <1>1, <1>3, BootSpelled, BootSequences
<1> QED
  BY <1>7, <1>8, <1>9, <1>10 DEF Tree

(* Sizes in the archive are sizes. *)
LEMMA TarSize ==
    ASSUME NEW size \in Nat
    PROVE  tar_size(size) \in 0..(Word - 1)
<1>1. (IF size % TarBlock # 0 THEN size + TarBlock ELSE size) - TarBlock \in Int
  <2>1. TarBlock \in Nat
    BY FilesAssumption
  <2>2. PICK x : x = IF size % TarBlock # 0 THEN size + TarBlock ELSE size
    OBVIOUS
  <2>3. x = size + TarBlock \/ x = size
    BY <2>2, Zenon
  <2>4. x - TarBlock \in Int
    BY <2>1, <2>3
  <2> QED
    BY <2>2, <2>4
<1> QED
  BY <1>1, ModRange DEF tar_size

(* The vnodes of the boot. *)
Made(r, name, op) == Fresh(r) /\ r.name = name /\ r.op = op /\ r.active_fds = 0

(* They are made like this. *)
LEMMA BootVnodes ==
    /\ Made(Vnode("/", "MNTPT", {"open", "close", "touch", "remove", "mkdir", "readdir"}, 0), "/",
            {"open", "close", "touch", "remove", "mkdir", "readdir"})
    /\ Made(_init_vnode("bin", "DIR", 0), "bin", {"open", "close", "readdir"})
    /\ Made(_init_vnode("sh", "FILE", FileSize), "sh", {"open", "close", "read"})
    /\ Made(ramfs_mkdir("dev"), "dev", {"open", "close", "touch", "mkdir", "rmdir", "readdir"})
    /\ Made(dev_zero_init, "zero", {"open", "close", "read", "write"})
<1>1. "/" \in Names /\ "bin" \in Names /\ "sh" \in Names /\ "dev" \in Names /\ "zero" \in Names
  BY DEF Names
<1>2. 0 \in 0..(Word - 1) /\ tar_size(0) \in 0..(Word - 1) /\ tar_size(FileSize) \in 0..(Word - 1)
  <2>1. FileSize \in Nat /\ Word \in Nat /\ 0 < Word
    BY FilesAssumption
  <2>2. tar_size(0) \in 0..(Word - 1) /\ tar_size(FileSize) \in 0..(Word - 1)
    BY <2>1, TarSize
  <2> QED
    BY <2>1, <2>2
<1>3. ASSUME NEW name \in Names, NEW kind \in {"FILE", "DIR", "MNTPT", "CHRDEV"},
             NEW op \in SUBSET Operations, NEW size \in 0..(Word - 1)
      PROVE  Made(Vnode(name, kind, op, size), name, op)
  <2>1. PICK v : v = Vnode(name, kind, op, size)
    OBVIOUS
  <2>2. Made(v, name, op)
    BY <2>1, VnodeFresh DEF Made
  <2> QED
    BY <2>1, <2>2
<1>4. /\ {"open", "close", "touch", "remove", "mkdir", "readdir"} \in SUBSET Operations
      /\ {"open", "close", "readdir"} \in SUBSET Operations
      /\ {"open", "close", "read"} \in SUBSET Operations
      /\ {"open", "close", "touch", "mkdir", "rmdir", "readdir"} \in SUBSET Operations
      /\ {"open", "close", "read", "write"} \in SUBSET Operations
  BY DEF Operations
<1>5. \A kind \in {"FILE", "DIR", "MNTPT", "CHRDEV"} :
        kind = "FILE" \/ kind = "DIR" \/ kind = "MNTPT" \/ kind = "CHRDEV"
  OBVIOUS
<1>6. /\ "FILE" \in {"FILE", "DIR", "MNTPT", "CHRDEV"} /\ "DIR" \in {"FILE", "DIR", "MNTPT", "CHRDEV"}
      /\ "MNTPT" \in {"FILE", "DIR", "MNTPT", "CHRDEV"} /\ "CHRDEV" \in {"FILE", "DIR", "MNTPT", "CHRDEV"}
  OBVIOUS
<1>7. Made(Vnode("/", "MNTPT", {"open", "close", "touch", "remove", "mkdir", "readdir"}, 0), "/",
           {"open", "close", "touch", "remove", "mkdir", "readdir"})
  BY <1>1, <1>2, <1>3, <1>4, <1>6, Zenon
<1>8. Made(_init_vnode("bin", "DIR", 0), "bin", {"open", "close", "readdir"})
  <2>1. _init_vnode("bin", "DIR", 0) = Vnode("bin", "DIR", {"open", "close", "readdir"}, tar_size(0))
    <3>1. {"open", "close"} \cup (IF "DIR" = "FILE" THEN {"read"} ELSE {"readdir"})
            = {"open", "close", "readdir"}
      OBVIOUS
    <3> QED
      BY <3>1, Zenon DEF _init_vnode
  <2> QED
    BY <1>1, <1>2, <1>3, <1>4, <1>6, <2>1, Zenon
<1>9. Made(_init_vnode("sh", "FILE", FileSize), "sh", {"open", "close", "read"})
  <2>1. _init_vnode("sh", "FILE", FileSize) = Vnode("sh", "FILE", {"open", "close", "read"}, tar_size(FileSize))
    <3>1. {"open", "close"} \cup (IF "FILE" = "FILE" THEN {"read"} ELSE {"readdir"})
            = {"open", "close", "read"}
      OBVIOUS
    <3> QED
      BY <3>1, Zenon DEF _init_vnode
  <2> QED
    BY <1>1, <1>2, <1>3, <1>4, <1>6, <2>1, Zenon
<1>10. Made(ramfs_mkdir("dev"), "dev", {"open", "close", "touch", "mkdir", "rmdir", "readdir"})
  BY <1>1, <1>2, <1>3, <1>4, <1>6, Zenon DEF ramfs_mkdir
<1>11. Made(dev_zero_init, "zero", {"open", "close", "read", "write"})
  BY <1>1, <1>2, <1>3, <1>4, <1>6, Zenon DEF dev_zero_init
<1> QED
  BY <1>7, <1>8, <1>9, <1>10, <1>11

(* main starts the first task with a tree without open files. *)
LEMMA InitNode ==
    ASSUME Init
    PROVE  Tree(node) /\ \A n \in Nodes : node[n] # NULL => node[n].active_fds = 0
<1>1. PICK root : root = Vnode("/", "MNTPT", {"open", "close", "touch", "remove", "mkdir", "readdir"}, 0)
  OBVIOUS
<1>2. PICK bin : bin = _init_vnode("bin", "DIR", 0)
  OBVIOUS
<1>3. PICK sh : sh = _init_vnode("sh", "FILE", FileSize)
  OBVIOUS
<1>4. PICK dev : dev = ramfs_mkdir("dev")
  OBVIOUS
<1>5. PICK zero : zero = dev_zero_init
  OBVIOUS
<1>6. /\ Made(root, "/", {"open", "close", "touch", "remove", "mkdir", "readdir"})
      /\ Made(bin, "bin", {"open", "close", "readdir"})
      /\ Made(sh, "sh", {"open", "close", "read"})
      /\ Made(dev, "dev", {"open", "close", "touch", "mkdir", "rmdir", "readdir"})
      /\ Made(zero, "zero", {"open", "close", "read", "write"})
  BY <1>1, <1>2, <1>3, <1>4, <1>5, BootVnodes
<1>7. Fresh(root) /\ Fresh(bin) /\ Fresh(sh) /\ Fresh(dev) /\ Fresh(zero)
  BY <1>6 DEF Made
<1>8. /\ root.active_fds = 0 /\ bin.active_fds = 0 /\ sh.active_fds = 0
      /\ dev.active_fds = 0 /\ zero.active_fds = 0
  BY <1>6 DEF Made
<1>9. BootKinds(root, bin, sh, dev, zero)
  BY <1>6 DEF Made, BootKinds
<1>10. PICK nd2 : Unlinked(nd2, root, bin, sh)
  BY DEF Unlinked
<1>11. PICK nd3 : nd3 = namei_add_child(nd2, "root", "bin")
  OBVIOUS
<1>12. PICK nd4 : nd4 = namei_add_child(nd3, "bin", "sh")
  OBVIOUS
<1>13. nd4 = initrd_load([n \in Nodes |-> NULL])
  BY <1>1, <1>2, <1>3, <1>10, <1>11, <1>12, Zenon DEF initrd_load, tarfs_init, Unlinked
<1>14. PICK nd5 : nd5 = [nd4 EXCEPT !["dev"] = dev, !["zero"] = zero]
  OBVIOUS
<1>15. PICK nd6 : nd6 = namei_add_child(nd5, "root", "dev")
  OBVIOUS
<1>16. PICK nd7 : nd7 = namei_add_child(nd6, "dev", "zero")
  OBVIOUS
<1>17. nd7 = devfs_init(nd4)
  BY <1>4, <1>5, <1>14, <1>15, <1>16, Zenon DEF devfs_init
<1>18. node = nd7
  BY <1>13, <1>17, Zenon DEF Init
<1>19. Archive(nd4, root, bin, sh)
  BY <1>7, <1>10, <1>11, <1>12, BootArchive
<1>20. Booted(nd7, root, bin, sh, dev, zero)
  BY <1>7, <1>14, <1>15, <1>16, <1>19, BootDevices
<1>21. Tree(nd7)
  BY <1>9, <1>20, BootTree
<1>22. ASSUME NEW n \in Nodes, nd7[n] # NULL PROVE nd7[n].active_fds = 0
  <2>1. n \in {"root", "bin", "sh", "dev", "zero"}
    BY <1>20, <1>22 DEF Booted, FixedNodes
  <2>2. /\ nd7["root"].active_fds = 0 /\ nd7["bin"].active_fds = 0 /\ nd7["sh"].active_fds = 0
        /\ nd7["dev"].active_fds = 0 /\ nd7["zero"].active_fds = 0
    BY <1>8, <1>20 DEF Booted, At, Relinked
  <2> QED
    BY <2>1, <2>2
<1> QED
  BY <1>18, <1>21, <1>22

(* The invariant holds at the start. *)
LEMMA InitInv ==
    ASSUME Init
    PROVE  FilesInv
<1>1. /\ fds = [f \in FdPool |-> NULL]
      /\ used_fd = [t \in Tasks |-> [i \in Slots |-> IF t = init /\ i \in 0..1 THEN Defaults[i] ELSE NULL]]
      /\ fd_ctr = [t \in Tasks |-> IF t = init THEN 2 ELSE 0]
      /\ tasks = {init} /\ odd = {} /\ status = "running"
  BY DEF Init
<1>2. init \in Tasks /\ 0 \in Slots /\ 1 \in Slots /\ 0 \in 0..1 /\ 1 \in 0..1
  BY FilesAssumption, Constants DEF Slots
<1>3. \A i \in 0..1 : Defaults[i] \notin FdPool /\ Defaults[i] # NULL
  BY FilesAssumption
<1>4. \A f \in FdPool : fds[f] = NULL
  BY <1>1
<1>5. fds \in [FdPool -> Descriptors \cup {NULL}]
  BY <1>1
<1>6. \A i \in 0..1 : i = 0 \/ i = 1
  OBVIOUS
<1>7. \A t \in Tasks : \A i \in Slots :
        used_fd[t][i] = IF t = init /\ i \in 0..1 THEN Defaults[i] ELSE NULL
  BY <1>1
<1>8. used_fd \in [Tasks -> Rows]
  <2>1. ASSUME NEW t \in Tasks PROVE used_fd[t] \in Rows
    <3>1. used_fd[t] = [i \in Slots |-> IF t = init /\ i \in 0..1 THEN Defaults[i] ELSE NULL]
      BY <1>1
    <3>2. \A i \in Slots : used_fd[t][i] \in FdPool \cup {Defaults[0], Defaults[1], NULL}
      BY <1>6, <1>7
    <3>3. used_fd[t] = [i \in Slots |-> used_fd[t][i]]
      BY <3>1
    <3> QED
      BY <3>2, <3>3 DEF Rows
  <2>2. used_fd = [t \in Tasks |-> used_fd[t]]
    BY <1>1
  <2> QED
    BY <2>1, <2>2
<1>9. fd_ctr \in [Tasks -> 0..(Word - 1)]
  <2>1. 2 \in 0..(Word - 1) /\ 0 \in 0..(Word - 1)
    BY Constants
  <2> QED
    BY <1>1, <2>1
<1>10. Placed(used_fd)
  BY <1>7 DEF Placed
<1>11. Tree(node) /\ \A n \in Nodes : node[n] # NULL => node[n].active_fds = 0
  BY InitNode
<1>12. FilesHeld(node, fds)
  <2>1. \A n \in Nodes : Of(fds, n) = {}
    BY <1>4 DEF Of
  <2>2. Cardinality({}) = 0
    BY FS_EmptySet
  <2> QED
    BY <1>4, <1>11, <2>1, <2>2 DEF FilesHeld
<1>13. Owned(fds, used_fd, tasks)
  <2>1. \A t \in Tasks : \A i \in Slots : used_fd[t][i] \notin FdPool
    BY <1>3, <1>7, Constants
  <2> QED
    BY <1>1, <1>2, <2>1 DEF Owned
<1>14. Tidy(fds, used_fd, fd_ctr, tasks)
  <2>1. Held(fds, used_fd, tasks)
    BY <1>4 DEF Held
  <2>2. used_fd[init][0] = Defaults[0] /\ used_fd[init][1] = Defaults[1]
    BY <1>2, <1>7
  <2>3. Busy(used_fd[init]) = {}
    BY <1>2, <1>6, <1>7, Constants DEF Busy, Slots
  <2>4. Cardinality(Busy(used_fd[init])) = 0
    BY <2>3, FS_EmptySet
  <2>5. fd_ctr[init] = 2
    BY <1>1, <1>2
  <2>6. Settled(used_fd[init], fd_ctr[init], 2)
    BY <2>2, <2>4, <2>5 DEF Settled
  <2> QED
    BY <1>1, <2>1, <2>6 DEF Tidy
<1>15. Core(node, fds, used_fd, fd_ctr, tasks, odd)
  BY <1>1, <1>2, <1>5, <1>8, <1>9, <1>10, <1>11, <1>12, <1>13, <1>14 DEF Core
<1>16. fd_list \in FdLists
  <2>1. PICK empty : empty = [a \in Addresses |-> NULL]
    OBVIOUS
  <2>2. PICK l : l = [first |-> NULL, next |-> empty, prev |-> empty, stray |-> {}]
    OBVIOUS
  <2>3. l \in FdLists
    <3>1. /\ empty \in [Addresses -> Addresses \cup {NULL}]
          /\ empty \in [Addresses -> Addresses \cup {NULL, Elsewhere}]
      BY <2>1
    <3>2. /\ l.first = NULL /\ l.next = empty /\ l.prev = empty /\ l.stray = {}
          /\ IsList(l)
      BY <2>2 DEF IsList
    <3> QED
      BY <3>1, <3>2, ListParts
  <2>4. Defaults[0] \in Addresses /\ Defaults[1] \in Addresses /\ NULL \in Addresses \cup {NULL, Elsewhere}
    BY DEF Addresses
  <2>5. fd_add(l, Defaults[0], NULL, {}) \in FdLists
    BY <2>3, <2>4, AddTyped
  <2>6. fd_list = fd_add(fd_add(l, Defaults[0], NULL, {}), Defaults[1], NULL, {})
    BY <2>1, <2>2 DEF Init
  <2> QED
    BY <2>4, <2>5, <2>6, AddTyped
<1> QED
  BY <1>1, <1>15, <1>16 DEF FilesInv

-----------------------------------------------------------------------------
(* Theorems *)

(* Every step keeps the invariant. *)
LEMMA NextInv ==
    ASSUME FilesInv, [Next]_vars
    PROVE  FilesInv'
<1>1. CASE UNCHANGED vars
  <2>1. /\ node' = node /\ fds' = fds /\ used_fd' = used_fd /\ fd_ctr' = fd_ctr /\ fd_list' = fd_list /\ tasks' = tasks
        /\ odd' = odd /\ status' = status
    BY <1>1 DEF vars
  <2>2. Core(node', fds', used_fd', fd_ctr', tasks', odd')
    BY <2>1 DEF FilesInv
  <2> QED
    BY <2>1, <2>2, StatusKept, InvariantParts
<1>2. CASE Next
  <2>1. PICK t \in tasks :
          \/ \E path \in Paths, mode \in Modes :
                open(t, path, mode) \/ open_creat(t, path, mode)
          \/ \E path \in Paths : mkdir(path) \/ remove(path) \/ rmdir(path)
          \/ \E i \in Slots : close(t, i) \/ readdir(t, i) \/ use_released(t, i)
          \/ \E i \in Slots, size \in Sizes : read(t, i, size) \/ write(t, i, size)
          \/ \E i \in Slots, offset \in Sizes \cup {-k : k \in Sizes}, whence \in {"SEEK_SET", "SEEK_CUR"} :
                lseek(t, i, offset, whence)
          \/ \E c \in Tasks : fork(t, c)
          \/ exit(t)
          \/ execve(t)
    BY <1>2 DEF Next
  <2>2. ASSUME NEW path \in Paths, NEW mode \in Modes, open(t, path, mode) PROVE FilesInv'
    BY <2>2, OpenInv
  <2>3. ASSUME NEW path \in Paths, NEW mode \in Modes, open_creat(t, path, mode) PROVE FilesInv'
    BY <2>3, CreateInv
  <2>4. ASSUME NEW path \in Paths, mkdir(path) PROVE FilesInv'
    BY <2>4, MkdirInv
  <2>5. ASSUME NEW path \in Paths, remove(path) PROVE FilesInv'
    BY <2>5, RemoveInv
  <2>6. ASSUME NEW path \in Paths, rmdir(path) PROVE FilesInv'
    BY <2>6, RmdirInv
  <2>7. ASSUME NEW i \in Slots, close(t, i) PROVE FilesInv'
    BY <2>7, CloseInv
  <2>8. ASSUME NEW i \in Slots, readdir(t, i) PROVE FilesInv'
    BY <2>8, ReaddirInv
  <2>9. ASSUME NEW i \in Slots, use_released(t, i) PROVE FilesInv'
    BY <2>9, UseReleasedInv
  <2>10. ASSUME NEW i \in Slots, NEW size \in Sizes, read(t, i, size) PROVE FilesInv'
    BY <2>10, ReadInv
  <2>11. ASSUME NEW i \in Slots, NEW size \in Sizes, write(t, i, size) PROVE FilesInv'
    BY <2>11, WriteInv
  <2>12. ASSUME NEW i \in Slots, NEW offset \in Sizes \cup {-k : k \in Sizes},
                NEW whence \in {"SEEK_SET", "SEEK_CUR"}, lseek(t, i, offset, whence)
         PROVE  FilesInv'
    <3>1. Sizes \subseteq Nat
      BY FilesAssumption
    <3>2. \A k \in Sizes : k \in Int /\ -k \in Int
      BY <3>1
    <3>3. offset \in Int
      BY <3>2
    <3> QED
      BY <2>12, <3>3, LseekInv
  <2>13. ASSUME NEW c \in Tasks, fork(t, c) PROVE FilesInv'
    BY <2>13, ForkInv
  <2>14. ASSUME exit(t) PROVE FilesInv'
    BY <2>14, ExitInv
  <2>15. ASSUME execve(t) PROVE FilesInv'
    BY <2>15, ExecveInv
  <2> QED
    BY <2>1, <2>2, <2>3, <2>4, <2>5, <2>6, <2>7, <2>8, <2>9, <2>10, <2>11, <2>12, <2>13, <2>14, <2>15, Zenon
<1> QED
  BY <1>1, <1>2

(* The invariant holds of every behaviour of the system calls on files. *)
LEMMA FilesInductive == Spec => []FilesInv
<1>1. Init => FilesInv
  BY InitInv
<1>2. FilesInv /\ [Next]_vars => FilesInv'
  BY NextInv
<1> QED
  BY <1>1, <1>2, PTL DEF Spec

(* It is a type invariant. *)
LEMMA FilesTyped ==
    ASSUME FilesInv
    PROVE  TypeOK
<1>1. /\ Core(node, fds, used_fd, fd_ctr, tasks, odd)
      /\ fd_list \in FdLists
      /\ status \in {"running", "crash", "overwritten", "hang"}
  BY DEF FilesInv
<1>2. NodesTyped(node)
  BY <1>1 DEF Core, Tree
<1>3. FixedNodes \subseteq alive /\ node \in [Nodes -> Vnodes \cup {NULL}]
  BY <1>2, Constants DEF NodesTyped, alive
<1>4. used_fd \in [Tasks -> [Slots -> FdPool \cup {Defaults[0], Defaults[1], NULL}]]
  BY <1>1 DEF Core, Rows
<1>5. /\ fds \in [FdPool -> Descriptors \cup {NULL}] /\ fd_ctr \in [Tasks -> 0..(Word - 1)]
      /\ init \in tasks /\ tasks \subseteq Tasks
  BY <1>1 DEF Core
<1> HIDE DEF Core
<1> QED
  BY <1>1, <1>3, <1>4, <1>5 DEF TypeOK

(* The invariant says that descriptors in use are live. *)
LEMMA HasLiveDescriptors ==
    ASSUME FilesInv
    PROVE  DescriptorsLive
<1>1. SUFFICES ASSUME odd \cap {"shared", "open directory removed", "root removed"} = {}
               PROVE  /\ status # "crash"
                      /\ \A t \in tasks : \A i \in OpenFiles(t) :
                            /\ used_fd[t][i] \in open_fds
                            /\ fds[used_fd[t][i]].node \in alive
                            /\ \A u \in tasks : \A j \in OpenFiles(u) :
                                  used_fd[t][i] = used_fd[u][j] => t = u /\ i = j
  BY DEF DescriptorsLive
<1>2. Calm /\ "root removed" \notin odd
  BY <1>1 DEF Calm, CalmIn
<1>3. status # "crash"
  BY <1>2 DEF FilesInv
<1>4. Owned(fds, used_fd, tasks) /\ fds \in [FdPool -> Descriptors \cup {NULL}]
  BY <1>2 DEF FilesInv, Core, Calm
<1>5. ASSUME NEW t \in tasks, NEW i \in OpenFiles(t)
      PROVE  /\ used_fd[t][i] \in open_fds
             /\ fds[used_fd[t][i]].node \in alive
             /\ \A u \in tasks : \A j \in OpenFiles(u) : used_fd[t][i] = used_fd[u][j] => t = u /\ i = j
  <2>1. i \in Slots /\ File(t, i)
    BY DEF OpenFiles
  <2>2. PICK f : f = used_fd[t][i]
    OBVIOUS
  <2>3. f \in FdPool /\ fds[f] # NULL /\ node[fds[f].node] # NULL
    BY <1>2, <2>1, <2>2, HeldIs
  <2>4. fds[f].node \in Nodes
    BY <1>4, <2>3 DEF Descriptors
  <2>5. \A u \in tasks : \A j \in Slots : used_fd[t][i] = used_fd[u][j] => t = u /\ i = j
    BY <1>4, <2>1, <2>2, <2>3 DEF Owned
  <2>6. f \in open_fds /\ fds[f].node \in alive
    BY <2>3, <2>4 DEF open_fds, alive
  <2> QED
    BY <2>2, <2>5, <2>6 DEF OpenFiles
<1> QED
  BY <1>3, <1>5

(* A settled task counts what it uses. *)
LEMMA CountsUsed ==
    ASSUME NEW t, Settled(used_fd[t], fd_ctr[t], 2)
    PROVE  fd_ctr[t] = Cardinality(Used(t))
<1>1. PICK row : row = used_fd[t]
  OBVIOUS
<1>2. row[0] = Defaults[0] /\ row[1] = Defaults[1] /\ fd_ctr[t] = Cardinality(Busy(row)) + 2
  BY <1>1 DEF Settled
<1>3. Defaults[0] # NULL /\ Defaults[1] # NULL
  BY FilesAssumption
<1>4. IsFiniteSet(Busy(row)) /\ Cardinality(Busy(row)) \in Nat
  BY BusyFinite
<1>5. Used(t) = (Busy(row) \cup {0}) \cup {1}
  <2>1. \A i \in Slots : i = 0 \/ i = 1 \/ i >= 2
    BY Constants DEF Slots
  <2>2. 0 \in Slots /\ 1 \in Slots
    BY Constants DEF Slots
  <2>3. \A i : i \in Used(t) <=> i \in Slots /\ row[i] # NULL
    BY <1>1 DEF Used
  <2>4. \A i : i \in Busy(row) <=> i \in Slots /\ i >= 2 /\ row[i] # NULL
    BY DEF Busy
  <2> QED
    BY <1>2, <1>3, <2>1, <2>2, <2>3, <2>4
<1>6. 0 \notin Busy(row) /\ 1 \notin Busy(row) \cup {0}
  BY DEF Busy
<1>7. IsFiniteSet(Busy(row) \cup {0}) /\ Cardinality(Busy(row) \cup {0}) = Cardinality(Busy(row)) + 1
  BY <1>4, <1>6, FS_AddElement
<1>8. Cardinality((Busy(row) \cup {0}) \cup {1}) = Cardinality(Busy(row) \cup {0}) + 1
  BY <1>6, <1>7, FS_AddElement
<1> QED
  BY <1>2, <1>4, <1>5, <1>7, <1>8

(* It says that nothing is lost. *)
LEMMA LosesNothing ==
    ASSUME FilesInv
    PROVE  NothingLost
<1>1. SUFFICES ASSUME odd \cap {"shared", "open directory removed", "default closed", "table full"} = {}
               PROVE  /\ \A f \in open_fds : \E t \in tasks : \E i \in Slots : used_fd[t][i] = f
                      /\ \A n \in alive : node[n].active_fds = Cardinality({f \in open_fds : fds[f].node = n})
                      /\ \A t \in tasks : fd_ctr[t] = Cardinality(Used(t))
  BY DEF NothingLost
<1>2. Calm /\ Orderly
  BY <1>1 DEF Calm, CalmIn, Orderly, OrderlyIn
<1>3. FilesHeld(node, fds) /\ Tidy(fds, used_fd, fd_ctr, tasks)
  BY <1>2 DEF FilesInv, Core, Calm, Orderly
<1>4. \A f \in open_fds : \E t \in tasks : \E i \in Slots : used_fd[t][i] = f
  BY <1>3 DEF Tidy, Held, open_fds
<1>5. ASSUME NEW n \in alive PROVE node[n].active_fds = Cardinality({f \in open_fds : fds[f].node = n})
  <2>1. {f \in open_fds : fds[f].node = n} = Of(fds, n)
    BY DEF open_fds, Of
  <2> QED
    BY <1>3, <2>1 DEF FilesHeld, alive
<1>6. \A t \in tasks : fd_ctr[t] = Cardinality(Used(t))
  BY <1>3, CountsUsed DEF Tidy
<1> QED
  BY <1>4, <1>5, <1>6

(* It says that positions lie inside of files. *)
LEMMA StaysInFile ==
    ASSUME FilesInv
    PROVE  PositionInFile
<1>1. Calm => FilesHeld(node, fds)
  BY DEF FilesInv, Core, Calm
<1>2. odd \cap {"shared", "open directory removed"} = {} => FilesHeld(node, fds)
  BY <1>1 DEF Calm, CalmIn
<1> QED
  BY <1>2 DEF FilesHeld, PositionInFile, open_fds

(* namei_add_child and namei_remove_child keep the links between siblings, their
   parents and the ends of the lists in agreement, names stay unique in a
   directory, and the vnodes of the boot stay: for any paths and any number of
   vnodes. *)
THEOREM TreeSafe == Spec => []TreeLinks
<1>1. FilesInv => TreeLinks
  BY FilesTyped, TreeHasLinks DEF FilesInv, Core
<1> QED
  BY <1>1, FilesInductive, PTL

(* Unless a program forks with files open or removes an open directory or the
   root: do_close, do_exit and do_execve of one task never release a descriptor
   that another one holds, do_remove no file that is open, and no system call uses
   memory that was released. *)
THEOREM DescriptorsSafe == Spec => []DescriptorsLive
<1>1. FilesInv => DescriptorsLive
  BY HasLiveDescriptors
<1> QED
  BY <1>1, FilesInductive, PTL

(* If besides no default descriptor is closed and no table is full, every
   descriptor has its owner, and the counters of files and of tasks are exact
   after any sequence of open, close, fork, execve and exit. *)
THEOREM NothingLostSafe == Spec => []NothingLost
<1>1. FilesInv => NothingLost
  BY LosesNothing
<1> QED
  BY <1>1, FilesInductive, PTL

(* Unless a program forks with files open or removes an open directory, the
   unsigned differences in the loops of ramfs_read and ramfs_write never wrap:
   read, write and lseek leave every position inside its file. *)
THEOREM PositionSafe == Spec => []PositionInFile
<1>1. FilesInv => PositionInFile
  BY StaysInFile
<1> QED
  BY <1>1, FilesInductive, PTL
=============================================================================
