--------------------------- MODULE SequenceLemmas ---------------------------
(***************************************************************************)
(* Facts about numbers, sequences, doubly linked lists and recursive       *)
(* functions that the proofs of several components rest on.                *)
(***************************************************************************)
EXTENDS Integers, Sequences, FiniteSets, SequenceTheorems, FiniteSetTheorems,
        WellFoundedInduction, TLAPS

(* A non-empty set of naturals has a least element. *)
LEMMA LeastNat ==
    ASSUME NEW T \in SUBSET Nat, T # {}
    PROVE  \E x \in T : \A y \in T : x <= y
<1> DEFINE R == OpToRel(<, Nat)
<1>1. IsWellFoundedOn(R, Nat)
  BY NatLessThanWellFounded
<1>2. \A x, y \in Nat : x < y => <<x, y>> \in R
  BY DEF OpToRel
<1> HIDE DEF R
<1>3. PICK x \in T : \A y \in T : ~ (<<y, x>> \in R)
  BY <1>1, WFMin, Zenon
<1>4. ASSUME NEW y \in T PROVE x <= y
  <2>1. x \in Nat /\ y \in Nat
    OBVIOUS
  <2>2. ~ (y < x)
    BY <1>2, <1>3, <2>1
  <2> QED
    BY <2>1, <2>2
<1> QED
  BY <1>4

(* RemoveAt, as SequencesExt defines it for TaskQueue. *)
Without(s, k) == SubSeq(s, 1, k - 1) \o SubSeq(s, k + 1, Len(s))

(* What it returns. *)
LEMMA WithoutFacts ==
    ASSUME NEW E, NEW s \in Seq(E), NEW k \in 1..Len(s)
    PROVE  /\ Without(s, k) \in Seq(E)
           /\ Len(Without(s, k)) = Len(s) - 1
           /\ \A j \in 1..(Len(s) - 1) : Without(s, k)[j] = IF j < k THEN s[j] ELSE s[j + 1]
<1> DEFINE a == SubSeq(s, 1, k - 1)
           b == SubSeq(s, k + 1, Len(s))
<1>1. a \in Seq(E) /\ Len(a) = k - 1 /\ \A j \in 1..(k - 1) : a[j] = s[j]
  BY SubSeqProperties
<1>2. b \in Seq(E) /\ Len(b) = Len(s) - k /\ \A j \in 1..(Len(s) - k) : b[j] = s[k + j]
  BY SubSeqProperties
<1> HIDE DEF a, b
<1>3. /\ a \o b \in Seq(E)
      /\ Len(a \o b) = Len(s) - 1
      /\ \A j \in 1..(Len(s) - 1) : (a \o b)[j] = IF j < k THEN s[j] ELSE s[j + 1]
  <2>1. /\ a \o b \in Seq(E)
        /\ Len(a \o b) = Len(a) + Len(b)
        /\ \A j \in 1..(Len(a) + Len(b)) : (a \o b)[j] = IF j <= Len(a) THEN a[j] ELSE b[j - Len(a)]
    BY <1>1, <1>2, ConcatProperties, Zenon
  <2>2. Len(s) \in Nat
    OBVIOUS
  <2>3. ASSUME NEW j \in 1..(Len(s) - 1)
        PROVE  (a \o b)[j] = IF j < k THEN s[j] ELSE s[j + 1]
    <3>1. CASE j < k
      BY <1>1, <1>2, <2>1, <2>2, <3>1
    <3>2. CASE ~(j < k)
      <4>1. j - (k - 1) \in 1..(Len(s) - k) /\ k + (j - (k - 1)) = j + 1
        BY <2>2, <3>2
      <4>2. b[j - (k - 1)] = s[j + 1]
        BY <1>2, <4>1
      <4> QED
        BY <1>1, <1>2, <2>1, <2>2, <3>2, <4>2
    <3> QED
      BY <3>1, <3>2
  <2> QED
    BY <1>1, <1>2, <2>1, <2>2, <2>3
<1> QED
  BY <1>3 DEF a, b, Without

(* InsertAt, as SequencesExt defines it for Heap. *)
With(s, k, e) == SubSeq(s, 1, k - 1) \o <<e>> \o SubSeq(s, k, Len(s))

(* What it returns. *)
LEMMA WithFacts ==
    ASSUME NEW E, NEW s \in Seq(E), NEW k \in 1..(Len(s) + 1), NEW e \in E
    PROVE  /\ With(s, k, e) \in Seq(E)
           /\ Len(With(s, k, e)) = Len(s) + 1
           /\ \A j \in 1..(Len(s) + 1) :
                With(s, k, e)[j] = IF j < k THEN s[j] ELSE IF j = k THEN e ELSE s[j - 1]
<1> DEFINE a == SubSeq(s, 1, k - 1)
           b == SubSeq(s, k, Len(s))
           m == a \o <<e>>
<1>0. Len(s) \in Nat
  OBVIOUS
<1>1. a \in Seq(E) /\ Len(a) = k - 1 /\ \A j \in 1..(k - 1) : a[j] = s[j]
  BY SubSeqProperties
<1>2. /\ b \in Seq(E) /\ Len(b) = (Len(s) - k) + 1
      /\ \A j \in 1..((Len(s) - k) + 1) : b[j] = s[(k + j) - 1]
  BY SubSeqProperties
<1> HIDE DEF a, b
<1>3. /\ m \in Seq(E) /\ Len(m) = k
      /\ \A j \in 1..(k - 1) : m[j] = s[j]
      /\ m[k] = e
  <2>1. <<e>> \in Seq(E) /\ Len(<<e>>) = 1 /\ <<e>>[1] = e
    OBVIOUS
  <2>2. /\ m \in Seq(E)
        /\ Len(m) = Len(a) + Len(<<e>>)
        /\ \A j \in 1..(Len(a) + Len(<<e>>)) :
              m[j] = IF j <= Len(a) THEN a[j] ELSE <<e>>[j - Len(a)]
    BY <1>1, <2>1, ConcatProperties, Zenon
  <2> QED
    BY <1>1, <2>1, <2>2
<1> HIDE DEF m
<1>4. /\ m \o b \in Seq(E)
      /\ Len(m \o b) = Len(m) + Len(b)
      /\ \A j \in 1..(Len(m) + Len(b)) : (m \o b)[j] = IF j <= Len(m) THEN m[j] ELSE b[j - Len(m)]
  BY <1>2, <1>3, ConcatProperties, Zenon
<1>5. ASSUME NEW j \in 1..(Len(s) + 1)
      PROVE  (m \o b)[j] = IF j < k THEN s[j] ELSE IF j = k THEN e ELSE s[j - 1]
  <2>1. (m \o b)[j] = IF j <= k THEN m[j] ELSE b[j - k]
    <3>1. Len(m) = k /\ Len(b) = (Len(s) - k) + 1
      BY <1>2, <1>3
    <3>2. j \in 1..(Len(m) + Len(b))
      BY <1>0, <3>1
    <3>3. (m \o b)[j] = IF j <= Len(m) THEN m[j] ELSE b[j - Len(m)]
      BY <1>4, <3>2, Zenon
    <3> QED
      BY <3>1, <3>3, Zenon
  <2>2. CASE j <= k
    BY <1>3, <2>1, <2>2
  <2>3. CASE j > k
    <3>1. j - k \in 1..((Len(s) - k) + 1) /\ (k + (j - k)) - 1 = j - 1
      BY <1>0, <2>3
    <3>2. b[j - k] = s[j - 1]
      BY <1>2, <3>1
    <3> QED
      BY <2>1, <2>3, <3>2
  <2>4. j <= k \/ j > k
    BY <1>0
  <2> QED
    BY <2>2, <2>3, <2>4
<1>6. Len(m \o b) = Len(s) + 1
  BY <1>0, <1>2, <1>3, <1>4
<1> QED
  BY <1>4, <1>5, <1>6 DEF a, b, m, With

-----------------------------------------------------------------------------
(* Linked lists as sequences *)

(* c elements along the links nxt, from f. *)
Along(c, f, nxt) ==
    LET at[n \in 1..c] == IF n = 1 THEN f ELSE nxt[at[n - 1]]
    IN  [n \in 1..c |-> at[n]]

(* That is the sequence s when s has length c, begins with f and has the link of
   each element behind it. *)
LEMMA WalkYields ==
    ASSUME NEW E, NEW s \in Seq(E), NEW c, c = Len(s), NEW f, NEW nxt,
           Len(s) > 0 => s[1] = f,
           \A n \in 1..Len(s) : n # 1 => s[n] = nxt[s[n - 1]]
    PROVE  Along(c, f, nxt) = s
<1> DEFINE at[n \in 1..c] == IF n = 1 THEN f ELSE nxt[at[n - 1]]
<1>1. s = [n \in 1..c |-> IF n = 1 THEN f ELSE nxt[s[n - 1]]]
  OBVIOUS
<1>2. at = [n \in 1..c |-> IF n = 1 THEN f ELSE nxt[at[n - 1]]]
  BY <1>1, Zenon
<1> HIDE DEF at
<1> DEFINE Bad == {n \in 1..c : at[n] # s[n]}
<1>3. Bad = {}
  <2> SUFFICES ASSUME Bad # {} PROVE FALSE
    OBVIOUS
  <2>1. Bad \in SUBSET Nat
    OBVIOUS
  <2> HIDE DEF Bad
  <2>2. PICK n \in Bad : \A m \in Bad : n <= m
    BY <2>1, LeastNat
  <2>3. n \in 1..c /\ at[n] # s[n]
    BY DEF Bad
  <2>4. CASE n = 1
    BY <1>2, <2>3, <2>4
  <2>5. CASE n # 1
    <3>1. n - 1 \in 1..c
      BY <2>3, <2>5
    <3>2. at[n - 1] = s[n - 1]
      BY <2>2, <2>3, <3>1 DEF Bad
    <3> QED
      BY <1>2, <2>3, <2>5, <3>2
  <2> QED
    BY <2>4, <2>5
<1>4. [n \in 1..c |-> at[n]] = s
  BY <1>3
<1> QED
  BY <1>4, Zenon DEF at, Along

-----------------------------------------------------------------------------
(* Doubly linked lists *)

(* q gives for every head of H the elements of E in its list: what fst, lst,
   nxt and prv link together, and what own, the head an element belongs to,
   says.  An element of no list may keep any links, and lst of an empty list may
   be anything. *)
Lists(null, H, E, q, fst, lst, nxt, prv, own) ==
    /\ q \in [H -> Seq(E)]
    /\ fst \in [H -> E \cup {null}] /\ lst \in [H -> E \cup {null}]
    /\ nxt \in [E -> E \cup {null}] /\ prv \in [E -> E \cup {null}]
    /\ own \in [E -> H \cup {null}]
    /\ \A i \in H :
        /\ Len(q[i]) = 0 => fst[i] = null
        /\ Len(q[i]) > 0 => fst[i] = q[i][1] /\ lst[i] = q[i][Len(q[i])]
    /\ \A i \in H : \A k \in 1..Len(q[i]) :
        /\ own[q[i][k]] = i
        /\ nxt[q[i][k]] = IF k = Len(q[i]) THEN null ELSE q[i][k + 1]
        /\ prv[q[i][k]] = IF k = 1 THEN null ELSE q[i][k - 1]
        /\ \A j \in 1..Len(q[i]) : q[i][j] = q[i][k] => j = k
    /\ \A t \in E : own[t] # null => \E k \in 1..Len(q[own[t]]) : q[own[t]][k] = t

(* Element t, which is in no list, is linked behind the last one of list i. *)
Links(null, H, E, i, t, fst, lst, nxt, prv, fst2, lst2, nxt2, prv2) ==
    /\ fst2 \in [H -> E \cup {null}] /\ lst2 \in [H -> E \cup {null}]
    /\ nxt2 \in [E -> E \cup {null}] /\ prv2 \in [E -> E \cup {null}]
    /\ \A j \in H : j # i => fst2[j] = fst[j] /\ lst2[j] = lst[j]
    /\ fst2[i] = (IF fst[i] = null THEN t ELSE fst[i]) /\ lst2[i] = t
    /\ nxt2[t] = null /\ prv2[t] = IF fst[i] = null THEN null ELSE lst[i]
    /\ \A u \in E : u # t => /\ prv2[u] = prv[u]
                             /\ nxt2[u] = IF fst[i] # null /\ u = lst[i] THEN t ELSE nxt[u]

(* That appends it. *)
LEMMA LinkTail ==
    ASSUME NEW null, NEW H, NEW E, null \notin E, null \notin H,
           NEW q, NEW fst, NEW lst, NEW nxt, NEW prv, NEW own,
           Lists(null, H, E, q, fst, lst, nxt, prv, own),
           NEW i \in H, NEW t \in E, own[t] = null,
           NEW fst2, NEW lst2, NEW nxt2, NEW prv2,
           Links(null, H, E, i, t, fst, lst, nxt, prv, fst2, lst2, nxt2, prv2)
    PROVE  Lists(null, H, E, [q EXCEPT ![i] = Append(@, t)],
                 fst2, lst2, nxt2, prv2, [own EXCEPT ![t] = i])
<1> DEFINE q2 == [q EXCEPT ![i] = Append(@, t)]
           own2 == [own EXCEPT ![t] = i]
           n == Len(q[i])
<1>1. /\ q \in [H -> Seq(E)]
      /\ fst \in [H -> E \cup {null}] /\ lst \in [H -> E \cup {null}]
      /\ nxt \in [E -> E \cup {null}] /\ prv \in [E -> E \cup {null}]
      /\ own \in [E -> H \cup {null}]
  BY DEF Lists
<1>2. n \in Nat /\ q[i] \in Seq(E)
  BY <1>1
<1>3. /\ q2 \in [H -> Seq(E)]
      /\ Len(q2[i]) = n + 1
      /\ \A k \in 1..n : q2[i][k] = q[i][k]
      /\ q2[i][n + 1] = t
      /\ \A j \in H : j # i => q2[j] = q[j]
  BY <1>1, <1>2, AppendProperties
<1>4. /\ n = 0 => fst[i] = null
      /\ n > 0 => fst[i] = q[i][1] /\ lst[i] = q[i][n] /\ fst[i] # null
  BY <1>2 DEF Lists
<1>5. \A j \in H : \A k \in 1..Len(q[j]) : q[j][k] \in E /\ q[j][k] # t
  BY <1>1 DEF Lists
<1>6. \A u \in E :
        /\ u # t => prv2[u] = prv[u]
        /\ u # t /\ (n > 0 => u # q[i][n]) => nxt2[u] = nxt[u]
  BY <1>1, <1>2, <1>4 DEF Links
<1>7. nxt2[t] = null /\ (n = 0 => prv2[t] = null) /\ (n > 0 => prv2[t] = q[i][n] /\ nxt2[q[i][n]] = t)
  <2>1. n > 0 => q[i][n] \in E /\ q[i][n] # t
    BY <1>2, <1>5
  <2> QED
    BY <1>1, <1>2, <1>4, <2>1 DEF Links
<1>8. /\ fst2 \in [H -> E \cup {null}] /\ lst2 \in [H -> E \cup {null}]
      /\ nxt2 \in [E -> E \cup {null}] /\ prv2 \in [E -> E \cup {null}]
      /\ own2 \in [E -> H \cup {null}]
  BY <1>1 DEF Links
<1>9. /\ fst2[i] = q2[i][1] /\ lst2[i] = q2[i][n + 1]
      /\ \A j \in H : j # i => fst2[j] = fst[j] /\ lst2[j] = lst[j]
  BY <1>1, <1>2, <1>3, <1>4 DEF Links
<1>10. own2[t] = i /\ \A u \in E : u # t => own2[u] = own[u]
  BY <1>1
<1> HIDE DEF q2, own2
<1>11. \A j \in H :
        /\ Len(q2[j]) = 0 => fst2[j] = null
        /\ Len(q2[j]) > 0 => fst2[j] = q2[j][1] /\ lst2[j] = q2[j][Len(q2[j])]
  BY <1>2, <1>3, <1>9 DEF Lists
<1>12. ASSUME NEW j \in H, NEW k \in 1..Len(q2[j])
       PROVE  /\ own2[q2[j][k]] = j
              /\ nxt2[q2[j][k]] = IF k = Len(q2[j]) THEN null ELSE q2[j][k + 1]
              /\ prv2[q2[j][k]] = IF k = 1 THEN null ELSE q2[j][k - 1]
              /\ \A m \in 1..Len(q2[j]) : q2[j][m] = q2[j][k] => m = k
  <2>1. \A a \in H : \A b \in 1..Len(q[a]) :
        /\ own[q[a][b]] = a
        /\ nxt[q[a][b]] = IF b = Len(q[a]) THEN null ELSE q[a][b + 1]
        /\ prv[q[a][b]] = IF b = 1 THEN null ELSE q[a][b - 1]
        /\ \A c \in 1..Len(q[a]) : q[a][c] = q[a][b] => c = b
    BY DEF Lists
  <2>2. CASE j # i
    <3>1. q2[j] = q[j] /\ q[j][k] \in E /\ q[j][k] # t
      BY <1>3, <1>5, <2>2
    <3>2. n > 0 => q[j][k] # q[i][n]
      <4> SUFFICES ASSUME n > 0, q[j][k] = q[i][n] PROVE FALSE
        OBVIOUS
      <4>1. n \in 1..n
        BY <1>2
      <4> QED
        BY <2>1, <2>2, <3>1, <4>1, SMTT(30)
    <3>3. /\ nxt2[q[j][k]] = nxt[q[j][k]] /\ prv2[q[j][k]] = prv[q[j][k]]
          /\ own2[q[j][k]] = own[q[j][k]]
      BY <1>6, <1>10, <3>1, <3>2
    <3>4. k \in 1..Len(q[j])
      BY <3>1
    <3> QED
      BY <2>1, <3>1, <3>3, <3>4
  <2>3. CASE j = i /\ k = n + 1
    <3>1. q2[j][k] = t /\ Len(q2[j]) = n + 1 /\ own2[t] = i /\ nxt2[t] = null
      BY <1>3, <1>7, <1>10, <2>3
    <3>2. prv2[t] = IF k = 1 THEN null ELSE q2[j][k - 1]
      <4>1. CASE n = 0
        BY <1>7, <2>3, <4>1
      <4>2. CASE n # 0
        <5>1. n \in 1..n /\ k # 1 /\ k - 1 = n
          BY <1>2, <2>3, <4>2
        <5> QED
          BY <1>2, <1>3, <1>7, <2>3, <4>2, <5>1
      <4> QED
        BY <4>1, <4>2
    <3>3. ASSUME NEW m \in 1..Len(q2[j]), q2[j][m] = q2[j][k] PROVE m = k
      <4> SUFFICES ASSUME m # k PROVE FALSE
        OBVIOUS
      <4>1. m \in 1..n
        BY <1>2, <2>3, <3>1
      <4>2. q2[i][m] = q[i][m] /\ q[i][m] # t
        BY <1>3, <1>5, <4>1
      <4> QED
        BY <2>3, <3>1, <3>3, <4>2
    <3> QED
      BY <2>3, <3>1, <3>2, <3>3
  <2>4. CASE j = i /\ k # n + 1
    <3>1. k \in 1..n /\ q2[i][k] = q[i][k] /\ q[i][k] \in E /\ q[i][k] # t
      BY <1>2, <1>3, <1>5, <2>4
    <3>2. own2[q2[i][k]] = i /\ prv2[q2[i][k]] = IF k = 1 THEN null ELSE q2[i][k - 1]
      <4>1. k # 1 => k - 1 \in 1..n
        BY <1>2, <3>1
      <4>2. own2[q[i][k]] = own[q[i][k]] /\ prv2[q[i][k]] = prv[q[i][k]]
        BY <1>6, <1>10, <3>1
      <4>3. own[q[i][k]] = i /\ prv[q[i][k]] = IF k = 1 THEN null ELSE q[i][k - 1]
        BY <2>1, <3>1
      <4>4. k # 1 => q2[i][k - 1] = q[i][k - 1]
        BY <1>3, <4>1
      <4> QED
        BY <3>1, <4>2, <4>3, <4>4
    <3>3. nxt2[q2[i][k]] = q2[i][k + 1]
      <4>1. CASE k = n
        BY <1>2, <1>3, <1>7, <3>1, <4>1
      <4>2. CASE k # n
        <5>1. n \in 1..n /\ k + 1 \in 1..n
          BY <1>2, <3>1, <4>2
        <5>2. q[i][k] # q[i][n] /\ nxt[q[i][k]] = q[i][k + 1]
          <6>1. q[i][n] = q[i][k] => n = k
            BY <2>1, <3>1, <5>1, Zenon
          <6>2. nxt[q[i][k]] = IF k = n THEN null ELSE q[i][k + 1]
            BY <2>1, <3>1, Zenon
          <6> QED
            BY <4>2, <6>1, <6>2, Zenon
        <5>3. nxt2[q[i][k]] = nxt[q[i][k]]
          BY <1>6, <3>1, <5>2
        <5>4. q2[i][k + 1] = q[i][k + 1]
          BY <1>3, <5>1
        <5> QED
          BY <3>1, <5>2, <5>3, <5>4
      <4> QED
        BY <4>1, <4>2
    <3>4. ASSUME NEW m \in 1..Len(q2[i]), q2[i][m] = q2[i][k] PROVE m = k
      <4>1. m # n + 1
        BY <1>3, <3>1, <3>4
      <4>2. m \in 1..n
        BY <1>2, <1>3, <4>1
      <4> QED
        BY <1>3, <2>1, <3>1, <3>4, <4>2, SMTT(30)
    <3> QED
      BY <1>3, <2>4, <3>2, <3>3, <3>4
  <2> QED
    BY <2>2, <2>3, <2>4
<1>13. ASSUME NEW u \in E, own2[u] # null
       PROVE  \E k \in 1..Len(q2[own2[u]]) : q2[own2[u]][k] = u
  <2>1. CASE u = t
    BY <1>2, <1>3, <1>10, <2>1
  <2>2. CASE u # t
    <3>1. PICK k \in 1..Len(q[own[u]]) : q[own[u]][k] = u
      BY <1>10, <1>13, <2>2 DEF Lists
    <3>2. own2[u] = own[u] /\ own[u] \in H
      BY <1>1, <1>10, <1>13, <2>2
    <3>3. CASE own[u] = i
      BY <1>2, <1>3, <3>1, <3>2, <3>3
    <3>4. CASE own[u] # i
      BY <1>3, <3>1, <3>2, <3>4
    <3> QED
      BY <3>3, <3>4
  <2> QED
    BY <2>1, <2>2
<1>14. Lists(null, H, E, q2, fst2, lst2, nxt2, prv2, own2)
  BY <1>3, <1>8, <1>11, <1>12, <1>13 DEF Lists
<1> QED
  BY <1>14 DEF q2, own2

(* Element t of list i leaves it: its neighbours are linked to each other, and
   what happens to its own links does not matter. *)
Unlinks(null, H, E, i, t, fst, lst, nxt, prv, fst2, lst2, nxt2, prv2) ==
    /\ fst2 \in [H -> E \cup {null}] /\ lst2 \in [H -> E \cup {null}]
    /\ nxt2 \in [E -> E \cup {null}] /\ prv2 \in [E -> E \cup {null}]
    /\ \A j \in H : j # i => fst2[j] = fst[j] /\ lst2[j] = lst[j]
    /\ fst2[i] = IF prv[t] = null THEN nxt[t] ELSE fst[i]
    /\ nxt[t] # null => lst2[i] = lst[i]
    /\ nxt[t] = null /\ prv[t] # null => lst2[i] = prv[t]
    /\ \A u \in E : u # t => nxt2[u] = IF u = prv[t] THEN nxt[t] ELSE nxt[u]
    /\ \A u \in E : u # t => prv2[u] = IF u = nxt[t] THEN prv[t] ELSE prv[u]

(* Unlinking a node takes it out of its sequence and leaves the others. *)
LEMMA Unlink ==
    ASSUME NEW null, NEW H, NEW E, null \notin E, null \notin H,
           NEW q, NEW fst, NEW lst, NEW nxt, NEW prv, NEW own,
           Lists(null, H, E, q, fst, lst, nxt, prv, own),
           NEW i \in H, NEW k \in 1..Len(q[i]), NEW t, t = q[i][k],
           NEW fst2, NEW lst2, NEW nxt2, NEW prv2,
           Unlinks(null, H, E, i, t, fst, lst, nxt, prv, fst2, lst2, nxt2, prv2)
    PROVE  Lists(null, H, E, [q EXCEPT ![i] = Without(@, k)],
                 fst2, lst2, nxt2, prv2, [own EXCEPT ![t] = null])
<1> DEFINE s == q[i]
           n == Len(s)
           r == Without(s, k)
           q2 == [q EXCEPT ![i] = r]
           own2 == [own EXCEPT ![t] = null]
           pos(j) == IF j < k THEN j ELSE j + 1
<1> USE DEF Unlinks
<1>1. /\ q \in [H -> Seq(E)]
      /\ own \in [E -> H \cup {null}]
  BY DEF Lists
<1>2. n \in Nat /\ s \in Seq(E) /\ k \in 1..n /\ t \in E
  BY <1>1
<1>3. \A a \in H : \A b \in 1..Len(q[a]) :
        /\ own[q[a][b]] = a
        /\ nxt[q[a][b]] = IF b = Len(q[a]) THEN null ELSE q[a][b + 1]
        /\ prv[q[a][b]] = IF b = 1 THEN null ELSE q[a][b - 1]
        /\ \A c \in 1..Len(q[a]) : q[a][c] = q[a][b] => c = b
  BY DEF Lists
<1>4. /\ r \in Seq(E) /\ Len(r) = n - 1
      /\ \A j \in 1..(n - 1) : r[j] = s[pos(j)]
  <2> HIDE DEF s
  <2>1. /\ r \in Seq(E) /\ Len(r) = n - 1
        /\ \A j \in 1..(n - 1) : r[j] = IF j < k THEN s[j] ELSE s[j + 1]
    BY <1>2, WithoutFacts
  <2> HIDE DEF r, n
  <2> QED
    BY <2>1
<1>5. \A j \in 1..(n - 1) : pos(j) \in 1..n /\ pos(j) # k
  BY <1>2
<1>6. /\ q2 \in [H -> Seq(E)] /\ q2[i] = r
      /\ \A j \in H : j # i => q2[j] = q[j]
  BY <1>1, <1>4
<1>7. own2 \in [E -> H \cup {null}] /\ own2[t] = null /\ \A u \in E : u # t => own2[u] = own[u]
  BY <1>1, <1>2
<1>8. \A b \in 1..n :
        /\ s[b] \in E /\ own[s[b]] = i /\ s[b] # null
        /\ nxt[s[b]] = IF b = n THEN null ELSE s[b + 1]
        /\ prv[s[b]] = IF b = 1 THEN null ELSE s[b - 1]
        /\ \A c \in 1..n : s[c] = s[b] => c = b
  <2>1. \A b \in 1..n :
          /\ own[s[b]] = i
          /\ nxt[s[b]] = IF b = n THEN null ELSE s[b + 1]
          /\ prv[s[b]] = IF b = 1 THEN null ELSE s[b - 1]
          /\ \A c \in 1..n : s[c] = s[b] => c = b
    BY <1>3
  <2>0. n = Len(s)
    OBVIOUS
  <2> HIDE DEF s, n
  <2>2. \A b \in 1..n : s[b] \in E /\ s[b] # null
    BY <1>2, <2>0
  <2> QED
    BY <2>1, <2>2
<1>9. fst[i] = s[1] /\ lst[i] = s[n]
  BY <1>2 DEF Lists
<1> HIDE DEF s, n, r, q2, own2
<1>10. t = s[k]
  BY DEF s
<1>11. /\ nxt[t] = IF k = n THEN null ELSE s[k + 1]
       /\ prv[t] = IF k = 1 THEN null ELSE s[k - 1]
  BY <1>2, <1>8, <1>10
<1>12. ASSUME NEW j \in H
       PROVE  /\ Len(q2[j]) = 0 => fst2[j] = null
              /\ Len(q2[j]) > 0 => fst2[j] = q2[j][1] /\ lst2[j] = q2[j][Len(q2[j])]
  <2>1. CASE j # i
    BY <1>6, <2>1 DEF Lists
  <2>2. CASE j = i /\ n = 1
    BY <1>2, <1>4, <1>6, <1>11, <2>2
  <2>3. CASE j = i /\ n # 1
    <3>1. n - 1 \in Nat /\ n - 1 > 0 /\ 1 \in 1..(n - 1) /\ n - 1 \in 1..(n - 1)
      BY <1>2, <2>3
    <3>2. r[1] = s[pos(1)] /\ r[n - 1] = s[pos(n - 1)]
      BY <1>4, <3>1
    <3>3. fst2[i] = r[1]
      <4>1. CASE k = 1
        BY <1>2, <1>11, <2>3, <3>2, <4>1
      <4>2. CASE k # 1
        <5>1. k - 1 \in 1..n
          BY <1>2, <4>2
        <5>2. prv[t] # null
          BY <1>8, <1>11, <4>2, <5>1
        <5> QED
          BY <1>2, <1>9, <3>2, <4>2, <5>2
      <4> QED
        BY <4>1, <4>2
    <3>4. lst2[i] = r[n - 1]
      <4>1. CASE k = n
        <5>1. k - 1 \in 1..n /\ k # 1 /\ pos(n - 1) = k - 1
          BY <1>2, <2>3, <4>1
        <5>2. prv[t] = s[k - 1] /\ prv[t] # null /\ nxt[t] = null
          BY <1>8, <1>11, <4>1, <5>1
        <5> QED
          BY <3>2, <5>1, <5>2
      <4>2. CASE k # n
        <5>1. k + 1 \in 1..n /\ pos(n - 1) = n
          BY <1>2, <4>2
        <5>2. nxt[t] # null
          BY <1>8, <1>11, <4>2, <5>1
        <5> QED
          BY <1>9, <3>2, <5>1, <5>2
      <4> QED
        BY <4>1, <4>2
    <3> QED
      BY <1>4, <1>6, <2>3, <3>1, <3>3, <3>4
  <2> QED
    BY <2>1, <2>2, <2>3
<1>13. ASSUME NEW j \in H, NEW b \in 1..Len(q2[j])
       PROVE  /\ own2[q2[j][b]] = j
              /\ nxt2[q2[j][b]] = IF b = Len(q2[j]) THEN null ELSE q2[j][b + 1]
              /\ prv2[q2[j][b]] = IF b = 1 THEN null ELSE q2[j][b - 1]
              /\ \A m \in 1..Len(q2[j]) : q2[j][m] = q2[j][b] => m = b
  <2>1. CASE j # i
    <3>1. q2[j] = q[j] /\ q[j][b] \in E /\ own[q[j][b]] = j
      <4>1. q2[j] = q[j] /\ b \in 1..Len(q[j])
        BY <1>6, <2>1
      <4> QED
        BY <1>1, <1>3, <4>1
    <3>2. q[j][b] # t
      BY <1>2, <1>8, <1>10, <2>1, <3>1
    <3>3. q[j][b] # prv[t] /\ q[j][b] # nxt[t]
      <4>1. k # n => k + 1 \in 1..n
        BY <1>2
      <4>2. k # 1 => k - 1 \in 1..n
        BY <1>2
      <4> QED
        BY <1>8, <1>11, <2>1, <3>1, <4>1, <4>2
    <3>4. nxt2[q[j][b]] = nxt[q[j][b]] /\ prv2[q[j][b]] = prv[q[j][b]] /\ own2[q[j][b]] = j
      BY <1>7, <3>1, <3>2, <3>3
    <3> QED
      BY <1>3, <3>1, <3>4
  <2>2. CASE j = i
    <3>1. b \in 1..(n - 1) /\ Len(q2[j]) = n - 1 /\ q2[j] = r
      BY <1>4, <1>6, <2>2
    <3> DEFINE p == pos(b)
    <3>2. p \in 1..n /\ p # k /\ r[b] = s[p]
      BY <1>4, <1>5, <3>1
    <3>3. s[p] \in E /\ s[p] # t /\ own2[s[p]] = i
      <4> HIDE DEF p
      <4>1. s[p] \in E /\ own[s[p]] = i
        BY <1>8, <3>2
      <4>2. s[p] # s[k]
        BY <1>2, <1>8, <3>2
      <4> QED
        BY <1>7, <1>10, <4>1, <4>2
    <3>4. nxt2[s[p]] = IF b = n - 1 THEN null ELSE r[b + 1]
      <4>1. CASE p + 1 = k
        <5>1. s[p] = prv[t] /\ nxt2[s[p]] = nxt[t] /\ b + 1 = k
          BY <1>2, <1>11, <3>2, <3>3, <4>1
        <5>2. CASE k = n
          BY <1>11, <5>1, <5>2
        <5>3. CASE k # n
          <6>1. b + 1 \in 1..(n - 1) /\ pos(b + 1) = k + 1 /\ b # n - 1
            BY <1>2, <3>1, <5>1, <5>3
          <6> QED
            BY <1>4, <1>11, <5>1, <5>3, <6>1
        <5> QED
          BY <5>2, <5>3
      <4>2. CASE p + 1 # k
        <5>1. s[p] # prv[t]
          <6>1. k # 1 => k - 1 \in 1..n
            BY <1>2
          <6>2. k # 1 => p # k - 1
            BY <1>2, <3>2, <4>2
          <6> QED
            BY <1>8, <1>11, <3>2, <6>1, <6>2
        <5>2. nxt2[s[p]] = IF p = n THEN null ELSE s[p + 1]
          BY <1>8, <3>2, <3>3, <5>1, SMTT(30)
        <5>3. CASE p = n
          <6>1. b = n - 1
            BY <1>2, <3>1, <3>2, <5>3
          <6> QED
            BY <5>2, <5>3, <6>1
        <5>4. CASE p # n
          <6>1. b + 1 \in 1..(n - 1) /\ pos(b + 1) = p + 1 /\ b # n - 1
            BY <1>2, <3>1, <3>2, <4>2, <5>4
          <6> QED
            BY <1>4, <5>2, <5>4, <6>1
        <5> QED
          BY <5>3, <5>4
      <4> QED
        BY <4>1, <4>2
    <3>5. prv2[s[p]] = IF b = 1 THEN null ELSE r[b - 1]
      <4>1. CASE p - 1 = k
        <5>1. s[p] = nxt[t] /\ prv2[s[p]] = prv[t] /\ b = k
          BY <1>2, <1>11, <3>1, <3>2, <3>3, <4>1
        <5>2. CASE k = 1
          BY <1>11, <5>1, <5>2
        <5>3. CASE k # 1
          <6>1. b - 1 \in 1..(n - 1) /\ pos(b - 1) = k - 1 /\ b # 1
            BY <1>2, <3>1, <5>1, <5>3
          <6> QED
            BY <1>4, <1>11, <5>1, <5>3, <6>1
        <5> QED
          BY <5>2, <5>3
      <4>2. CASE p - 1 # k
        <5>1. s[p] # nxt[t]
          <6>1. k # n => k + 1 \in 1..n
            BY <1>2
          <6>2. k # n => p # k + 1
            BY <1>2, <3>2, <4>2
          <6> QED
            BY <1>8, <1>11, <3>2, <6>1, <6>2
        <5>2. prv2[s[p]] = IF p = 1 THEN null ELSE s[p - 1]
          BY <1>8, <3>2, <3>3, <5>1
        <5>3. CASE p = 1
          <6>1. b = 1
            BY <1>2, <3>1, <3>2, <5>3
          <6> QED
            BY <5>2, <5>3, <6>1
        <5>4. CASE p # 1
          <6>1. b - 1 \in 1..(n - 1) /\ pos(b - 1) = p - 1 /\ b # 1
            BY <1>2, <3>1, <3>2, <4>2, <5>4
          <6> QED
            BY <1>4, <5>2, <5>4, <6>1
        <5> QED
          BY <5>3, <5>4
      <4> QED
        BY <4>1, <4>2
    <3>6. ASSUME NEW m \in 1..(n - 1), r[m] = r[b] PROVE m = b
      <4>1. pos(m) \in 1..n /\ r[m] = s[pos(m)]
        BY <1>4, <1>5
      <4>2. \A x, y \in 1..n : s[x] = s[y] => x = y
        BY <1>8
      <4>3. s[pos(m)] = s[p]
        BY <3>2, <3>6, <4>1
      <4>4. pos(m) = pos(b)
        BY <3>2, <4>1, <4>2, <4>3, Zenon
      <4> QED
        BY <1>2, <3>1, <4>4
    <3> QED
      BY <2>2, <3>1, <3>2, <3>3, <3>4, <3>5, <3>6
  <2> QED
    BY <2>1, <2>2
<1>14. ASSUME NEW u \in E, own2[u] # null
       PROVE  \E b \in 1..Len(q2[own2[u]]) : q2[own2[u]][b] = u
  <2>1. u # t /\ own2[u] = own[u] /\ own[u] \in H
    BY <1>1, <1>7, <1>14
  <2>2. PICK b \in 1..Len(q[own[u]]) : q[own[u]][b] = u
    BY <1>14, <2>1 DEF Lists
  <2>3. CASE own[u] # i
    BY <1>6, <2>1, <2>2, <2>3
  <2>4. CASE own[u] = i
    <3>1. b \in 1..n /\ s[b] = u /\ b # k
      BY <1>10, <2>1, <2>2, <2>4 DEF s, n
    <3> DEFINE c == IF b < k THEN b ELSE b - 1
    <3>2. c \in 1..(n - 1) /\ pos(c) = b
      BY <1>2, <3>1
    <3>3. r[c] = u
      BY <1>4, <3>1, <3>2
    <3> QED
      BY <1>4, <1>6, <2>1, <2>4, <3>2, <3>3
  <2> QED
    BY <2>3, <2>4
<1>15. Lists(null, H, E, q2, fst2, lst2, nxt2, prv2, own2)
  BY <1>6, <1>7, <1>12, <1>13, <1>14 DEF Lists
<1> QED
  BY <1>15 DEF q2, own2, r, s

(* Walking list i along the links yields its elements. *)
LEMMA ListsWalk ==
    ASSUME NEW null, NEW H, NEW E, NEW q, NEW fst, NEW lst, NEW nxt, NEW prv, NEW own,
           Lists(null, H, E, q, fst, lst, nxt, prv, own),
           NEW i \in H, NEW c, c = Len(q[i])
    PROVE  Along(c, fst[i], nxt) = q[i]
<1>1. q[i] \in Seq(E) /\ Len(q[i]) \in Nat /\ (Len(q[i]) > 0 => q[i][1] = fst[i])
  BY DEF Lists
<1>2. ASSUME NEW n \in 1..Len(q[i]), n # 1 PROVE q[i][n] = nxt[q[i][n - 1]]
  <2>1. n - 1 \in 1..Len(q[i]) /\ n - 1 # Len(q[i]) /\ (n - 1) + 1 = n
    BY <1>1, <1>2
  <2>2. nxt[q[i][n - 1]] = q[i][(n - 1) + 1]
    BY <2>1 DEF Lists
  <2> QED
    BY <2>1, <2>2
<1> QED
  BY <1>1, <1>2, WalkYields

(* A list is as long as the set of the elements that belong to it. *)
LEMMA ListsCount ==
    ASSUME NEW null, NEW H, NEW E, null \notin H, NEW q, NEW fst, NEW lst, NEW nxt, NEW prv, NEW own,
           Lists(null, H, E, q, fst, lst, nxt, prv, own),
           NEW i \in H
    PROVE  Cardinality({t \in E : own[t] = i}) = Len(q[i])
<1> DEFINE S == {t \in E : own[t] = i}
           s == q[i]
           n == Len(s)
<1>1. s \in Seq(E) /\ n \in Nat /\ s \in [1..n -> E]
  BY DEF Lists
<1>2. \A k \in 1..n : s[k] \in S
  BY <1>1 DEF Lists
<1>3. \A t \in S : \E k \in 1..n : s[k] = t
  BY DEF Lists
<1>4. \A j, k \in 1..n : s[j] = s[k] => j = k
  BY DEF Lists
<1> HIDE DEF S, s, n
<1>5. s \in [1..n -> S]
  BY <1>1, <1>2
<1>6. s \in Bijection(1..n, S)
  BY <1>3, <1>4, <1>5 DEF Bijection, Injection, Surjection, IsInjective
<1>7. Cardinality(S) = n
  BY <1>1, <1>6, FS_CountingElements DEF ExistsBijection
<1> QED
  BY <1>7 DEF S, n, s

-----------------------------------------------------------------------------
(* Recursive functions on intervals *)

(* f and g agree at the start of an interval and, when they agree at one place,
   at the next one; f and g agree everywhere. *)
InStep(f, g, lo, hi) ==
    f[lo] = g[lo] /\ \A k \in lo..hi : k # lo /\ f[k - 1] = g[k - 1] => f[k] = g[k]
Agree(f, g, lo, hi) == \A k \in lo..hi : f[k] = g[k]

(* The first implies the second. *)
LEMMA SameSteps ==
    ASSUME NEW lo \in Int, NEW hi \in Int, NEW f, NEW g, InStep(f, g, lo, hi)
    PROVE  Agree(f, g, lo, hi)
<1>0. f[lo] = g[lo] /\ \A k \in lo..hi : k # lo /\ f[k - 1] = g[k - 1] => f[k] = g[k]
  BY DEF InStep
<1> DEFINE Bad == {d \in Nat : lo + d <= hi /\ f[lo + d] # g[lo + d]}
<1>1. Bad = {}
  <2> SUFFICES ASSUME Bad # {} PROVE FALSE
    OBVIOUS
  <2>1. Bad \in SUBSET Nat
    OBVIOUS
  <2> HIDE DEF Bad
  <2>2. PICK d \in Bad : \A e \in Bad : d <= e
    BY <2>1, LeastNat
  <2>3. d \in Nat /\ lo + d <= hi /\ f[lo + d] # g[lo + d]
    BY DEF Bad
  <2>4. d # 0
    BY <1>0, <2>3
  <2>5. d - 1 \in Nat /\ d - 1 \notin Bad
    BY <2>2, <2>3, <2>4
  <2>6. f[lo + (d - 1)] = g[lo + (d - 1)]
    BY <2>3, <2>5 DEF Bad
  <2>7. lo + d \in lo..hi /\ lo + d # lo /\ (lo + d) - 1 = lo + (d - 1)
    BY <2>3, <2>4
  <2>8. f[(lo + d) - 1] = g[(lo + d) - 1]
    BY <2>6, <2>7
  <2> QED
    BY <1>0, <2>3, <2>7, <2>8
<1>2. ASSUME NEW k \in lo..hi PROVE f[k] = g[k]
  <2>1. k - lo \in Nat /\ lo + (k - lo) = k /\ k <= hi
    OBVIOUS
  <2> QED
    BY <1>1, <2>1
<1> QED
  BY <1>2 DEF Agree

(* A function that starts at a and goes on with G: k - 1 leads to k. *)
Runs(f, lo, hi, a, G) == f = [k \in lo..hi |-> IF k = lo THEN a ELSE G[k][f[k - 1]]]

(* It exists. *)
LEMMA RunExists ==
    ASSUME NEW lo \in Int, NEW hi \in Int, NEW S, NEW a, NEW G,
           a \in S[lo],
           \A k \in lo..hi : k # lo => \A x \in S[k - 1] : G[k][x] \in S[k]
    PROVE  \E f : Runs(f, lo, hi, a, G) /\ \A k \in lo..hi : f[k] \in S[k]
<1> DEFINE P(f, d) == Runs(f, lo, lo + d, a, G) /\ \A k \in lo..(lo + d) : f[k] \in S[k]
           Bad == {d \in Nat : lo + d <= hi /\ ~ \E f : P(f, d)}
<1>1. Bad = {}
  <2> SUFFICES ASSUME Bad # {} PROVE FALSE
    OBVIOUS
  <2>1. Bad \in SUBSET Nat
    OBVIOUS
  <2>a. \A d \in Nat : lo + d <= hi /\ d \notin Bad => \E f : P(f, d)
    OBVIOUS
  <2>b. \A d \in Bad : d \in Nat /\ lo + d <= hi /\ ~ \E f : P(f, d)
    OBVIOUS
  <2> HIDE DEF Bad
  <2>2. PICK d \in Bad : \A e \in Bad : d <= e
    BY <2>1, LeastNat
  <2>3. d \in Nat /\ lo + d <= hi /\ ~ \E f : P(f, d)
    BY <2>b
  <2>4. CASE d = 0
    <3>1. PICK f : f = [k \in lo..lo |-> a]
      OBVIOUS
    <3>2. lo + d = lo
      BY <2>4
    <3>3. Runs(f, lo, lo, a, G)
      BY <3>1 DEF Runs
    <3>4. \A k \in lo..lo : f[k] \in S[k]
      BY <3>1
    <3>5. P(f, d)
      BY <3>2, <3>3, <3>4
    <3> QED
      BY <2>3, <3>5
  <2>5. CASE d # 0
    <3>1. d - 1 \in Nat /\ d - 1 \notin Bad /\ lo + (d - 1) <= hi
      BY <2>2, <2>3, <2>5
    <3>2. PICK f : P(f, d - 1)
      BY <2>a, <3>1
    <3>3. PICK n : n = lo + d
      OBVIOUS
    <3>4. n \in lo..hi /\ n # lo /\ lo + (d - 1) = n - 1 /\ n - 1 \in lo..(n - 1)
      BY <2>3, <2>5, <3>3
    <3>5. f = [k \in lo..(n - 1) |-> IF k = lo THEN a ELSE G[k][f[k - 1]]] /\ \A k \in lo..(n - 1) : f[k] \in S[k]
      BY <3>2, <3>4 DEF Runs
    <3>6. PICK g : g = [k \in lo..n |-> IF k = n THEN G[n][f[n - 1]] ELSE f[k]]
      OBVIOUS
    <3>7. g[n] = G[n][f[n - 1]] /\ \A k \in lo..(n - 1) : g[k] = f[k]
      BY <3>4, <3>6
    <3>8. ASSUME NEW k \in lo..n PROVE g[k] = IF k = lo THEN a ELSE G[k][g[k - 1]]
      <4>1. CASE k = n
        BY <3>4, <3>7, <4>1
      <4>2. CASE k # n
        <5>1. k \in lo..(n - 1) /\ (k # lo => k - 1 \in lo..(n - 1))
          BY <3>4, <4>2
        <5>2. f[k] = IF k = lo THEN a ELSE G[k][f[k - 1]]
          BY <3>5, <5>1
        <5> QED
          BY <3>7, <5>1, <5>2
      <4> QED
        BY <4>1, <4>2
    <3>9. Runs(g, lo, n, a, G)
      BY <3>6, <3>8 DEF Runs
    <3>10. \A k \in lo..n : g[k] \in S[k]
      BY <3>4, <3>5, <3>7
    <3>11. P(g, d)
      BY <3>3, <3>9, <3>10
    <3> QED
      BY <2>3, <3>11
  <2> QED
    BY <2>4, <2>5
<1>2. CASE lo <= hi
  <2>1. \A d \in Nat : lo + d <= hi /\ d \notin Bad => \E f : P(f, d)
    OBVIOUS
  <2> HIDE DEF Bad
  <2>2. PICK d \in Nat : lo + d = hi
    <3>1. hi - lo \in Nat /\ lo + (hi - lo) = hi
      BY <1>2
    <3> QED
      BY <3>1
  <2>3. lo + d <= hi /\ d \notin Bad
    BY <1>1, <2>2
  <2>4. \E f : P(f, d)
    BY <2>1, <2>3
  <2> QED
    BY <2>2, <2>4
<1>3. CASE ~(lo <= hi)
  <2>1. lo..hi = {}
    BY <1>3
  <2>2. PICK f : f = [k \in lo..hi |-> a]
    OBVIOUS
  <2>3. Runs(f, lo, hi, a, G)
    BY <2>1, <2>2 DEF Runs
  <2> QED
    BY <2>1, <2>3
<1> QED
  BY <1>2, <1>3
=============================================================================
