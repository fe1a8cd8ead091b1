--------------------------- MODULE ARRollout_proofs ---------------------------
(* Proofs about the rollout worker, for any sessions, cap, window, pool and   *)
(* branches.  First what every step of the worker keeps, whichever path its   *)
(* forwards come from: shapes, the two LRU orders, the blocks of the pool and *)
(* the pending guard.  Then the monolithic rollout: the window and the cross  *)
(* pool.  Then the disaggregated one: the prompt of a session, from the       *)
(* encode worker over the payloads on their way to the cross pool.            *)
EXTENDS DisaggRollout, SequenceTheorems, FiniteSetTheorems, TLAPS

\* No key has two places in an order.
Distinct(q) == \A i, j \in DOMAIN q : q[i] = q[j] => i = j

\* The order v is the most recent part of the order u.
EndsWith(u, v) == Len(v) <= Len(u) /\ \A i \in 1..Len(v) : v[i] = u[Len(u) - Len(v) + i]

\* Resident of the block tables k.
Table(k, S) == UNION {{<<s, b>>} \X (1..k[s].blocks[b]) : s \in S, b \in Branch}

-----------------------------------------------------------------------------
(* The order of an LRU map.                                                  *)

\* Popping a key takes its one place out of the order and nothing else.
LEMMA RemoveEffect ==
    ASSUME NEW q \in Seq(Session), Distinct(q), NEW s
    PROVE  /\ RemoveFirst(q, s) \in Seq(Session)
           /\ \/ s \notin Held(q) /\ RemoveFirst(q, s) = q
              \/ \E i \in 1..Len(q) :
                   /\ q[i] = s /\ Len(RemoveFirst(q, s)) = Len(q) - 1
                   /\ \A j \in 1..(Len(q) - 1) : RemoveFirst(q, s)[j] = IF j < i THEN q[j] ELSE q[j + 1]
  <1>0. Len(q) \in Nat /\ DOMAIN q = 1..Len(q) /\ \A i \in 1..Len(q) : q[i] \in Session
    OBVIOUS
  <1>1. CASE s \notin Held(q)
    <2>1. RemoveFirst(q, s) = q
      BY <1>0, <1>1 DEF RemoveFirst, Held
    <2> QED BY <1>1, <2>1
  <1>2. CASE s \in Held(q)
    <2>1. PICK i \in 1..Len(q) : q[i] = s
      BY <1>0, <1>2 DEF Held
    <2> DEFINE I == {j \in 1..Len(q) : q[j] = s}
    <2>2. I = {i}
      BY <1>0, <2>1 DEF Distinct
    <2>3. Min({i}) = i
      BY <2>1 DEF Min
    <2>4. SelectInSeq(q, LAMBDA v : v = s) = i
      BY <2>2, <2>3 DEF SelectInSeq
    <2>5. RemoveFirst(q, s) = SubSeq(q, 1, i - 1) \o SubSeq(q, i + 1, Len(q))
      BY <2>1, <2>4 DEF RemoveFirst, RemoveAt
    <2> DEFINE u == SubSeq(q, 1, i - 1)
               v == SubSeq(q, i + 1, Len(q))
    <2>6. /\ u \in Seq(Session) /\ Len(u) = i - 1 /\ \A j \in 1..(i - 1) : u[j] = q[j]
          /\ v \in Seq(Session) /\ Len(v) = Len(q) - i /\ \A j \in 1..(Len(q) - i) : v[j] = q[i + j]
      BY <1>0, <2>1, SubSeqProperties
    <2> HIDE DEF u, v
    <2>7. /\ u \o v \in Seq(Session) /\ Len(u \o v) = Len(q) - 1
          /\ \A j \in 1..(Len(q) - 1) : (u \o v)[j] = IF j < i THEN q[j] ELSE q[j + 1]
      <3>1. /\ u \o v \in Seq(Session) /\ Len(u \o v) = Len(q) - 1
            /\ \A j \in 1..(Len(q) - 1) : (u \o v)[j] = IF j <= i - 1 THEN u[j] ELSE v[j - (i - 1)]
        <4>1. Len(u) + Len(v) = Len(q) - 1 /\ Len(u) = i - 1 /\ u \in Seq(Session) /\ v \in Seq(Session)
          BY <1>0, <2>1, <2>6
        <4>2. /\ u \o v \in Seq(Session) /\ Len(u \o v) = Len(u) + Len(v)
              /\ \A j \in 1..(Len(u) + Len(v)) : (u \o v)[j] = IF j <= Len(u) THEN u[j] ELSE v[j - Len(u)]
          BY <4>1, ConcatProperties
        <4> QED BY <4>1, <4>2
      <3>2. ASSUME NEW j \in 1..(Len(q) - 1)
            PROVE  (u \o v)[j] = IF j < i THEN q[j] ELSE q[j + 1]
        <4>1. CASE j < i
          <5>1. j \in 1..(i - 1) /\ j <= i - 1
            BY <1>0, <2>1, <4>1
          <5> QED BY <2>6, <3>1, <4>1, <5>1
        <4>2. CASE ~(j < i)
          <5>1. j - (i - 1) \in 1..(Len(q) - i) /\ ~(j <= i - 1) /\ i + (j - (i - 1)) = j + 1
            BY <1>0, <2>1, <4>2
          <5> QED BY <2>6, <3>1, <4>2, <5>1
        <4> QED BY <4>1, <4>2
      <3> QED BY <3>1, <3>2
    <2>8. RemoveFirst(q, s) = u \o v
      BY <2>5 DEF u, v
    <2> QED BY <2>1, <2>7, <2>8
  <1> QED BY <1>1, <1>2

\* ... which leaves the other keys held.
LEMMA RemoveHeld ==
    ASSUME NEW q \in Seq(Session), Distinct(q), NEW s
    PROVE  /\ Distinct(RemoveFirst(q, s)) /\ Len(RemoveFirst(q, s)) <= Len(q)
           /\ Held(RemoveFirst(q, s)) = Held(q) \ {s}
  <1> DEFINE r == RemoveFirst(q, s)
  <1>0. Len(q) \in Nat /\ DOMAIN q = 1..Len(q) /\ r \in Seq(Session) /\ Len(r) \in Nat /\ DOMAIN r = 1..Len(r)
    BY RemoveEffect
  <1>1. CASE s \notin Held(q) /\ r = q
    BY <1>0, <1>1
  <1>2. ASSUME NEW i \in 1..Len(q), q[i] = s, Len(r) = Len(q) - 1,
               \A j \in 1..(Len(q) - 1) : r[j] = IF j < i THEN q[j] ELSE q[j + 1]
        PROVE  Distinct(r) /\ Len(r) <= Len(q) /\ Held(r) = Held(q) \ {s}
    <2> HIDE DEF r
    <2>1. Distinct(r)
      <3> DEFINE at(j) == IF j < i THEN j ELSE j + 1
      <3>1. /\ \A j \in 1..Len(r) : at(j) \in 1..Len(q) /\ r[j] = q[at(j)]
            /\ \A j, k \in 1..Len(r) : at(j) = at(k) => j = k
        BY <1>0, <1>2
      <3> HIDE DEF at
      <3>2. \A j, k \in 1..Len(q) : q[j] = q[k] => j = k
        BY <1>0 DEF Distinct
      <3>3. \A j, k \in 1..Len(r) : r[j] = r[k] => j = k
        BY <3>1, <3>2
      <3> QED BY <1>0, <3>3 DEF Distinct
    <2>2. \A j \in 1..Len(q) : j # i => q[j] = r[IF j < i THEN j ELSE j - 1]
      BY <1>0, <1>2
    <2>3. Held(q) \ {s} \subseteq Held(r)
      <3> SUFFICES ASSUME NEW j \in 1..Len(q), j # i PROVE q[j] \in Held(r)
        BY <1>0, <1>2 DEF Held
      <3>1. (IF j < i THEN j ELSE j - 1) \in 1..Len(r)
        BY <1>0, <1>2
      <3> QED BY <1>0, <2>2, <3>1 DEF Held
    <2>4. Held(r) \subseteq Held(q) \ {s}
      BY <1>0, <1>2 DEF Held, Distinct
    <2> QED BY <1>0, <1>2, <2>1, <2>3, <2>4
  <1> QED BY <1>1, <1>2, RemoveEffect

\* A key appended is the last of the order.
LEMMA AppendEffect ==
    ASSUME NEW q \in Seq(Session), NEW s \in Session
    PROVE  /\ Append(q, s) \in Seq(Session) /\ Len(q) \in Nat /\ Len(Append(q, s)) = Len(q) + 1
           /\ \A i \in 1..(Len(q) + 1) : Append(q, s)[i] = IF i = Len(q) + 1 THEN s ELSE q[i]
  OBVIOUS

\* So is a key just used, and the others are what they were.
LEMMA MoveEffect ==
    ASSUME NEW q \in Seq(Session), Distinct(q), NEW s \in Session
    PROVE  LET m == MoveToEnd(q, s)
           IN  /\ m \in Seq(Session) /\ Distinct(m) /\ Len(m) <= Len(q) + 1
               /\ Len(m) > 0 /\ m[Len(m)] = s
               /\ Held(m) = Held(q) \cup {s}
               /\ RemoveFirst(m, s) = RemoveFirst(q, s)
  <1> DEFINE r == RemoveFirst(q, s)
             m == Append(r, s)
  <1>1. r \in Seq(Session) /\ Distinct(r) /\ Len(r) <= Len(q) /\ Held(r) = Held(q) \ {s}
    BY RemoveEffect, RemoveHeld
  <1> HIDE DEF r
  <1>2. Len(r) \in Nat /\ DOMAIN r = 1..Len(r) /\ \A i \in 1..Len(r) : r[i] # s /\ r[i] \in Session
    BY <1>1 DEF Held
  <1>3. /\ m \in Seq(Session) /\ Len(m) = Len(r) + 1 /\ DOMAIN m = 1..(Len(r) + 1)
        /\ \A i \in 1..(Len(r) + 1) : m[i] = IF i = Len(r) + 1 THEN s ELSE r[i]
    BY <1>1, <1>2
  <1> HIDE DEF m
  <1>4. Distinct(m)
    BY <1>1, <1>2, <1>3 DEF Distinct
  <1>5. Held(m) = Held(r) \cup {s}
    <2>1. Held(m) \subseteq Held(r) \cup {s}
      BY <1>2, <1>3 DEF Held
    <2>2. Held(r) \subseteq Held(m)
      BY <1>2, <1>3 DEF Held
    <2>3. s \in Held(m)
      BY <1>2, <1>3 DEF Held
    <2> QED BY <2>1, <2>2, <2>3
  <1>6. RemoveFirst(m, s) = r
    <2> DEFINE n == RemoveFirst(m, s)
    <2>1. s \in Held(m) /\ n \in Seq(Session)
      BY <1>3, <1>4, <1>5, RemoveEffect
    <2>2. PICK i \in 1..Len(m) : /\ m[i] = s /\ Len(n) = Len(m) - 1
                                 /\ \A j \in 1..(Len(m) - 1) : n[j] = IF j < i THEN m[j] ELSE m[j + 1]
      BY <1>3, <1>4, <2>1, RemoveEffect
    <2> HIDE DEF n
    <2>3. i = Len(r) + 1
      BY <1>2, <1>3, <2>2
    <2>4. Len(n) = Len(r) /\ \A j \in 1..Len(r) : n[j] = r[j]
      BY <1>2, <1>3, <2>2, <2>3
    <2>5. n = r
      BY <1>1, <2>1, <2>4, SeqEqual
    <2> QED BY <2>5 DEF n
  <1>7. MoveToEnd(q, s) = m
    BY DEF MoveToEnd, m, r
  <1> QED BY <1>1, <1>2, <1>3, <1>4, <1>5, <1>6, <1>7 DEF r

\* The eviction loop gives the cap back and takes the least recent key only.
LEMMA KeptEffect ==
    ASSUME NEW q \in Seq(Session), Distinct(q), Len(q) > 0, Len(q) <= MaxSessions + 1
    PROVE  /\ Kept(q) \in Seq(Session) /\ Distinct(Kept(q))
           /\ Len(Kept(q)) > 0 /\ Len(Kept(q)) <= MaxSessions
           /\ Kept(q)[Len(Kept(q))] = q[Len(q)]
           /\ Held(q) = Held(Kept(q)) \cup Evicted(q)
           /\ Held(Kept(q)) \cap Evicted(q) = {} /\ Evicted(q) \subseteq Session
           /\ EndsWith(q, Kept(q))
  <1>0. Len(q) \in Nat /\ DOMAIN q = 1..Len(q) /\ MaxSessions \in Nat \ {0} /\ \A i \in 1..Len(q) : q[i] \in Session
    BY SessionAssumption
  <1>1. CASE Len(q) <= MaxSessions
    <2>1. Kept(q) = q /\ Evicted(q) = {}
      <3>1. ~(Len(q) > MaxSessions)
        BY <1>0, <1>1
      <3> QED BY <3>1, Zenon DEF Kept, Evicted
    <2>2. EndsWith(q, q)
      BY <1>0 DEF EndsWith
    <2> QED BY <1>0, <1>1, <2>1, <2>2
  <1>2. CASE Len(q) > MaxSessions
    <2> DEFINE t == Tail(q)
    <2>1. /\ Kept(q) = t /\ Evicted(q) = {q[1]} /\ t \in Seq(Session) /\ Len(t) = Len(q) - 1
          /\ DOMAIN t = 1..(Len(q) - 1) /\ \A i \in 1..(Len(q) - 1) : t[i] = q[i + 1]
      BY <1>0, <1>2 DEF Kept, Evicted
    <2> HIDE DEF t
    <2>2. Distinct(t) /\ EndsWith(q, t)
      <3>1. \A i \in 1..Len(t) : Len(q) - Len(t) + i = i + 1
        BY <1>0, <2>1
      <3>2. EndsWith(q, t)
        BY <1>0, <2>1, <3>1 DEF EndsWith
      <3>3. \A i, j \in 1..(Len(q) - 1) : q[i + 1] = q[j + 1] => i = j
        <4> SUFFICES ASSUME NEW i \in 1..(Len(q) - 1), NEW j \in 1..(Len(q) - 1), q[i + 1] = q[j + 1]
                     PROVE  i = j
          OBVIOUS
        <4>1. i + 1 \in 1..Len(q) /\ j + 1 \in 1..Len(q)
          BY <1>0
        <4>2. i + 1 = j + 1
          BY <1>0, <4>1 DEF Distinct
        <4> QED BY <4>2
      <3>4. Distinct(t)
        BY <2>1, <3>3 DEF Distinct
      <3> QED BY <3>2, <3>4
    <2>3. Held(t) \subseteq Held(q) \ {q[1]}
      BY <1>0, <2>1 DEF Distinct, Held
    <2>4. Held(q) \subseteq Held(t) \cup {q[1]}
      <3>1. \A i \in 1..Len(q) : i = 1 \/ q[i] = t[i - 1]
        BY <1>0, <2>1
      <3> QED BY <1>0, <2>1, <3>1 DEF Held
    <2>5. q[1] \in Held(q)
      BY <1>0 DEF Held
    <2>6. Len(t) > 0 /\ Len(t) <= MaxSessions /\ t[Len(t)] = q[Len(q)]
      BY <1>0, <1>2, <2>1
    <2> QED BY <1>0, <2>1, <2>2, <2>3, <2>4, <2>5, <2>6
  <1> QED BY <1>0, <1>1, <1>2

\* One order is the tail end of another: what the steps do to both keeps that.
LEMMA EndsHeld ==
    ASSUME NEW u \in Seq(Session), NEW v \in Seq(Session), EndsWith(u, v)
    PROVE  Held(v) \subseteq Held(u)
  <1>1. \A i \in 1..Len(v) : Len(u) - Len(v) + i \in 1..Len(u) /\ v[i] = u[Len(u) - Len(v) + i]
    BY DEF EndsWith
  <1> QED BY <1>1 DEF Held

\* A part of a part is a part.
LEMMA EndsChain ==
    ASSUME NEW u \in Seq(Session), NEW v \in Seq(Session), NEW w \in Seq(Session),
           EndsWith(u, v), EndsWith(v, w)
    PROVE  EndsWith(u, w)
  BY DEF EndsWith

\* A key popped from both orders leaves one the end of the other.
LEMMA EndsRemove ==
    ASSUME NEW u \in Seq(Session), Distinct(u), NEW v \in Seq(Session), Distinct(v),
           EndsWith(u, v), NEW s
    PROVE  EndsWith(RemoveFirst(u, s), RemoveFirst(v, s))
  <1> DEFINE x == RemoveFirst(u, s)
             y == RemoveFirst(v, s)
             d == Len(u) - Len(v)
  <1>0. /\ Len(u) \in Nat /\ DOMAIN u = 1..Len(u) /\ Len(v) \in Nat /\ DOMAIN v = 1..Len(v)
        /\ x \in Seq(Session) /\ y \in Seq(Session) /\ Len(x) \in Nat /\ Len(y) \in Nat
        /\ d \in Nat
    BY RemoveEffect DEF EndsWith
  <1>1. \A i \in 1..Len(v) : d + i \in 1..Len(u) /\ v[i] = u[d + i]
    BY <1>0 DEF EndsWith
  <1>2. CASE s \notin Held(u)
    <2>1. s \notin Held(v)
      BY <1>2, EndsHeld
    <2>2. \A i \in 1..Len(u) : u[i] # s
      BY <1>0, <1>2 DEF Held
    <2>3. \A i \in 1..Len(v) : v[i] # s
      BY <1>0, <2>1 DEF Held
    <2>4. x = u /\ y = v
      BY <2>2, <2>3, RemoveEffect
    <2> QED BY <2>4
  <1>3. CASE s \in Held(u)
    <2>1. PICK i \in 1..Len(u) : /\ u[i] = s /\ Len(x) = Len(u) - 1
                                 /\ \A j \in 1..(Len(u) - 1) : x[j] = IF j < i THEN u[j] ELSE u[j + 1]
      BY <1>3, RemoveEffect
    <2>2. CASE s \notin Held(v)
      <3>0. \A j \in 1..Len(v) : v[j] # s
        BY <1>0, <2>2 DEF Held
      <3>1. y = v
        BY <3>0, RemoveEffect
      <3>2. i <= d
        <4> SUFFICES ASSUME i > d PROVE FALSE
          BY <1>0, <2>1
        <4> HIDE DEF d
        <4>1. i - d \in 1..Len(v) /\ d + (i - d) = i
          <5>1. Len(u) = d + Len(v)
            BY <1>0 DEF d
          <5> QED BY <1>0, <2>1, <5>1
        <4> QED BY <1>1, <2>1, <3>0, <4>1
      <3>3. Len(v) <= Len(x)
        BY <1>0, <2>1, <3>2
      <3>4. ASSUME NEW j \in 1..Len(v) PROVE v[j] = x[Len(x) - Len(v) + j]
        <4>1. Len(x) - Len(v) + j = d + j - 1 /\ d + j - 1 \in 1..(Len(u) - 1) /\ ~(d + j - 1 < i)
          BY <1>0, <2>1, <3>2, <3>3
        <4>2. d + j - 1 + 1 = d + j
          BY <1>0
        <4> HIDE DEF x, d
        <4>3. x[d + j - 1] = u[d + j - 1 + 1]
          BY <2>1, <4>1
        <4> QED BY <1>1, <4>1, <4>2, <4>3
      <3> QED BY <3>1, <3>3, <3>4 DEF EndsWith
    <2>3. CASE s \in Held(v)
      <3>1. PICK k \in 1..Len(v) : /\ v[k] = s /\ Len(y) = Len(v) - 1
                                   /\ \A j \in 1..(Len(v) - 1) : y[j] = IF j < k THEN v[j] ELSE v[j + 1]
        BY <2>3, RemoveEffect
      <3>2. i = d + k
        <4>1. d + k \in 1..Len(u) /\ u[d + k] = s
          BY <1>1, <3>1
        <4> HIDE DEF d
        <4> QED BY <1>0, <2>1, <4>1 DEF Distinct
      <3>3. Len(x) - Len(y) = d /\ Len(y) <= Len(x)
        BY <1>0, <2>1, <3>1
      <3>4. ASSUME NEW j \in 1..Len(y) PROVE y[j] = x[Len(x) - Len(y) + j]
        <4> HIDE DEF d, x, y
        <4>1. j \in 1..(Len(v) - 1) /\ d + j \in 1..(Len(u) - 1) /\ (d + j < i <=> j < k)
              /\ j \in 1..Len(v) /\ j + 1 \in 1..Len(v) /\ d + (j + 1) = d + j + 1
          <5>1. Len(u) = d + Len(v)
            BY <1>0 DEF d
          <5> QED BY <1>0, <2>1, <3>1, <3>2, <5>1
        <4>2. y[j] = IF j < k THEN v[j] ELSE v[j + 1]
          BY <3>1, <4>1
        <4>3. x[d + j] = IF j < k THEN u[d + j] ELSE u[d + j + 1]
          BY <2>1, <4>1
        <4>4. v[j] = u[d + j] /\ v[j + 1] = u[d + j + 1]
          BY <1>1, <4>1
        <4> QED BY <3>3, <4>2, <4>3, <4>4
      <3> QED BY <3>3, <3>4 DEF EndsWith
    <2> QED BY <2>2, <2>3
  <1> QED BY <1>2, <1>3

\* So does a key used in both.
LEMMA EndsMove ==
    ASSUME NEW u \in Seq(Session), Distinct(u), NEW v \in Seq(Session), Distinct(v),
           EndsWith(u, v), NEW s \in Session
    PROVE  EndsWith(MoveToEnd(u, s), MoveToEnd(v, s))
  <1> DEFINE x == RemoveFirst(u, s)
             y == RemoveFirst(v, s)
  <1>1. x \in Seq(Session) /\ y \in Seq(Session) /\ EndsWith(x, y)
    BY RemoveEffect, EndsRemove
  <1> HIDE DEF x, y
  <1>2. EndsWith(Append(x, s), Append(y, s))
    <2> DEFINE a == Append(x, s)
               c == Append(y, s)
    <2>1. /\ Len(a) = Len(x) + 1 /\ Len(c) = Len(y) + 1 /\ Len(x) \in Nat /\ Len(y) \in Nat
          /\ \A i \in 1..(Len(x) + 1) : a[i] = IF i = Len(x) + 1 THEN s ELSE x[i]
          /\ \A i \in 1..(Len(y) + 1) : c[i] = IF i = Len(y) + 1 THEN s ELSE y[i]
      BY <1>1, AppendEffect
    <2> HIDE DEF a, c
    <2>2. Len(y) <= Len(x) /\ \A i \in 1..Len(y) : y[i] = x[Len(x) - Len(y) + i]
      BY <1>1 DEF EndsWith
    <2>3. ASSUME NEW i \in 1..Len(c) PROVE c[i] = a[Len(a) - Len(c) + i]
      <3>1. Len(a) - Len(c) + i = Len(x) - Len(y) + i /\ i \in 1..(Len(y) + 1)
            /\ Len(x) - Len(y) + i \in 1..(Len(x) + 1)
            /\ (Len(x) - Len(y) + i = Len(x) + 1 <=> i = Len(y) + 1)
        <4>1. Len(a) = Len(x) + 1 /\ Len(c) = Len(y) + 1 /\ Len(x) \in Nat /\ Len(y) \in Nat
              /\ Len(y) <= Len(x)
          BY <2>1, <2>2
        <4> QED BY <4>1
      <3>2. i # Len(y) + 1 => i \in 1..Len(y)
        BY <2>1, <3>1
      <3> QED BY <2>1, <2>2, <3>1, <3>2
    <2>4. Len(c) <= Len(a)
      BY <2>1, <2>2
    <2> QED BY <2>3, <2>4 DEF EndsWith, a, c
  <1> QED BY <1>2 DEF MoveToEnd, x, y

\* A shorter order does not lose the key a longer one has to give up.
LEMMA EndsKept ==
    ASSUME NEW u \in Seq(Session), NEW v \in Seq(Session), EndsWith(u, v),
           Len(v) <= MaxSessions, Len(u) > 0
    PROVE  EndsWith(Kept(u), v)
  <1>1. CASE Len(u) <= MaxSessions
    BY <1>1, SessionAssumption DEF Kept
  <1>2. CASE Len(u) > MaxSessions
    <2>1. Kept(u) = Tail(u) /\ Len(Tail(u)) = Len(u) - 1
          /\ \A i \in 1..(Len(u) - 1) : Tail(u)[i] = u[i + 1]
      BY <1>2, SessionAssumption DEF Kept
    <2> QED BY <1>2, <2>1, SessionAssumption DEF EndsWith
  <1> QED BY <1>1, <1>2, SessionAssumption

-----------------------------------------------------------------------------
(* The blocks of the pool.                                                   *)

\* The blocks of S, one by one.
LEMMA TableMember ==
    ASSUME NEW k, NEW S, NEW x
    PROVE  x \in Table(k, S) <=> \E s \in S, b \in Branch : \E i \in 1..k[s].blocks[b] : x = <<<<s, b>>, i>>
  <1>1. x \in Table(k, S) <=> \E s \in S, b \in Branch : x \in {<<s, b>>} \X (1..k[s].blocks[b])
    <2> DEFINE col(s, b) == {<<s, b>>} \X (1..k[s].blocks[b])
               F == {col(s, b) : s \in S, b \in Branch}
    <2> HIDE DEF col
    <2>1. \A T : T \in F <=> \E s \in S, b \in Branch : T = col(s, b)
      OBVIOUS
    <2> HIDE DEF F
    <2>2. x \in UNION F <=> \E T \in F : x \in T
      OBVIOUS
    <2>3. x \in UNION F <=> \E s \in S, b \in Branch : x \in col(s, b)
      BY <2>1, <2>2
    <2> QED BY <2>3 DEF Table, F, col
  <1>2. \A s, b, n : x \in {<<s, b>>} \X (1..n) <=> \E i \in 1..n : x = <<<<s, b>>, i>>
    OBVIOUS
  <1>3. \A s \in S, b \in Branch : x \in {<<s, b>>} \X (1..k[s].blocks[b])
                                 <=> \E i \in 1..k[s].blocks[b] : x = <<<<s, b>>, i>>
    BY <1>2
  <1> QED BY <1>1, <1>3

\* Sessions that hold no block have no entry, and only they.
LEMMA TableEmpty ==
    ASSUME NEW k, NEW S, \A s \in S : \A b \in Branch : k[s].blocks[b] \in Nat
    PROVE  Table(k, S) = {} <=> \A s \in S : \A b \in Branch : k[s].blocks[b] = 0
  <1>1. ASSUME NEW s \in S, NEW b \in Branch, k[s].blocks[b] # 0
        PROVE  <<<<s, b>>, 1>> \in Table(k, S)
    <2>1. 1 \in 1..k[s].blocks[b]
      BY <1>1
    <2> QED BY <2>1, TableMember
  <1>2. ASSUME NEW x \in Table(k, S)
        PROVE  \E s \in S, b \in Branch : k[s].blocks[b] # 0
    BY TableMember
  <1> QED BY <1>1, <1>2

\* Finitely many sessions with bounded windows hold finitely many blocks.
LEMMA TableFinite ==
    ASSUME NEW k, NEW S, IsFiniteSet(S), NEW n \in Nat,
           \A s \in S : \A b \in Branch : k[s].blocks[b] \in Nat /\ k[s].blocks[b] <= n
    PROVE  IsFiniteSet(Table(k, S)) /\ Cardinality(Table(k, S)) \in Nat
  <1>1. IsFiniteSet(Branch)
    <2>1. IsFiniteSet({"pos"})
      BY FS_Singleton
    <2>2. IsFiniteSet({"pos"} \cup {"neg"})
      BY <2>1, FS_AddElement
    <2>3. Branch \subseteq {"pos"} \cup {"neg"}
      BY BranchAssumption
    <2> QED BY <2>2, <2>3, FS_Subset
  <1>2. IsFiniteSet((S \X Branch) \X (1..n))
    <2>1. IsFiniteSet(1..n)
      BY FS_Interval
    <2> QED BY <1>1, <2>1, FS_Product
  <1>3. Table(k, S) \subseteq (S \X Branch) \X (1..n)
    <2> SUFFICES ASSUME NEW x \in Table(k, S) PROVE x \in (S \X Branch) \X (1..n)
      OBVIOUS
    <2>1. PICK s \in S, b \in Branch : \E i \in 1..k[s].blocks[b] : x = <<<<s, b>>, i>>
      BY TableMember
    <2>2. PICK i \in 1..k[s].blocks[b] : x = <<<<s, b>>, i>>
      BY <2>1
    <2>3. i \in 1..n
      <3>1. k[s].blocks[b] \in Nat /\ k[s].blocks[b] <= n
        OBVIOUS
      <3> QED BY <3>1
    <2> QED BY <2>2, <2>3
  <1> QED BY <1>2, <1>3, FS_Subset, FS_CardinalityType

\* The keys of an order are sessions ...
LEMMA HeldType == ASSUME NEW q \in Seq(Session) PROVE Held(q) \in SUBSET Session
  BY DEF Held

\* ... and finitely many.
LEMMA HeldFinite ==
    ASSUME NEW q \in Seq(Session)
    PROVE  IsFiniteSet(Held(q))
  <1>1. Len(q) \in Nat /\ DOMAIN q = 1..Len(q) /\ IsFiniteSet(1..Len(q))
    BY FS_Interval
  <1>2. Held(q) = {q[i] : i \in 1..Len(q)}
    BY <1>1 DEF Held
  <1>3. q \in [1..Len(q) -> Held(q)]
    BY <1>1 DEF Held
  <1>4. q \in Surjection(1..Len(q), Held(q))
    BY <1>2, <1>3 DEF Surjection
  <1> QED BY <1>1, <1>4, FS_Surjection

\* Emptying the tables of S gives back what they held.
LEMMA TableReleased ==
    ASSUME NEW k, NEW l, NEW S \in SUBSET Session, IsFiniteSet(Table(k, Session)),
           \A s \in S : \A b \in Branch : l[s].blocks[b] = 0,
           \A s \in Session \ S : l[s].blocks = k[s].blocks
    PROVE  /\ IsFiniteSet(Table(l, Session))
           /\ Cardinality(Table(k, S)) \in Nat
           /\ Cardinality(Table(l, Session)) + Cardinality(Table(k, S)) = Cardinality(Table(k, Session))
  <1> DEFINE A == Table(k, Session)
             B == Table(k, S)
             C == Table(l, Session)
  <1>1. B \subseteq A
    BY DEF Table
  <1>2. C = A \ B
    <2>1. ASSUME NEW x \in C PROVE x \in A \ B
      <3>1. PICK s \in Session, b \in Branch : \E i \in 1..l[s].blocks[b] : x = <<<<s, b>>, i>>
        BY TableMember
      <3>2. PICK i \in 1..l[s].blocks[b] : x = <<<<s, b>>, i>>
        BY <3>1
      <3>3. s \notin S
        BY <3>2
      <3>4. i \in 1..k[s].blocks[b]
        BY <3>3
      <3>5. x \in A
        BY <3>2, <3>4, TableMember
      <3>6. x \notin B
        <4> SUFFICES ASSUME x \in B PROVE FALSE
          OBVIOUS
        <4>1. PICK t \in S, c \in Branch : \E j \in 1..k[t].blocks[c] : x = <<<<t, c>>, j>>
          BY TableMember
        <4> QED BY <3>2, <3>3, <4>1
      <3> QED BY <3>5, <3>6
    <2>2. ASSUME NEW x \in A, x \notin B PROVE x \in C
      <3>1. PICK s \in Session, b \in Branch : \E i \in 1..k[s].blocks[b] : x = <<<<s, b>>, i>>
        BY TableMember
      <3>2. s \notin S
        BY <2>2, <3>1, TableMember
      <3>3. \E i \in 1..l[s].blocks[b] : x = <<<<s, b>>, i>>
        BY <3>1, <3>2
      <3> QED BY <3>3, TableMember
    <2> QED BY <2>1, <2>2
  <1> HIDE DEF A, B, C
  <1>3. IsFiniteSet(A) /\ A \cap B = B
    BY <1>1 DEF A
  <1>4. IsFiniteSet(C) /\ Cardinality(C) = Cardinality(A) - Cardinality(B)
    <2>1. IsFiniteSet(A \ B) /\ Cardinality(A \ B) = Cardinality(A) - Cardinality(A \cap B)
      BY <1>3, FS_Difference
    <2> QED BY <1>2, <1>3, <2>1
  <1>5. IsFiniteSet(B) /\ Cardinality(A) \in Nat /\ Cardinality(B) \in Nat
    BY <1>1, <1>3, FS_Subset, FS_CardinalityType
  <1>6. Cardinality(C) + Cardinality(B) = Cardinality(A)
    BY <1>4, <1>5
  <1> QED BY <1>4, <1>5, <1>6 DEF A, B, C

\* One branch of one session has as many blocks as its table says.
LEMMA ColumnCount ==
    ASSUME NEW p, NEW n \in Nat
    PROVE  IsFiniteSet({p} \X (1..n)) /\ Cardinality({p} \X (1..n)) = n
  <1>1. IsFiniteSet({p}) /\ Cardinality({p}) = 1
    BY FS_Singleton
  <1>3. IsFiniteSet(1..n) /\ Cardinality(1..n) = n
    <2>1. 1 \in Int /\ n \in Int
      OBVIOUS
    <2>2. Cardinality(1..n) = IF 1 > n THEN 0 ELSE n - 1 + 1
      BY <2>1, FS_Interval
    <2> QED BY <2>1, <2>2, FS_Interval
  <1>2. /\ IsFiniteSet({p} \X (1..n))
        /\ Cardinality({p} \X (1..n)) = Cardinality({p}) * Cardinality(1..n)
    BY <1>1, <1>3, FS_Product, Zenon
  <1>4. Cardinality({p}) * Cardinality(1..n) = 1 * n
    BY <1>1, <1>3, Zenon
  <1>5. 1 * n = n
    OBVIOUS
  <1> QED BY <1>2, <1>4, <1>5, Zenon

\* The table of one branch goes from n blocks to m, every other stays.
LEMMA TableResized ==
    ASSUME NEW k, NEW l, IsFiniteSet(Table(k, Session)), NEW s \in Session, NEW b \in Branch,
           NEW n \in Nat, NEW m \in Nat, k[s].blocks[b] = n, l[s].blocks[b] = m,
           \A t \in Session : \A c \in Branch : t # s \/ c # b => l[t].blocks[c] = k[t].blocks[c]
    PROVE  /\ IsFiniteSet(Table(l, Session))
           /\ Cardinality(Table(l, Session)) = Cardinality(Table(k, Session)) - n + m
  <1> DEFINE A == Table(k, Session)
             C == Table(l, Session)
             X == {<<s, b>>} \X (1..n)
             Y == {<<s, b>>} \X (1..m)
  <1>1. X \subseteq A
    <2> SUFFICES ASSUME NEW x \in X PROVE x \in A
      OBVIOUS
    <2>1. \E i \in 1..k[s].blocks[b] : x = <<<<s, b>>, i>>
      OBVIOUS
    <2> QED BY <2>1, TableMember
  <1>2. C = (A \ X) \cup Y
    <2>1. ASSUME NEW x \in C PROVE x \in (A \ X) \cup Y
      <3>1. PICK t \in Session, c \in Branch : \E i \in 1..l[t].blocks[c] : x = <<<<t, c>>, i>>
        BY TableMember
      <3>2. PICK i \in 1..l[t].blocks[c] : x = <<<<t, c>>, i>>
        BY <3>1
      <3>3. CASE t = s /\ c = b
        BY <3>2, <3>3
      <3>4. CASE t # s \/ c # b
        <4>1. \E j \in 1..k[t].blocks[c] : x = <<<<t, c>>, j>>
          BY <3>2, <3>4
        <4>2. x \in A
          BY <4>1, TableMember
        <4>3. x \notin X
          BY <3>2, <3>4
        <4> QED BY <4>2, <4>3
      <3> QED BY <3>3, <3>4
    <2>2. ASSUME NEW x \in A, x \notin X PROVE x \in C
      <3>1. PICK t \in Session, c \in Branch : \E i \in 1..k[t].blocks[c] : x = <<<<t, c>>, i>>
        BY TableMember
      <3>2. t # s \/ c # b
        BY <2>2, <3>1
      <3>3. \E i \in 1..l[t].blocks[c] : x = <<<<t, c>>, i>>
        BY <3>1, <3>2
      <3> QED BY <3>3, TableMember
    <2>3. Y \subseteq C
      <3> SUFFICES ASSUME NEW x \in Y PROVE x \in C
        OBVIOUS
      <3>1. \E i \in 1..l[s].blocks[b] : x = <<<<s, b>>, i>>
        OBVIOUS
      <3> QED BY <3>1, TableMember
    <2> QED BY <2>1, <2>2, <2>3
  <1>3. (A \ X) \cap Y = {}
    <2> SUFFICES ASSUME NEW x \in A, x \notin X, x \in Y PROVE FALSE
      OBVIOUS
    <2>1. PICK t \in Session, c \in Branch : \E i \in 1..k[t].blocks[c] : x = <<<<t, c>>, i>>
      BY TableMember
    <2>2. t = s /\ c = b
      BY <2>1
    <2> QED BY <2>1, <2>2
  <1>4. IsFiniteSet(X) /\ Cardinality(X) = n /\ IsFiniteSet(Y) /\ Cardinality(Y) = m
    BY ColumnCount
  <1> HIDE DEF A, C, X, Y
  <1>5. IsFiniteSet(A) /\ Cardinality(A) \in Nat /\ A \cap X = X
    BY <1>1, FS_CardinalityType DEF A
  <1>6. IsFiniteSet(A \ X) /\ Cardinality(A \ X) = Cardinality(A) - n
    <2>1. IsFiniteSet(A \ X) /\ Cardinality(A \ X) = Cardinality(A) - Cardinality(A \cap X)
      BY <1>5, FS_Difference
    <2> QED BY <1>4, <1>5, <2>1
  <1>7. IsFiniteSet(C) /\ Cardinality(C) = Cardinality(A \ X) + Cardinality(Y) - Cardinality((A \ X) \cap Y)
    BY <1>2, <1>4, <1>6, FS_Union
  <1>8. Cardinality(C) = Cardinality(A) - n + m
    <2>1. Cardinality((A \ X) \cap Y) = 0
      BY <1>3, FS_EmptySet
    <2> QED BY <1>4, <1>5, <1>6, <1>7, <2>1
  <1> QED BY <1>7, <1>8 DEF A, C

-----------------------------------------------------------------------------
(* What every step of the worker keeps.                                      *)

KvShape == [frames : [Branch -> Nat], blocks : [Branch -> Nat], pending : SUBSET Branch,
            text : SUBSET Branch, img : SUBSET Branch]
CrossShape == [textBy : SUBSET Session, text : Prompt \cup {NegPrompt, Torn},
               imgBy : SUBSET Session, img : Clip \cup {Torn}]

\* The shapes of the variables a forward reads and writes.
TypeInv ==
    /\ kv \in [Session -> KvShape]
    /\ cross \in [Branch -> CrossShape]
    /\ dz \in [Session -> Carrier]
    /\ run \in [phase : Phase, sess : Session, carrier : Carrier, todo : SUBSET Branch]

\* A forward that has branches to run has one left, of those of its phase.
TodoInv ==
    /\ run.phase \in {"populate", "prefill", "written"} => run.todo # {}
    /\ run.phase \in {"prefill", "written"} => run.todo \subseteq LocalBranch
    /\ run.phase = "populate" => run.carrier.clip \in Clip /\ run.carrier.lang \in Prompt

\* The runner's order is the most recent part of the pipeline's, which uses the
\* session of a forward one step later.
OrderInv ==
    /\ sessions \in Seq(Session) /\ Distinct(sessions) /\ Len(sessions) <= MaxSessions
    /\ states \in Seq(Session) /\ Distinct(states) /\ Len(states) <= MaxSessions
    /\ run.phase # "idle" => Len(sessions) > 0 /\ sessions[Len(sessions)] = run.sess
    /\ EndsWith(IF run.phase = "attached" THEN MoveToEnd(states, run.sess) ELSE states, sessions)

\* The accounts of the pool, and how far the table of a branch can grow.
PoolInv ==
    /\ PoolAccounted
    /\ free \in 0..(NumBlocks - 1)
    /\ \A s \in Session : \A b \in Branch :
         /\ kv[s].blocks[b] <= Window + NFrames
         /\ b \notin LocalBranch => kv[s].blocks[b] = 0

\* Only the chunk being written is uncommitted.
PendingInv == \A s \in Session :
    kv[s].pending = IF run.phase = "written" /\ s = run.sess THEN {First(run.todo)} ELSE {}

WorkerInv == TypeInv /\ TodoInv /\ OrderInv /\ PoolInv /\ PendingInv

-----------------------------------------------------------------------------
(* The window, the choice among two branches, and the state close() leaves.  *)

\* The window is a number of frames and exceeds a chunk.
LEMMA WindowType == Window \in Nat /\ Chunks * NFrames \in Nat /\ Window > NFrames
  BY WindowAssumption, SMTT(30) DEF Window

\* The branch that runs first is one that is left.
LEMMA FirstIn == ASSUME NEW S \in SUBSET Branch, S # {} PROVE First(S) \in S
  BY BranchAssumption DEF First

\* The frames in the window are bounded by it and by those committed.
LEMMA InWindowType ==
    ASSUME TypeInv, NEW s \in Session, NEW b \in Branch
    PROVE  InWindow(s, b) \in Nat /\ InWindow(s, b) <= Window /\ InWindow(s, b) <= kv[s].frames[b]
  <1> DEFINE f == kv[s].frames[b]
  <1>1. f \in Nat /\ Window \in Nat
    BY WindowType DEF TypeInv, KvShape
  <1>2. \E x \in {f, Window} : \A y \in {f, Window} : x <= y
    BY <1>1
  <1>3. Min({f, Window}) \in {f, Window} /\ \A y \in {f, Window} : Min({f, Window}) <= y
    BY <1>2 DEF Min
  <1> QED BY <1>1, <1>3 DEF InWindow

\* A forward commits some frames and at most a chunk.
LEMMA CommitType == ASSUME TypeInv PROVE FramesToCommit \in Nat \ {0} /\ FramesToCommit <= NFrames
  BY WindowAssumption DEF FramesToCommit, TypeInv, Carrier

\* A state without any K/V.
LEMMA FreshKvType == FreshKv \in KvShape /\ FreshKv.pending = {} /\ FreshKv.text = {} /\ FreshKv.img = {}
                     /\ \A b \in Branch : FreshKv.frames[b] = 0 /\ FreshKv.blocks[b] = 0
  BY DEF FreshKv, KvShape

\* The resident blocks are finitely many, whatever the set of sessions.
LEMMA ResidentFinite ==
    ASSUME WorkerInv
    PROVE  /\ IsFiniteSet(Table(kv, Session)) /\ Cardinality(Table(kv, Session)) \in Nat
           /\ free + Cardinality(Table(kv, Session)) = NumBlocks - 1
           /\ \A s \in Session \ Held(sessions) : \A b \in Branch : kv[s].blocks[b] = 0
  <1>1. \A s \in Session : \A b \in Branch : kv[s].blocks[b] \in Nat /\ kv[s].blocks[b] <= Window + NFrames
    BY DEF WorkerInv, TypeInv, PoolInv, KvShape
  <1>2. Window + NFrames \in Nat
    BY WindowType, WindowAssumption
  <1>3. Held(sessions) \subseteq Session /\ IsFiniteSet(Held(sessions))
    BY HeldFinite DEF WorkerInv, OrderInv, Held
  <1>4. /\ free + Cardinality(Table(kv, Session)) = NumBlocks - 1
        /\ Table(kv, Session \ Held(sessions)) = {}
    BY DEF WorkerInv, PoolInv, PoolAccounted, Resident, Table
  <1>5. \A s \in Session \ Held(sessions) : \A b \in Branch : kv[s].blocks[b] = 0
    BY <1>1, <1>4, TableEmpty
  <1>6. Table(kv, Session) = Table(kv, Held(sessions))
    <2>1. Table(kv, Session) \subseteq Table(kv, Held(sessions))
      <3> SUFFICES ASSUME NEW x \in Table(kv, Session) PROVE x \in Table(kv, Held(sessions))
        OBVIOUS
      <3>1. PICK s \in Session, b \in Branch : \E i \in 1..kv[s].blocks[b] : x = <<<<s, b>>, i>>
        BY TableMember
      <3>2. s \in Held(sessions)
        <4> SUFFICES ASSUME s \notin Held(sessions) PROVE FALSE
          OBVIOUS
        <4>1. kv[s].blocks[b] = 0
          BY <1>5
        <4> QED BY <3>1, <4>1
      <3> QED BY <3>1, <3>2, TableMember
    <2>2. Table(kv, Held(sessions)) \subseteq Table(kv, Session)
      BY <1>3, TableMember
    <2> QED BY <2>1, <2>2
  <1>7. IsFiniteSet(Table(kv, Held(sessions))) /\ Cardinality(Table(kv, Held(sessions))) \in Nat
    BY <1>1, <1>2, <1>3, TableFinite
  <1> QED BY <1>4, <1>5, <1>6, <1>7

\* The pool's part of the invariant, from what a step did to the tables.
LEMMA PoolKept ==
    ASSUME NEW k \in [Session -> KvShape], NEW f \in Int, NEW S, S \subseteq Session,
           IsFiniteSet(Table(k, Session)), f >= 0,
           f + Cardinality(Table(k, Session)) = NumBlocks - 1,
           \A s \in Session \ S : \A b \in Branch : k[s].blocks[b] = 0
    PROVE  /\ f \in 0..(NumBlocks - 1)
           /\ Table(k, Session \ S) = {}
  <1>1. Cardinality(Table(k, Session)) \in Nat
    BY FS_CardinalityType
  <1>2. f \in 0..(NumBlocks - 1)
    BY <1>1, PoolAssumption
  <1>3. \A s \in Session \ S : \A b \in Branch : k[s].blocks[b] \in Nat
    BY DEF KvShape
  <1>4. Table(k, Session \ S) = {}
    BY <1>3, TableEmpty
  <1> QED BY <1>2, <1>4

\* What close() leaves of a set of sessions.
LEMMA CloseEffect ==
    ASSUME TypeInv, NEW S, Close(S)
    PROVE  /\ kv' \in [Session -> KvShape]
           /\ \A s \in Session : kv'[s] = IF s \in S THEN FreshKv ELSE kv[s]
  BY FreshKvType DEF Close, TypeInv

\* close() gives every block of the sessions it tears down back to the pool.
LEMMA CloseBlocks ==
    ASSUME WorkerInv, NEW S \in SUBSET Session, Close(S), NEW H \in SUBSET Session,
           Held(sessions) \subseteq H \cup S
    PROVE  /\ free' \in 0..(NumBlocks - 1)
           /\ free' + Cardinality(Table(kv', Session)) = NumBlocks - 1
           /\ Table(kv', Session \ H) = {}
           /\ \A s \in Session : \A b \in Branch :
                /\ kv'[s].blocks[b] <= Window + NFrames
                /\ b \notin LocalBranch => kv'[s].blocks[b] = 0
  <1>1. /\ kv' \in [Session -> KvShape]
        /\ \A s \in Session : kv'[s] = IF s \in S THEN FreshKv ELSE kv[s]
    BY CloseEffect DEF WorkerInv
  <1>2. free' = free + Cardinality(Table(kv, S))
    BY DEF Close, Resident, Table
  <1>3. /\ IsFiniteSet(Table(kv', Session)) /\ Cardinality(Table(kv, S)) \in Nat
        /\ Cardinality(Table(kv', Session)) + Cardinality(Table(kv, S)) = Cardinality(Table(kv, Session))
    <2>1. \A s \in S : \A b \in Branch : kv'[s].blocks[b] = 0
      BY <1>1, FreshKvType
    <2>2. \A s \in Session \ S : kv'[s].blocks = kv[s].blocks
      BY <1>1
    <2> QED BY <2>1, <2>2, ResidentFinite, TableReleased
  <1>4. free \in Nat /\ Cardinality(Table(kv', Session)) \in Nat
    BY <1>3, FS_CardinalityType DEF WorkerInv, PoolInv
  <1>5. /\ free' \in Int /\ free' >= 0 /\ free' + Cardinality(Table(kv', Session)) = NumBlocks - 1
    BY <1>2, <1>3, <1>4, ResidentFinite
  <1>6. \A s \in Session \ H : \A b \in Branch : kv'[s].blocks[b] = 0
    BY <1>1, FreshKvType, ResidentFinite
  <1>7. \A s \in Session : \A b \in Branch :
                /\ kv'[s].blocks[b] <= Window + NFrames
                /\ b \notin LocalBranch => kv'[s].blocks[b] = 0
    <2>1. 0 <= Window + NFrames
      BY WindowType, WindowAssumption
    <2> QED BY <1>1, <2>1, FreshKvType DEF WorkerInv, PoolInv
  <1> HIDE DEF Table
  <1> QED BY <1>1, <1>3, <1>5, <1>6, <1>7, PoolKept

\* The pool's part of the invariant after a step, on the tables it leaves.
LEMMA PoolNext ==
    ASSUME free' \in 0..(NumBlocks - 1),
           free' + Cardinality(Table(kv', Session)) = NumBlocks - 1,
           Table(kv', Session \ Held(sessions')) = {},
           \A s \in Session : \A b \in Branch :
                /\ kv'[s].blocks[b] <= Window + NFrames
                /\ b \notin LocalBranch => kv'[s].blocks[b] = 0
    PROVE  PoolInv'
  <1>1. Resident(Session)' = Table(kv', Session)
    BY DEF Resident, Table
  <1>2. Resident(Session \ Held(sessions))' = Table(kv', Session \ Held(sessions'))
    BY DEF Resident, Table, Held
  <1>3. PoolAccounted'
    BY <1>1, <1>2 DEF PoolAccounted
  <1> QED BY <1>3 DEF PoolInv

\* Attaching a session evicts at most the least recent one and closes it.
LEMMA AttachWorker ==
    ASSUME WorkerInv, NEW s \in Session, Attach(s)
    PROVE  WorkerInv'
  <1> DEFINE used == MoveToEnd(sessions, s)
  <1>0. /\ run.phase = "idle" /\ run' = [Idle EXCEPT !.phase = "attached", !.sess = s]
        /\ sessions' = Kept(used) /\ Close(Evicted(used))
        /\ cross' = cross /\ dz' = dz /\ states' = states
    BY DEF Attach
  <1>1. run'.phase = "attached" /\ run'.sess = s
    BY <1>0 DEF Idle
  <1>2. TypeInv'
    BY <1>0, CloseEffect, SessionAssumption DEF WorkerInv, TypeInv, Idle, FreshModel, Phase, Carrier
  <1>3. TodoInv'
    BY <1>1 DEF TodoInv
  <1>4. /\ used \in Seq(Session) /\ Distinct(used) /\ Len(used) > 0 /\ Len(used) <= MaxSessions + 1
        /\ used[Len(used)] = s /\ Held(used) = Held(sessions) \cup {s}
    <2>1. sessions \in Seq(Session) /\ Distinct(sessions) /\ Len(sessions) <= MaxSessions
      BY DEF WorkerInv, OrderInv
    <2>2. /\ used \in Seq(Session) /\ Distinct(used) /\ Len(used) > 0 /\ Len(used) <= Len(sessions) + 1
          /\ used[Len(used)] = s /\ Held(used) = Held(sessions) \cup {s}
      BY <2>1, MoveEffect
    <2> HIDE DEF used
    <2> QED BY <2>1, <2>2, SessionAssumption
  <1> HIDE DEF used
  <1>5. OrderInv'
    <2>1. EndsWith(MoveToEnd(states, s), used)
      BY <1>0, EndsMove DEF WorkerInv, OrderInv, used
    <2>2. EndsWith(used, Kept(used)) /\ Kept(used) \in Seq(Session)
      BY <1>4, KeptEffect
    <2>3. MoveToEnd(states, s) \in Seq(Session)
      BY MoveEffect DEF WorkerInv, OrderInv
    <2>4. EndsWith(MoveToEnd(states, s), Kept(used))
      BY <1>4, <2>1, <2>2, <2>3, EndsChain
    <2> QED BY <1>0, <1>1, <1>4, <2>4, KeptEffect DEF WorkerInv, OrderInv
  <1>6. PoolInv'
    <2>1. /\ Held(sessions) \subseteq Held(sessions') \cup Evicted(used)
          /\ Held(sessions') \in SUBSET Session /\ Evicted(used) \in SUBSET Session
      <3>1. /\ Held(used) = Held(Kept(used)) \cup Evicted(used) /\ Evicted(used) \subseteq Session
            /\ Kept(used) \in Seq(Session)
        BY <1>4, KeptEffect
      <3> QED BY <1>0, <1>4, <3>1, HeldType
    <2> QED BY <1>0, <2>1, CloseBlocks, PoolNext
  <1>7. PendingInv'
    BY <1>0, <1>1, CloseEffect, FreshKvType DEF WorkerInv, PendingInv
  <1> QED BY <1>2, <1>3, <1>5, <1>6, <1>7 DEF WorkerInv

\* One branch of the cross pool after a write, field by field.
LEMMA CrossEffect ==
    ASSUME TypeInv, NEW b \in Branch, NEW x, NEW y
    PROVE  LET w == CrossWritten(b, x, y)
           IN  /\ w.textBy = IF b \in kv[run.sess].text THEN cross[b].textBy ELSE {run.sess}
               /\ w.text = IF b \in kv[run.sess].text THEN cross[b].text ELSE x
               /\ w.imgBy = IF b \in kv[run.sess].img THEN cross[b].imgBy ELSE {run.sess}
               /\ w.img = IF b \in kv[run.sess].img THEN cross[b].img ELSE y
  BY DEF TypeInv, CrossShape, CrossWritten

\* A write keeps the shape of the cross pool.
LEMMA CrossType ==
    ASSUME TypeInv, NEW b \in Branch,
           NEW x \in Prompt \cup {NegPrompt, Torn}, NEW y \in Clip \cup {Torn}
    PROVE  CrossWritten(b, x, y) \in CrossShape
  <1> DEFINE s == run.sess
             c == cross[b]
             u == [c EXCEPT !.textBy = {s}, !.text = x]
  <1>1. c \in CrossShape /\ s \in Session
    BY DEF TypeInv
  <1>2. u \in CrossShape
    BY <1>1 DEF CrossShape
  <1>3. \A v \in CrossShape : [v EXCEPT !.imgBy = {s}, !.img = y] \in CrossShape
    BY <1>1 DEF CrossShape
  <1> HIDE DEF u
  <1>4. CASE b \in kv[s].text
    BY <1>1, <1>3, <1>4 DEF CrossWritten
  <1>5. CASE b \notin kv[s].text
    BY <1>2, <1>3, <1>5 DEF CrossWritten, u
  <1> QED BY <1>4, <1>5

\* The teardown takes the session out of both orders and closes it.
LEMMA FailWorker ==
    ASSUME WorkerInv, Fail
    PROVE  WorkerInv'
  <1> DEFINE s == run.sess
             b == First(run.todo)
  <1>0. /\ run.phase # "idle" /\ run' = Idle /\ Close({s}) /\ s \in Session
        /\ sessions' = RemoveFirst(sessions, s) /\ states' = RemoveFirst(states, s)
        /\ dz' = [dz EXCEPT ![s] = FreshModel]
        /\ \/ cross' = cross
           \/ /\ run.phase = "populate"
              /\ cross' = [cross EXCEPT ![b] = CrossWritten(b, Torn, Torn)]
    BY DEF Fail, WorkerInv, TypeInv
  <1>1. run'.phase = "idle"
    BY <1>0 DEF Idle
  <1>2. TypeInv'
    <2>1. run.phase = "populate" => b \in Branch
      BY FirstIn DEF WorkerInv, TodoInv, TypeInv
    <2>2. run.phase = "populate" => CrossWritten(b, Torn, Torn) \in CrossShape
      BY <2>1, CrossType DEF WorkerInv
    <2>3. cross' \in [Branch -> CrossShape]
      BY <1>0, <2>1, <2>2 DEF WorkerInv, TypeInv
    <2> QED BY <1>0, <1>1, <2>3, CloseEffect, SessionAssumption
            DEF WorkerInv, TypeInv, Idle, FreshModel, Phase, Carrier
  <1>3. TodoInv'
    BY <1>1 DEF TodoInv
  <1>4. OrderInv'
    <2>1. /\ sessions' \in Seq(Session) /\ Distinct(sessions') /\ Len(sessions') <= MaxSessions
          /\ states' \in Seq(Session) /\ Distinct(states') /\ Len(states') <= MaxSessions
      <3>1. /\ Len(RemoveFirst(sessions, s)) <= Len(sessions) /\ Len(RemoveFirst(states, s)) <= Len(states)
            /\ RemoveFirst(sessions, s) \in Seq(Session) /\ RemoveFirst(states, s) \in Seq(Session)
            /\ Distinct(RemoveFirst(sessions, s)) /\ Distinct(RemoveFirst(states, s))
        BY RemoveEffect, RemoveHeld DEF WorkerInv, OrderInv
      <3> QED BY <1>0, <3>1, SessionAssumption DEF WorkerInv, OrderInv
    <2>2. EndsWith(states', sessions')
      <3>1. CASE run.phase = "attached"
        <4> DEFINE m == MoveToEnd(states, s)
        <4>1. m \in Seq(Session) /\ Distinct(m) /\ RemoveFirst(m, s) = RemoveFirst(states, s)
          BY <1>0, MoveEffect DEF WorkerInv, OrderInv
        <4>2. EndsWith(m, sessions)
          BY <3>1 DEF WorkerInv, OrderInv
        <4> HIDE DEF m
        <4>3. EndsWith(RemoveFirst(m, s), RemoveFirst(sessions, s))
          BY <4>1, <4>2, EndsRemove DEF WorkerInv, OrderInv
        <4> QED BY <1>0, <4>1, <4>3
      <3>2. CASE run.phase # "attached"
        BY <1>0, <3>2, EndsRemove DEF WorkerInv, OrderInv
      <3> QED BY <3>1, <3>2
    <2> QED BY <1>1, <2>1, <2>2 DEF OrderInv
  <1>5. PoolInv'
    <2>1. /\ Held(sessions) \subseteq Held(sessions') \cup {s} /\ Held(sessions') \in SUBSET Session
          /\ {s} \in SUBSET Session
      <3>1. /\ Held(RemoveFirst(sessions, s)) = Held(sessions) \ {s}
            /\ Held(sessions) \in SUBSET Session
        BY RemoveHeld, HeldType DEF WorkerInv, OrderInv
      <3> QED BY <1>0, <3>1
    <2> QED BY <1>0, <2>1, CloseBlocks, PoolNext
  <1>6. PendingInv'
    BY <1>0, <1>1, CloseEffect, FreshKvType DEF WorkerInv, PendingInv
  <1> QED BY <1>2, <1>3, <1>4, <1>5, <1>6 DEF WorkerInv

\* The session that runs does not find its model state evicted, and what
\* _get_or_create_state evicts is fresh.
LEMMA UseStateEffect ==
    ASSUME TypeInv, NEW s \in Session, NEW m, UseState(s, m)
    PROVE  /\ dz' = [t \in Session |-> dz'[t]]
           /\ \A t \in Session : (t = s /\ dz'[t] = m) \/ (t # s /\ dz'[t] \in {dz[t], FreshModel})
  BY DEF UseState

\* What reset() leaves of a session, by reason.
LEMMA ResetKvEffect ==
    ASSUME TypeInv, NEW s \in Session, NEW reason, ResetKv(s, reason)
    PROVE  /\ kv' \in [Session -> KvShape]
           /\ \A t \in Session \ {s} : kv'[t] = kv[t]
           /\ reason = "none" => kv'[s] = kv[s]
           /\ reason # "none" => /\ kv'[s].pending = {} /\ kv'[s].img = {}
                                 /\ kv'[s].text = IF reason = "inference" THEN kv[s].text ELSE {}
                                 /\ \A b \in Branch : kv'[s].frames[b] = 0 /\ kv'[s].blocks[b] = 0
  <1>1. CASE reason = "none"
    BY <1>1 DEF ResetKv, TypeInv
  <1>2. CASE reason # "none"
    <2> DEFINE k == [FreshKv EXCEPT !.text = IF reason = "inference" THEN kv[s].text ELSE {}]
    <2>1. kv' = [kv EXCEPT ![s] = k]
      BY <1>2 DEF ResetKv
    <2>2. /\ k \in KvShape /\ k.pending = {} /\ k.img = {}
          /\ \A b \in Branch : k.frames[b] = 0 /\ k.blocks[b] = 0
          /\ k.text = IF reason = "inference" THEN kv[s].text ELSE {}
      BY DEF FreshKv, KvShape, TypeInv
    <2> HIDE DEF k
    <2> QED BY <1>2, <2>1, <2>2 DEF TypeInv
  <1> QED BY <1>1, <1>2

\* A step that leaves the block tables, the orders and the free count alone.
LEMMA PoolSame ==
    ASSUME WorkerInv, kv' \in [Session -> KvShape], \A t \in Session : kv'[t].blocks = kv[t].blocks,
           free' = free, sessions' = sessions
    PROVE  PoolInv'
  <1>1. Table(kv', Session) = Table(kv, Session)
    BY DEF Table
  <1>2. Table(kv', Session \ Held(sessions')) = Table(kv, Session \ Held(sessions))
    BY DEF Table
  <1>3. /\ free + Cardinality(Table(kv, Session)) = NumBlocks - 1
        /\ Table(kv, Session \ Held(sessions)) = {}
    BY DEF WorkerInv, PoolInv, PoolAccounted, Resident, Table
  <1> QED BY <1>1, <1>2, <1>3, PoolNext DEF WorkerInv, PoolInv

\* The forward starts: the session's model state is used and the reset applied.
LEMMA BeginWorker ==
    ASSUME WorkerInv, run.phase = "attached", NEW m \in Carrier, NEW c \in Carrier, NEW reason,
           c.csf = 0 => c.clip \in Clip /\ c.lang \in Prompt,
           UseState(run.sess, m), ResetKv(run.sess, reason), StartForward(run.sess, c),
           sessions' = sessions, cross' = cross
    PROVE  WorkerInv'
  <1> DEFINE s == run.sess
             used == MoveToEnd(states, s)
  <1>0. s \in Session /\ states' = Kept(used)
    BY DEF WorkerInv, TypeInv, UseState
  <1>1. /\ run'.sess = s /\ run'.carrier = c
        /\ c.csf = 0 => run'.phase = "populate" /\ run'.todo = Branch
        /\ c.csf # 0 => run'.phase = "prefill" /\ run'.todo = LocalBranch
        /\ run' \in [phase : Phase, sess : Session, carrier : Carrier, todo : SUBSET Branch]
    BY <1>0, BranchAssumption DEF StartForward, Phase
  <1>2. TypeInv'
    <2>1. dz' \in [Session -> Carrier]
      BY <1>0, UseStateEffect DEF WorkerInv, TypeInv, FreshModel, Carrier
    <2> QED BY <1>0, <1>1, <2>1, ResetKvEffect DEF WorkerInv, TypeInv
  <1>3. TodoInv'
    BY <1>1, BranchAssumption DEF TodoInv
  <1>4. OrderInv'
    <2>1. /\ sessions \in Seq(Session) /\ Len(sessions) <= MaxSessions /\ EndsWith(used, sessions)
          /\ states \in Seq(Session) /\ Distinct(states) /\ Len(states) <= MaxSessions
      BY DEF WorkerInv, OrderInv
    <2>2. used \in Seq(Session) /\ Distinct(used) /\ Len(used) > 0 /\ Len(used) <= Len(states) + 1
      BY <1>0, <2>1, MoveEffect
    <2> HIDE DEF used
    <2>3. Len(used) <= MaxSessions + 1
      BY <2>1, <2>2, SessionAssumption
    <2>4. EndsWith(Kept(used), sessions)
      BY <2>1, <2>2, EndsKept
    <2>5. Kept(used) \in Seq(Session) /\ Distinct(Kept(used)) /\ Len(Kept(used)) <= MaxSessions
      BY <2>2, <2>3, KeptEffect
    <2>6. run'.phase # "attached" /\ run'.phase # "idle"
      BY <1>1
    <2> QED BY <1>0, <1>1, <2>4, <2>5, <2>6 DEF WorkerInv, OrderInv
  <1>5. PoolInv'
    <2>1. CASE reason = "none"
      <3>1. kv' = kv /\ free' = free
        BY <2>1 DEF ResetKv
      <3> QED BY <3>1, PoolSame DEF WorkerInv, TypeInv
    <2>2. CASE reason # "none"
      <3>1. /\ kv' \in [Session -> KvShape] /\ \A t \in Session \ {s} : kv'[t] = kv[t]
            /\ \A b \in Branch : kv'[s].blocks[b] = 0
        BY <1>0, <2>2, ResetKvEffect DEF WorkerInv
      <3>2. free' = free + Cardinality(Table(kv, {s}))
        BY <2>2 DEF ResetKv, Resident, Table
      <3>3. /\ IsFiniteSet(Table(kv', Session)) /\ Cardinality(Table(kv, {s})) \in Nat
            /\ Cardinality(Table(kv', Session)) + Cardinality(Table(kv, {s})) = Cardinality(Table(kv, Session))
        <4>1. \A t \in {s} : \A b \in Branch : kv'[t].blocks[b] = 0
          BY <3>1
        <4>2. \A t \in Session \ {s} : kv'[t].blocks = kv[t].blocks
          BY <3>1
        <4>3. {s} \in SUBSET Session /\ IsFiniteSet(Table(kv, Session))
          BY <1>0, ResidentFinite
        <4> QED BY <4>1, <4>2, <4>3, TableReleased
      <3>4. free \in Nat /\ Cardinality(Table(kv', Session)) \in Nat
        BY <3>3, FS_CardinalityType DEF WorkerInv, PoolInv
      <3>5. free' \in Int /\ free' >= 0 /\ free' + Cardinality(Table(kv', Session)) = NumBlocks - 1
        BY <3>2, <3>3, <3>4, ResidentFinite
      <3>6. \A t \in Session \ Held(sessions') : \A b \in Branch : kv'[t].blocks[b] = 0
        BY <3>1, ResidentFinite
      <3>7. Held(sessions') \subseteq Session
        BY HeldType DEF WorkerInv, OrderInv
      <3>8. \A t \in Session : \A b \in Branch :
                /\ kv'[t].blocks[b] <= Window + NFrames
                /\ b \notin LocalBranch => kv'[t].blocks[b] = 0
        <4>1. 0 <= Window + NFrames
          BY WindowType, WindowAssumption
        <4> QED BY <3>1, <4>1 DEF WorkerInv, PoolInv
      <3>9. free' \in 0..(NumBlocks - 1) /\ Table(kv', Session \ Held(sessions')) = {}
        BY <3>1, <3>3, <3>5, <3>6, <3>7, PoolKept
      <3> QED BY <3>5, <3>8, <3>9, PoolNext
    <2> QED BY <2>1, <2>2
  <1>6. PendingInv'
    <2>1. run'.phase # "written"
      BY <1>1
    <2> SUFFICES ASSUME NEW t \in Session PROVE kv'[t].pending = {}
      BY <2>1 DEF PendingInv
    <2>2. kv[t].pending = {}
      BY DEF WorkerInv, PendingInv
    <2> QED BY <1>0, <2>2, ResetKvEffect DEF WorkerInv
  <1> QED BY <1>2, <1>3, <1>4, <1>5, <1>6 DEF WorkerInv

\* What populating one branch leaves, field by field.
LEMMA PopulateEffect ==
    ASSUME TypeInv, NEW b \in Branch, Populate(b)
    PROVE  LET s == run.sess
           IN  /\ kv' \in [Session -> KvShape]
               /\ \A t \in Session :
                    /\ kv'[t].frames = kv[t].frames /\ kv'[t].blocks = kv[t].blocks
                    /\ kv'[t].pending = kv[t].pending
                    /\ t # s => kv'[t] = kv[t]
               /\ kv'[s].text = kv[s].text \cup {b} /\ kv'[s].img = kv[s].img \cup {b}
               /\ run'.sess = s /\ run'.carrier = run.carrier
               /\ run.todo = {b} \/ run.todo = {} => run'.phase = "prefill" /\ run'.todo = LocalBranch
               /\ run.todo # {b} /\ run.todo # {} => run'.phase = "populate" /\ run'.todo = run.todo \ {b}
               /\ run' \in [phase : Phase, sess : Session, carrier : Carrier, todo : SUBSET Branch]
  <1> DEFINE s == run.sess
             rest == run.todo \ {b}
             k == [kv[s] EXCEPT !.text = @ \cup {b}, !.img = @ \cup {b}]
  <1>1. /\ kv' = [kv EXCEPT ![s] = k]
        /\ run.phase = "populate"
        /\ run' = IF rest = {} THEN [run EXCEPT !.phase = "prefill", !.todo = LocalBranch]
                  ELSE [run EXCEPT !.todo = rest]
    BY DEF Populate
  <1>2. kv \in [Session -> KvShape] /\ s \in Session /\ kv[s] \in KvShape
    BY DEF TypeInv
  <1>3. /\ k \in KvShape /\ k.frames = kv[s].frames /\ k.blocks = kv[s].blocks /\ k.pending = kv[s].pending
        /\ k.text = kv[s].text \cup {b} /\ k.img = kv[s].img \cup {b}
    BY <1>2 DEF KvShape
  <1>4. /\ run'.sess = s /\ run'.carrier = run.carrier
        /\ rest = {} => run'.phase = "prefill" /\ run'.todo = LocalBranch
        /\ rest # {} => run'.phase = "populate" /\ run'.todo = rest
        /\ run' \in [phase : Phase, sess : Session, carrier : Carrier, todo : SUBSET Branch]
    BY <1>1, BranchAssumption DEF TypeInv, Phase
  <1>5. rest = {} <=> (run.todo = {b} \/ run.todo = {})
    OBVIOUS
  <1> HIDE DEF k
  <1>6. /\ kv' \in [Session -> KvShape] /\ kv'[s] = k /\ \A t \in Session : t # s => kv'[t] = kv[t]
    BY <1>1, <1>2, <1>3
  <1> QED BY <1>3, <1>4, <1>5, <1>6

\* Populating moves no block.
LEMMA PopulateWorker ==
    ASSUME WorkerInv, NEW b \in Branch, Populate(b)
    PROVE  WorkerInv'
  <1> DEFINE s == run.sess
             w == CrossWritten(b, TextOf(b), run.carrier.clip)
  <1>0. /\ run.phase = "populate" /\ s \in Session /\ cross' = [cross EXCEPT ![b] = w]
        /\ dz' = dz /\ free' = free /\ sessions' = sessions /\ states' = states
        /\ b = First(run.todo)
    BY DEF Populate, WorkerInv, TypeInv
  <1>1. /\ kv' \in [Session -> KvShape] /\ \A t \in Session : kv'[t].blocks = kv[t].blocks
        /\ run'.sess = s /\ run'.carrier = run.carrier
        /\ run.todo = {b} \/ run.todo = {} => run'.phase = "prefill" /\ run'.todo = LocalBranch
        /\ run.todo # {b} /\ run.todo # {} => run'.phase = "populate" /\ run'.todo = run.todo \ {b}
        /\ run' \in [phase : Phase, sess : Session, carrier : Carrier, todo : SUBSET Branch]
    BY PopulateEffect DEF WorkerInv
  <1>2. TypeInv'
    <2>1. run.carrier.clip \in Clip /\ TextOf(b) \in Prompt \cup {NegPrompt}
      BY <1>0 DEF WorkerInv, TodoInv, TextOf
    <2>2. w \in CrossShape
      BY <2>1, CrossType DEF WorkerInv
    <2> QED BY <1>0, <1>1, <2>2 DEF WorkerInv, TypeInv
  <1>3. TodoInv'
    BY <1>0, <1>1, BranchAssumption DEF WorkerInv, TodoInv, TypeInv
  <1>4. OrderInv'
    <2>1. run'.phase # "attached" /\ run'.phase # "idle"
      BY <1>1
    <2> QED BY <1>0, <1>1, <2>1 DEF WorkerInv, OrderInv
  <1>5. PoolInv'
    BY <1>0, <1>1, PoolSame
  <1>6. PendingInv'
    <2>1. \A t \in Session : kv'[t].pending = kv[t].pending /\ kv[t].pending = {}
      BY <1>0, PopulateEffect DEF WorkerInv, PendingInv
    <2> QED BY <1>1, <2>1 DEF PendingInv
  <1> QED BY <1>2, <1>3, <1>4, <1>5, <1>6 DEF WorkerInv

\* What the forward of one branch that writes K/V leaves, field by field.
LEMMA PrefillEffect ==
    ASSUME TypeInv, NEW b \in Branch, Prefill(b)
    PROVE  LET s == run.sess
           IN  /\ kv' \in [Session -> KvShape]
               /\ \A t \in Session : /\ kv'[t].frames = kv[t].frames /\ kv'[t].text = kv[t].text
                                     /\ kv'[t].img = kv[t].img
                                     /\ t # s => kv'[t] = kv[t]
               /\ kv'[s].pending = kv[s].pending \cup {b}
               /\ \A c \in Branch : kv'[s].blocks[c] = IF c = b THEN InWindow(s, b) + FramesToCommit
                                                       ELSE kv[s].blocks[c]
               /\ run'.phase = "written" /\ run'.sess = s /\ run'.carrier = run.carrier /\ run'.todo = run.todo
               /\ run' \in [phase : Phase, sess : Session, carrier : Carrier, todo : SUBSET Branch]
  <1> DEFINE s == run.sess
             n == InWindow(s, b) + FramesToCommit
             f == [kv[s].blocks EXCEPT ![b] = n]
             k == [kv[s] EXCEPT !.blocks = f, !.pending = @ \cup {b}]
  <1>1. s \in Session /\ kv \in [Session -> KvShape] /\ kv[s] \in KvShape
    BY DEF TypeInv
  <1>2. n \in Nat
    BY <1>1, InWindowType, CommitType
  <1>3. kv' = [kv EXCEPT ![s] = k]
    BY DEF Prefill
  <1>4. /\ run'.phase = "written" /\ run'.sess = s /\ run'.carrier = run.carrier /\ run'.todo = run.todo
        /\ run' \in [phase : Phase, sess : Session, carrier : Carrier, todo : SUBSET Branch]
    BY DEF Prefill, TypeInv, Phase
  <1> HIDE DEF n
  <1>5. f \in [Branch -> Nat] /\ \A c \in Branch : f[c] = IF c = b THEN n ELSE kv[s].blocks[c]
    BY <1>1, <1>2 DEF KvShape
  <1> HIDE DEF f
  <1>6. /\ k \in KvShape /\ k.frames = kv[s].frames /\ k.text = kv[s].text /\ k.img = kv[s].img
        /\ k.pending = kv[s].pending \cup {b} /\ k.blocks = f
    BY <1>1, <1>5 DEF KvShape
  <1> HIDE DEF k
  <1>7. kv' \in [Session -> KvShape] /\ kv'[s] = k /\ \A t \in Session : t # s => kv'[t] = kv[t]
    BY <1>1, <1>3, <1>6
  <1> QED BY <1>4, <1>5, <1>6, <1>7 DEF n

\* Its blocks come out of the pool and its old ones go back.
LEMMA PrefillWorker ==
    ASSUME WorkerInv, NEW b \in Branch, Prefill(b)
    PROVE  WorkerInv'
  <1> DEFINE s == run.sess
             old == kv[s].blocks[b]
             new == InWindow(s, b) + FramesToCommit
  <1>0. /\ run.phase = "prefill" /\ s \in Session /\ b = First(run.todo)
        /\ HasRoom(s, b) /\ free' = FreeFor(s, b) - FramesToCommit
        /\ cross' = cross /\ dz' = dz /\ sessions' = sessions /\ states' = states
    BY DEF Prefill, WorkerInv, TypeInv
  <1>1. /\ kv' \in [Session -> KvShape]
        /\ \A t \in Session \ {s} : kv'[t] = kv[t]
        /\ \A c \in Branch : kv'[s].blocks[c] = IF c = b THEN new ELSE kv[s].blocks[c]
        /\ run'.phase = "written" /\ run'.sess = s /\ run'.carrier = run.carrier /\ run'.todo = run.todo
        /\ run' \in [phase : Phase, sess : Session, carrier : Carrier, todo : SUBSET Branch]
    BY PrefillEffect DEF WorkerInv
  <1>2. /\ old \in Nat /\ new \in Nat /\ new <= Window + NFrames /\ free \in Nat
        /\ InWindow(s, b) \in Nat /\ FramesToCommit \in Nat
    <2>1. InWindow(s, b) \in Nat /\ InWindow(s, b) <= Window /\ Window \in Nat
      BY <1>0, InWindowType, WindowType DEF WorkerInv
    <2>2. FramesToCommit \in Nat /\ FramesToCommit <= NFrames /\ NFrames \in Nat
      BY CommitType, WindowAssumption DEF WorkerInv
    <2>3. old \in Nat /\ free \in Nat
      BY <1>0 DEF WorkerInv, TypeInv, KvShape, PoolInv
    <2> QED BY <2>1, <2>2, <2>3
  <1>3. b \in LocalBranch
    BY <1>0, FirstIn DEF WorkerInv, TodoInv, TypeInv
  <1>4. TypeInv' /\ TodoInv'
    BY <1>0, <1>1 DEF WorkerInv, TypeInv, TodoInv
  <1>5. OrderInv'
    <2>1. run'.phase # "attached" /\ run'.phase # "idle"
      BY <1>1
    <2> QED BY <1>0, <1>1, <2>1 DEF WorkerInv, OrderInv
  <1>6. PoolInv'
    <2>1. /\ IsFiniteSet(Table(kv', Session))
          /\ Cardinality(Table(kv', Session)) = Cardinality(Table(kv, Session)) - old + new
      <3> HIDE DEF old, new
      <3>1. \A t \in Session : \A c \in Branch : t # s \/ c # b => kv'[t].blocks[c] = kv[t].blocks[c]
        BY <1>1
      <3>2. kv[s].blocks[b] = old /\ kv'[s].blocks[b] = new /\ IsFiniteSet(Table(kv, Session))
        BY <1>1, ResidentFinite DEF old
      <3> QED BY <1>0, <1>2, <3>1, <3>2, TableResized
    <2>2. free' = free + old - new /\ free' >= 0
      BY <1>0, <1>2 DEF HasRoom, FreeFor
    <2>3. /\ free + Cardinality(Table(kv, Session)) = NumBlocks - 1
          /\ Cardinality(Table(kv, Session)) \in Nat
      BY ResidentFinite
    <2> HIDE DEF old, new
    <2>4. free' \in Int /\ free' + Cardinality(Table(kv', Session)) = NumBlocks - 1
      BY <1>2, <2>1, <2>2, <2>3
    <2>5. \A t \in Session \ Held(sessions') : \A c \in Branch : kv'[t].blocks[c] = 0
      <3>1. s \in Held(sessions)
        BY <1>0 DEF WorkerInv, OrderInv, Held
      <3> QED BY <1>0, <1>1, <3>1, ResidentFinite
    <2>6. Held(sessions') \subseteq Session
      BY <1>0, HeldType DEF WorkerInv, OrderInv
    <2>7. free' \in 0..(NumBlocks - 1) /\ Table(kv', Session \ Held(sessions')) = {}
      BY <1>1, <2>1, <2>2, <2>4, <2>5, <2>6, PoolKept
    <2>8. \A t \in Session : \A c \in Branch :
            /\ kv'[t].blocks[c] <= Window + NFrames
            /\ c \notin LocalBranch => kv'[t].blocks[c] = 0
      BY <1>1, <1>2, <1>3 DEF WorkerInv, PoolInv
    <2> QED BY <2>4, <2>7, <2>8, PoolNext
  <1>7. PendingInv'
    <2>1. \A t \in Session : kv'[t].pending = IF t = s THEN {b} ELSE {}
      <3>1. \A t \in Session : kv[t].pending = {}
        BY <1>0 DEF WorkerInv, PendingInv
      <3>2. kv'[s].pending = kv[s].pending \cup {b} /\ \A t \in Session : t # s => kv'[t] = kv[t]
        BY PrefillEffect DEF WorkerInv
      <3> QED BY <1>0, <3>1, <3>2
    <2>2. First(run'.todo) = b
      BY <1>0, <1>1
    <2> QED BY <1>1, <2>1, <2>2 DEF PendingInv
  <1> QED BY <1>4, <1>5, <1>6, <1>7 DEF WorkerInv

\* What a commit leaves, field by field.
LEMMA CommitEffect ==
    ASSUME TypeInv, NEW b \in Branch, Commit(b)
    PROVE  LET s == run.sess
               rest == run.todo \ {b}
           IN  /\ kv' \in [Session -> KvShape]
               /\ \A t \in Session : kv'[t].blocks = kv[t].blocks
               /\ \A t \in Session \ {s} : kv'[t] = kv[t]
               /\ kv'[s].text = kv[s].text /\ kv'[s].img = kv[s].img /\ kv'[s].pending = kv[s].pending \ {b}
               /\ \A c \in Branch : kv'[s].frames[c] = IF c = b THEN kv[s].frames[c] + FramesToCommit
                                                       ELSE kv[s].frames[c]
               /\ run'.sess = s /\ run'.carrier = run.carrier /\ run'.todo = rest
               /\ run'.phase = IF rest = {} THEN "dit" ELSE "prefill"
               /\ run' \in [phase : Phase, sess : Session, carrier : Carrier, todo : SUBSET Branch]
               /\ dz' \in [Session -> Carrier]
               /\ \A t \in Session : dz'[t].lang = dz[t].lang /\ dz'[t].clip = dz[t].clip
               /\ \A t \in Session \ {s} : dz'[t] = dz[t]
               /\ dz'[s].csf = IF rest = {} /\ dz[s].csf = 0 THEN 1 ELSE dz[s].csf
  <1> DEFINE s == run.sess
             rest == run.todo \ {b}
             n == FramesToCommit
             f == [kv[s].frames EXCEPT ![b] = @ + n]
             k == [kv[s] EXCEPT !.frames = f, !.pending = @ \ {b}]
  <1>1. s \in Session /\ kv \in [Session -> KvShape] /\ kv[s] \in KvShape /\ n \in Nat
    BY CommitType DEF TypeInv
  <1>2. kv' = [kv EXCEPT ![s] = k]
    BY DEF Commit
  <1>3. /\ run'.sess = s /\ run'.carrier = run.carrier /\ run'.todo = rest
        /\ run'.phase = IF rest = {} THEN "dit" ELSE "prefill"
        /\ run' \in [phase : Phase, sess : Session, carrier : Carrier, todo : SUBSET Branch]
    BY DEF Commit, TypeInv, Phase
  <1>4. /\ dz' \in [Session -> Carrier]
        /\ \A t \in Session : dz'[t].lang = dz[t].lang /\ dz'[t].clip = dz[t].clip
        /\ \A t \in Session \ {s} : dz'[t] = dz[t]
        /\ dz'[s].csf = IF rest = {} /\ dz[s].csf = 0 THEN 1 ELSE dz[s].csf
    BY <1>1 DEF Commit, TypeInv, Carrier
  <1> HIDE DEF n
  <1>5. /\ f \in [Branch -> Nat]
        /\ \A c \in Branch : f[c] = IF c = b THEN kv[s].frames[c] + n ELSE kv[s].frames[c]
    BY <1>1 DEF KvShape
  <1> HIDE DEF f
  <1>6. /\ k \in KvShape /\ k.frames = f /\ k.blocks = kv[s].blocks
        /\ k.text = kv[s].text /\ k.img = kv[s].img /\ k.pending = kv[s].pending \ {b}
    BY <1>1, <1>5 DEF KvShape
  <1> HIDE DEF k
  <1>7. kv' \in [Session -> KvShape] /\ kv'[s] = k /\ \A t \in Session \ {s} : kv'[t] = kv[t]
    BY <1>1, <1>2, <1>6
  <1> QED BY <1>3, <1>4, <1>5, <1>6, <1>7 DEF n

\* A commit moves no block.
LEMMA CommitWorker ==
    ASSUME WorkerInv, NEW b \in Branch, Commit(b)
    PROVE  WorkerInv'
  <1>0. run.phase = "written" /\ cross' = cross /\ free' = free /\ sessions' = sessions /\ states' = states
    BY DEF Commit
  <1>1. /\ kv' \in [Session -> KvShape] /\ \A t \in Session : kv'[t].blocks = kv[t].blocks
        /\ run'.sess = run.sess /\ run'.todo = run.todo \ {b}
        /\ run'.phase = IF run.todo \ {b} = {} THEN "dit" ELSE "prefill"
        /\ run' \in [phase : Phase, sess : Session, carrier : Carrier, todo : SUBSET Branch]
        /\ dz' \in [Session -> Carrier]
    BY CommitEffect DEF WorkerInv
  <1>2. TypeInv' /\ TodoInv'
    BY <1>0, <1>1 DEF WorkerInv, TypeInv, TodoInv
  <1>3. OrderInv'
    <2>1. run'.phase # "attached" /\ run'.phase # "idle"
      BY <1>1
    <2> QED BY <1>0, <1>1, <2>1 DEF WorkerInv, OrderInv
  <1>4. PoolInv'
    BY <1>0, <1>1, PoolSame
  <1>5. PendingInv'
    <2> DEFINE s == run.sess
    <2>1. run.phase = "written" /\ b = First(run.todo) /\ s \in Session
      BY <1>0 DEF Commit, WorkerInv, TypeInv
    <2>2. kv[s].pending = {b} /\ \A t \in Session \ {s} : kv[t].pending = {}
      BY <1>0, <2>1 DEF WorkerInv, PendingInv
    <2>3. kv'[s].pending = kv[s].pending \ {b} /\ \A t \in Session \ {s} : kv'[t] = kv[t]
      BY <1>0, CommitEffect DEF WorkerInv
    <2> HIDE DEF s
    <2>4. \A t \in Session : kv'[t].pending = {}
      BY <2>2, <2>3
    <2> QED BY <1>1, <2>4 DEF PendingInv
  <1> QED BY <1>2, <1>3, <1>4, <1>5 DEF WorkerInv

\* Nor does the DiT loop.
LEMMA DenoiseWorker ==
    ASSUME WorkerInv, Denoise
    PROVE  WorkerInv'
  <1>0. /\ run.phase = "dit" /\ run.sess \in Session
        /\ dz' = [dz EXCEPT ![run.sess].csf = @ + NFrames]
        /\ run' = Idle /\ run'.phase = "idle"
        /\ kv' = kv /\ cross' = cross /\ free' = free /\ sessions' = sessions /\ states' = states
    BY DEF Denoise, WorkerInv, TypeInv, Idle
  <1>1. TypeInv'
    BY <1>0, SessionAssumption, WindowAssumption DEF WorkerInv, TypeInv, Idle, FreshModel, Phase, Carrier
  <1>2. TodoInv' /\ OrderInv'
    BY <1>0 DEF TodoInv, WorkerInv, OrderInv
  <1>3. PoolInv'
    BY <1>0, PoolSame DEF WorkerInv, TypeInv
  <1>4. PendingInv'
    BY <1>0 DEF WorkerInv, PendingInv
  <1> QED BY <1>1, <1>2, <1>3, <1>4 DEF WorkerInv

\* An empty worker satisfies the invariant.
LEMMA InitWorker == RolloutInit => WorkerInv
  <1> SUFFICES ASSUME RolloutInit PROVE WorkerInv
    OBVIOUS
  <1> USE DEF RolloutInit
  <1>1. TypeInv
    BY FreshKvType, SessionAssumption DEF TypeInv, CrossShape, FreshModel, Idle, Phase, Carrier
  <1>2. TodoInv
    BY DEF TodoInv, Idle
  <1>3. OrderInv
    BY SessionAssumption DEF OrderInv, Idle, Distinct, EndsWith
  <1>4. PoolInv
    <2>1. \A s \in Session : \A b \in Branch : kv[s].blocks[b] = 0
      BY FreshKvType
    <2>2. Table(kv, Session) = {} /\ Table(kv, Session \ Held(sessions)) = {}
      BY <2>1, TableEmpty
    <2>3. Resident(Session) = {} /\ Resident(Session \ Held(sessions)) = {}
      BY <2>2 DEF Resident, Table
    <2>4. NumBlocks - 1 \in Nat
      <3>1. Cardinality(LocalBranch) \in Nat
        <4>1. IsFiniteSet({"pos"}) /\ IsFiniteSet({"pos"} \cup {"neg"})
          BY FS_Singleton, FS_AddElement
        <4>2. LocalBranch \subseteq {"pos"} \cup {"neg"}
          BY BranchAssumption
        <4> QED BY <4>1, <4>2, FS_Subset, FS_CardinalityType
      <3>2. Window + NFrames \in Nat
        BY WindowType, WindowAssumption
      <3>3. Cardinality(LocalBranch) * (Window + NFrames) \in Nat
        BY <3>1, <3>2
      <3> QED BY <3>3, PoolAssumption
    <2>5. 0 <= Window + NFrames
      BY WindowType, WindowAssumption
    <2>6. Cardinality({}) = 0
      BY FS_EmptySet
    <2>7. free = NumBlocks - 1 /\ free \in 0..(NumBlocks - 1)
      BY <2>4
    <2>8. free + Cardinality({}) = NumBlocks - 1
      BY <2>4, <2>6, <2>7
    <2>9. PoolAccounted
      BY <2>3, <2>8 DEF PoolAccounted
    <2>10. \A s \in Session : \A b \in Branch : kv[s].blocks[b] <= Window + NFrames
      BY <2>1, <2>5
    <2> QED BY ONLY <2>1, <2>7, <2>9, <2>10 DEF PoolInv
  <1>5. PendingInv
    BY FreshKvType DEF PendingInv, Idle
  <1> QED BY <1>1, <1>2, <1>3, <1>4, <1>5 DEF WorkerInv

\* A step of another process leaves the worker as it is.
LEMMA StutterWorker == WorkerInv /\ UNCHANGED rolloutVars => WorkerInv'
  <1> SUFFICES ASSUME WorkerInv, UNCHANGED rolloutVars PROVE WorkerInv'
    OBVIOUS
  <1>1. /\ kv' = kv /\ cross' = cross /\ dz' = dz /\ run' = run /\ free' = free
        /\ sessions' = sessions /\ states' = states
    BY DEF rolloutVars
  <1>2. TypeInv' /\ TodoInv' /\ OrderInv'
    BY <1>1 DEF WorkerInv, TypeInv, TodoInv, OrderInv
  <1>3. PoolInv'
    BY <1>1, PoolSame DEF WorkerInv, TypeInv
  <1>4. PendingInv'
    BY <1>1 DEF WorkerInv, PendingInv
  <1> QED BY <1>2, <1>3, <1>4 DEF WorkerInv

\* A rank executes the branch it is at and at most one other.
LEMMA LocalOthers ==
    ASSUME NEW b \in LocalBranch
    PROVE  \/ LocalBranch = {b} /\ Cardinality(LocalBranch) = 1
           \/ \E c \in LocalBranch : c # b /\ LocalBranch = {b, c} /\ Cardinality(LocalBranch) = 2
  <1>1. IsFiniteSet({b}) /\ Cardinality({b}) = 1
    BY FS_Singleton
  <1>2. CASE LocalBranch = {b}
    BY <1>1, <1>2
  <1>3. CASE LocalBranch # {b}
    <2>1. PICK c \in LocalBranch : c # b
      BY <1>3
    <2>2. LocalBranch = {b} \cup {c}
      BY <2>1, BranchAssumption
    <2>3. Cardinality({b} \cup {c}) = 2
      BY <1>1, <2>1, FS_AddElement
    <2> QED BY <2>1, <2>2, <2>3
  <1> QED BY <1>2, <1>3

\* The blocks of one session are those of the branches its rank executes.
LEMMA OwnTable ==
    ASSUME WorkerInv, NEW s \in Session, NEW b \in LocalBranch
    PROVE  Cardinality(Table(kv, {s}))
             <= kv[s].blocks[b] + (Cardinality(LocalBranch) - 1) * (Window + NFrames)
  <1> DEFINE T == Table(kv, {s})
             col(c) == {<<s, c>>} \X (1..kv[s].blocks[c])
             M == Window + NFrames
  <1>1. \A c \in Branch : /\ kv[s].blocks[c] \in Nat /\ kv[s].blocks[c] <= M
                          /\ c \notin LocalBranch => kv[s].blocks[c] = 0
    BY DEF WorkerInv, TypeInv, KvShape, PoolInv
  <1>2. \A c \in Branch : IsFiniteSet(col(c)) /\ Cardinality(col(c)) = kv[s].blocks[c]
    BY <1>1, ColumnCount
  <1>3. \A x \in T : \E c \in LocalBranch : x \in col(c)
    <2> SUFFICES ASSUME NEW x \in T PROVE \E c \in LocalBranch : x \in col(c)
      OBVIOUS
    <2>1. PICK t \in {s}, c \in Branch : \E i \in 1..kv[t].blocks[c] : x = <<<<t, c>>, i>>
      BY TableMember
    <2>2. c \in LocalBranch
      <3> SUFFICES ASSUME c \notin LocalBranch PROVE FALSE
        OBVIOUS
      <3>1. kv[s].blocks[c] = 0
        BY <1>1
      <3> QED BY <2>1, <3>1
    <2> QED BY <2>1, <2>2
  <1>4. b \in Branch /\ LocalBranch \subseteq Branch /\ M \in Nat
    BY BranchAssumption, WindowType, WindowAssumption
  <1> HIDE DEF T, col
  <1>5. CASE LocalBranch = {b} /\ Cardinality(LocalBranch) = 1
    <2>1. T \subseteq col(b)
      BY <1>3, <1>5
    <2>2. Cardinality(T) <= kv[s].blocks[b]
      BY <1>2, <1>4, <2>1, FS_Subset
    <2>3. (Cardinality(LocalBranch) - 1) * M = 0
      BY <1>4, <1>5
    <2> QED BY <1>1, <1>4, <2>2, <2>3 DEF T
  <1>6. ASSUME NEW c \in LocalBranch, c # b, LocalBranch = {b, c}, Cardinality(LocalBranch) = 2
        PROVE  Cardinality(T) <= kv[s].blocks[b] + (Cardinality(LocalBranch) - 1) * M
    <2>0. c \in Branch
      BY <1>4
    <2>1. T \subseteq col(b) \cup col(c)
      BY <1>3, <1>6
    <2>2. /\ IsFiniteSet(col(b) \cup col(c))
          /\ Cardinality(col(b) \cup col(c))
               = Cardinality(col(b)) + Cardinality(col(c)) - Cardinality(col(b) \cap col(c))
      BY <1>2, <1>4, <2>0, FS_Union
    <2>3. Cardinality(col(b) \cap col(c)) \in Nat
      BY <1>2, <1>4, <2>0, FS_Intersection, FS_CardinalityType
    <2>4. Cardinality(T) <= Cardinality(col(b) \cup col(c)) /\ Cardinality(T) \in Nat
      BY <2>1, <2>2, FS_Subset, FS_CardinalityType
    <2>5. (Cardinality(LocalBranch) - 1) * M = M
      BY <1>4, <1>6
    <2>6. /\ Cardinality(col(b)) = kv[s].blocks[b] /\ kv[s].blocks[b] \in Nat
          /\ Cardinality(col(c)) = kv[s].blocks[c] /\ kv[s].blocks[c] \in Nat /\ kv[s].blocks[c] <= M
      BY <1>1, <1>2, <1>4, <2>0
    <2> HIDE DEF M
    <2>7. M \in Nat
      BY <1>4
    <2> QED BY <2>2, <2>3, <2>4, <2>5, <2>6, <2>7
  <1> QED BY <1>5, <1>6, LocalOthers DEF T

\* With the pool to itself the running session always has room: the floor of the
\* pool covers the windows of its branches and the chunk being written.
LEMMA RoomAlone ==
    ASSUME WorkerInv, run.phase = "prefill", Resident(Session \ {run.sess}) = {}
    PROVE  HasRoom(run.sess, First(run.todo))
  <1> DEFINE s == run.sess
             b == First(run.todo)
             T == Table(kv, {s})
             M == Window + NFrames
             L == Cardinality(LocalBranch)
  <1>1. s \in Session /\ b \in LocalBranch /\ b \in Branch
    BY FirstIn, BranchAssumption DEF WorkerInv, TypeInv, TodoInv
  <1>2. Table(kv, Session) = T
    <2>1. Table(kv, Session \ {s}) = {}
      BY DEF Resident, Table
    <2>2. \A x : x \in Table(kv, Session) <=> x \in T
      <3> TAKE x
      <3>1. x \in Table(kv, Session) <=>
              \E t \in Session, c \in Branch : \E i \in 1..kv[t].blocks[c] : x = <<<<t, c>>, i>>
        BY TableMember
      <3>2. x \in T <=> \E t \in {s}, c \in Branch : \E i \in 1..kv[t].blocks[c] : x = <<<<t, c>>, i>>
        BY TableMember
      <3>3. ~ \E t \in Session \ {s}, c \in Branch : \E i \in 1..kv[t].blocks[c] : x = <<<<t, c>>, i>>
        BY <2>1, TableMember
      <3> QED BY <1>1, <3>1, <3>2, <3>3
    <2> HIDE DEF T
    <2> QED BY <2>2
  <1>3. /\ free + Cardinality(T) = NumBlocks - 1 /\ Cardinality(T) \in Nat /\ free \in Int
    BY <1>2, ResidentFinite DEF WorkerInv, PoolInv
  <1>4. Cardinality(T) <= kv[s].blocks[b] + (L - 1) * M
    BY <1>1, OwnTable
  <1>5. (L = 1 \/ L = 2) /\ NumBlocks \in Nat /\ NumBlocks >= L * M + 2
    BY <1>1, LocalOthers, PoolAssumption
  <1>6. /\ InWindow(s, b) \in Nat /\ InWindow(s, b) <= Window /\ Window \in Nat /\ NFrames \in Nat
        /\ FramesToCommit \in Nat /\ FramesToCommit <= NFrames /\ kv[s].blocks[b] \in Nat
    BY <1>1, InWindowType, CommitType, WindowType, WindowAssumption DEF WorkerInv, TypeInv, KvShape
  <1> HIDE DEF s, b, T, L
  <1>7. FreeFor(s, b) >= FramesToCommit
    <2>1. L * M = (L - 1) * M + M
      BY <1>5, <1>6
    <2>2. (L - 1) * M \in Nat
      BY <1>5, <1>6
    <2> DEFINE r == (L - 1) * M
    <2>3. r \in Nat /\ NumBlocks >= r + M + 2 /\ Cardinality(T) <= kv[s].blocks[b] + r
      BY <1>4, <1>5, <2>1, <2>2
    <2> HIDE DEF r
    <2> QED BY <1>3, <1>5, <1>6, <2>3 DEF FreeFor
  <1> QED BY <1>7 DEF HasRoom, s, b

-----------------------------------------------------------------------------
(* ARRollout: the window and the cross pool between and during forwards.     *)

\* current_start_frame between the forwards of a session.
Row == {1 + k * NFrames : k \in 1..Chunks}

\* What a session holds between forwards: nothing of its model state, or as many
\* committed frames as its model state says, one chunk behind.  A session whose
\* KV alone was evicted is not CrossReady and never gets to read.
AtRest(s) ==
    \/ dz[s].lang = NoPrompt
    \/ /\ dz[s].csf \in Row
       /\ CrossReady(s) => \A b \in LocalBranch : kv[s].frames[b] = dz[s].csf - NFrames

RestInv == \A s \in Session :
    (s # run.sess \/ run.phase \in {"idle", "attached"}) => AtRest(s)

\* The frames a branch holds before its part of the forward.
Before(s) == IF dz[s].csf = 0 THEN 0 ELSE dz[s].csf - NFrames

\* The running forward: its carrier, and the branches that committed already.
RunInv ==
    LET s == run.sess
    IN  /\ run.phase \in {"populate", "prefill", "written", "dit"} =>
             /\ run.carrier.lang = dz[s].lang /\ run.carrier.clip = dz[s].clip
             /\ dz[s].lang # NoPrompt
        /\ run.phase = "populate" =>
             /\ dz[s].csf = 0
             /\ \A b \in LocalBranch : kv[s].frames[b] = 0
        /\ run.phase \in {"prefill", "written"} =>
             /\ dz[s].csf = 0 \/ (dz[s].csf \in Row /\ dz[s].csf < Window)
             /\ CrossReady(s) => \A b \in LocalBranch :
                  kv[s].frames[b] = IF b \in run.todo THEN Before(s)
                                    ELSE Before(s) + FramesToCommit
        /\ run.phase \in {"written", "dit"} => CrossReady(s)
        /\ run.phase = "dit" =>
             /\ dz[s].csf = 1 \/ (dz[s].csf \in Row /\ dz[s].csf < Window)
             /\ \A b \in LocalBranch : kv[s].frames[b] = dz[s].csf

\* A session that was the last to write a half of the cross pool, and holds it
\* for populated, wrote what it is conditioned on now.
CrossInv == \A s \in Session, b \in Branch :
    dz[s].lang # NoPrompt =>
        /\ b \in kv[s].text /\ s \in cross[b].textBy
             => cross[b].text = IF b = "pos" THEN dz[s].lang ELSE NegPrompt
        /\ b \in kv[s].img /\ s \in cross[b].imgBy => cross[b].img = dz[s].clip

RolloutInv == WorkerInv /\ RestInv /\ RunInv /\ CrossInv

-----------------------------------------------------------------------------
(* Arithmetic of the window.                                                 *)

\* A row is past one chunk and within the window.
LEMMA RowType == \A c \in Row : c \in Nat /\ c > NFrames /\ c <= Window
  <1>1. \A k \in 1..Chunks : k * NFrames \in Nat /\ k * NFrames >= NFrames
                              /\ k * NFrames <= Chunks * NFrames
    BY WindowAssumption, SMTT(30)
  <1> QED BY <1>1, WindowAssumption DEF Row, Window

\* The chunk after the first frame makes the first row.
LEMMA FirstRow == 1 + NFrames \in Row /\ 1 + NFrames <= Window
  <1>1. 1 \in 1..Chunks /\ 1 * NFrames = NFrames
    BY WindowAssumption
  <1>2. 1 + NFrames \in Row
    BY <1>1 DEF Row
  <1> QED BY <1>2, RowType

\* A row below the window has room for one more chunk.
LEMMA NextRow ==
    ASSUME NEW c \in Row, c < Window
    PROVE  c + NFrames \in Row /\ c + NFrames <= Window
  <1>1. PICK k \in 1..Chunks : c = 1 + k * NFrames
    BY DEF Row
  <1>2. k < Chunks
    BY <1>1, WindowAssumption DEF Window
  <1>3. k + 1 \in 1..Chunks /\ (k + 1) * NFrames = k * NFrames + NFrames
    BY <1>2, WindowAssumption, SMTT(30)
  <1>4. k * NFrames \in Nat
    BY WindowAssumption, SMTT(30)
  <1>5. c + NFrames = 1 + (k + 1) * NFrames
    BY <1>1, <1>3, <1>4, WindowAssumption
  <1>6. c + NFrames \in Row
    BY <1>5, <1>3 DEF Row
  <1> QED BY <1>6, RowType

-----------------------------------------------------------------------------
\* Nor does it hold anything of a session.
LEMMA RolloutInitInv == RolloutInit => RolloutInv
  <1> SUFFICES ASSUME RolloutInit PROVE RolloutInv
    OBVIOUS
  <1> USE DEF RolloutInit
  <1>1. WorkerInv
    BY InitWorker
  <1>2. RestInv
    BY DEF RestInv, AtRest, FreshModel
  <1>3. RunInv
    BY DEF RunInv, Idle
  <1>5. CrossInv
    BY DEF CrossInv, FreshModel
  <1> QED BY <1>1, <1>2, <1>3, <1>5 DEF RolloutInv

\* An evicted session is fresh on its KV side and never CrossReady.
LEMMA AttachStep ==
    ASSUME RolloutInv, NEW s \in Session, Attach(s)
    PROVE  RolloutInv'
  <1> USE DEF RolloutInv, WorkerInv
  <1>0. /\ run.phase = "idle" /\ run' = [Idle EXCEPT !.phase = "attached", !.sess = s]
        /\ Close(Evicted(MoveToEnd(sessions, s)))
        /\ cross' = cross /\ dz' = dz
    BY DEF Attach
  <1>1. /\ run'.phase = "attached" /\ run'.sess = s
    BY <1>0 DEF Idle
  <1>2. WorkerInv'
    BY AttachWorker
  <1>3. RestInv'
    <2> SUFFICES ASSUME NEW t \in Session PROVE AtRest(t)'
      BY DEF RestInv
    <2>1. AtRest(t)
      BY <1>0 DEF RestInv
    <2>2. CrossReady(t)' => kv'[t] = kv[t]
      BY <1>0, CloseEffect, FreshKvType, BranchAssumption DEF CrossReady
    <2> QED BY <1>0, <2>1, <2>2 DEF AtRest, CrossReady
  <1>4. RunInv'
    BY <1>1 DEF RunInv
  <1>6. CrossInv'
    BY <1>0, CloseEffect, FreshKvType DEF CrossInv
  <1> QED BY <1>2, <1>3, <1>4, <1>6

\* A forward that died leaves nothing of its session.
LEMMA FailStep ==
    ASSUME RolloutInv, Fail
    PROVE  RolloutInv'
  <1> USE DEF RolloutInv, WorkerInv
  <1> DEFINE s == run.sess
             b == First(run.todo)
  <1>0. /\ run.phase # "idle" /\ run' = Idle /\ Close({s})
        /\ dz' = [dz EXCEPT ![s] = FreshModel]
        /\ \/ cross' = cross
           \/ /\ run.phase = "populate"
              /\ cross' = [cross EXCEPT ![b] = CrossWritten(b, Torn, Torn)]
    BY DEF Fail
  <1>1. s \in Session /\ run'.phase = "idle"
    BY <1>0 DEF TypeInv, Idle
  <1>2. run.phase = "populate" => b \in Branch
    BY FirstIn DEF TodoInv, TypeInv
  <1>4. WorkerInv'
    BY FailWorker
  <1>5. RestInv'
    <2> SUFFICES ASSUME NEW t \in Session PROVE AtRest(t)'
      BY DEF RestInv
    <2>1. CASE t = s
      BY <1>0, <1>1, <2>1 DEF AtRest, FreshModel, TypeInv
    <2>2. CASE t # s
      BY <1>0, <1>1, <2>2, CloseEffect DEF AtRest, RestInv, CrossReady, TypeInv
    <2> QED BY <2>1, <2>2
  <1>6. RunInv'
    BY <1>1 DEF RunInv
  <1>8. CrossInv'
    <2> SUFFICES ASSUME NEW t \in Session, NEW c \in Branch, dz'[t].lang # NoPrompt
                 PROVE  /\ c \in kv'[t].text /\ t \in cross'[c].textBy
                             => cross'[c].text = IF c = "pos" THEN dz'[t].lang ELSE NegPrompt
                        /\ c \in kv'[t].img /\ t \in cross'[c].imgBy => cross'[c].img = dz'[t].clip
      BY DEF CrossInv
    <2>1. t # s /\ dz'[t] = dz[t] /\ kv'[t] = kv[t]
      BY <1>0, <1>1, CloseEffect DEF TypeInv, FreshModel
    <2>2. cross'[c] = cross[c] \/ (run.phase = "populate" /\ c = b /\ cross'[c] = CrossWritten(b, Torn, Torn))
      BY <1>0, <1>2 DEF TypeInv
    <2>3. /\ t \in cross'[c].textBy => cross'[c].text = cross[c].text /\ t \in cross[c].textBy
          /\ t \in cross'[c].imgBy => cross'[c].img = cross[c].img /\ t \in cross[c].imgBy
      BY <1>2, <2>1, <2>2, CrossEffect
    <2> QED BY <2>1, <2>3 DEF CrossInv
  <1> QED BY <1>4, <1>5, <1>6, <1>8

\* A reset restarts the frames and what depended on the old prompt or image.
LEMMA EncodeStep ==
    ASSUME RolloutInv, NEW prompt \in Prompt, NEW explicit \in BOOLEAN, NEW clip \in Clip,
           Encode(prompt, explicit, clip)
    PROVE  RolloutInv'
  <1> USE DEF RolloutInv, WorkerInv
  <1> DEFINE s == run.sess
             reason == ResetReason(dz[s], prompt, explicit)
             model == ResetModel(dz[s], reason)
             encoded == [model EXCEPT !.lang = prompt, !.clip = IF model.csf = 0 THEN clip ELSE @]
  <1>0. /\ run.phase = "attached" /\ s \in Session
        /\ UseState(s, encoded) /\ ResetKv(s, reason) /\ StartForward(s, encoded)
        /\ cross' = cross
    BY DEF Encode, TypeInv
  <1>1. /\ dz[s] \in Carrier
        /\ AtRest(s) /\ prompt # NoPrompt
    BY <1>0, ContentAssumption DEF TypeInv, RestInv
  \* The three reasons, and what each leaves.
  <1>2. \/ reason = "session" /\ encoded.csf = 0
        \/ reason = "inference" /\ dz[s].lang = prompt /\ encoded.csf = 0
        \/ reason = "none" /\ dz[s].lang = prompt /\ encoded.csf = dz[s].csf /\ dz[s].csf < Window
           /\ encoded.clip = IF dz[s].csf = 0 THEN clip ELSE dz[s].clip
    <2>0. reason \in {"session", "inference", "none"}
      BY DEF ResetReason
    <2>1. model \in Carrier /\ encoded.csf = model.csf
      <3>1. model \in Carrier
        <4>1. CASE reason = "session"
          BY <4>1 DEF ResetModel, FreshModel, Carrier
        <4>2. CASE reason = "inference"
          <5>1. model = [dz[s] EXCEPT !.csf = 0, !.clip = NoClip]
            BY <4>2 DEF ResetModel
          <5> HIDE DEF reason, model
          <5> QED BY <1>1, <5>1 DEF Carrier
        <4>3. CASE reason = "none"
          <5>1. model = dz[s]
            BY <4>3 DEF ResetModel
          <5> QED BY <1>1, <5>1
        <4> QED BY <2>0, <4>1, <4>2, <4>3
      <3> HIDE DEF reason, model
      <3> QED BY <3>1 DEF Carrier
    <2>2. CASE reason = "session"
      <3>1. model.csf = 0
        BY <2>2 DEF ResetModel, FreshModel
      <3> QED BY <2>1, <2>2, <3>1
    <2>3. CASE reason = "inference"
      <3>1. model.csf = 0 /\ dz[s].lang = prompt
        BY <1>1, <2>3 DEF ResetReason, ResetModel, Carrier
      <3> QED BY <2>1, <2>3, <3>1
    <2>4. CASE reason = "none"
      <3>1. model = dz[s]
        BY <2>4 DEF ResetModel
      <3>2. dz[s].lang = prompt /\ dz[s].csf < Window
        BY <1>1, <2>4, WindowType DEF ResetReason, Carrier
      <3>3. encoded.clip = IF dz[s].csf = 0 THEN clip ELSE dz[s].clip
        BY <1>1, <3>1 DEF Carrier
      <3> QED BY <2>1, <2>4, <3>1, <3>2, <3>3
    <2> QED BY <2>0, <2>2, <2>3, <2>4
  <1>3. /\ encoded \in [csf : Nat, lang : Prompt, clip : Clip \cup {NoClip}]
        /\ encoded.lang = prompt /\ (encoded.csf = 0 => encoded.clip \in Clip)
    BY <1>1 DEF ResetReason, ResetModel, FreshModel, Carrier
  <1>4. /\ run'.sess = s /\ run'.carrier = encoded
        /\ encoded.csf = 0 => run'.phase = "populate" /\ run'.todo = Branch
        /\ encoded.csf # 0 => run'.phase = "prefill" /\ run'.todo = LocalBranch
    BY <1>0 DEF StartForward
  <1>5. dz'[s] = encoded /\ \A t \in Session \ {s} : dz'[t] \in {dz[t], FreshModel}
    BY <1>0, UseStateEffect
  <1>6. reason = "none" => dz[s].csf \in Row
    BY <1>1, <1>2 DEF AtRest
  <1> HIDE DEF encoded, model, reason
  <1>7. WorkerInv'
    <2>1. encoded \in Carrier /\ (encoded.csf = 0 => encoded.clip \in Clip /\ encoded.lang \in Prompt)
      BY <1>3 DEF Carrier
    <2>2. sessions' = sessions
      BY DEF Encode
    <2> QED BY <1>0, <2>1, <2>2, BeginWorker
  <1>8. RestInv'
    <2> SUFFICES ASSUME NEW t \in Session, t # s PROVE AtRest(t)'
      BY <1>4 DEF RestInv
    <2>1. kv'[t] = kv[t] /\ AtRest(t)
      BY <1>0, ResetKvEffect DEF RestInv
    <2> QED BY <1>5, <2>1 DEF AtRest, CrossReady, FreshModel
  <1>9. RunInv'
    <2>1. CASE encoded.csf = 0
      <3>1. \A b \in LocalBranch : kv'[s].frames[b] = 0
        <4>1. reason # "none"
          <5>1. 0 \notin Row
            BY RowType, WindowAssumption
          <5> QED BY <1>2, <1>6, <2>1, <5>1
        <4> QED BY <1>0, <4>1, ResetKvEffect, BranchAssumption
      <3> QED BY <1>1, <1>3, <1>4, <1>5, <2>1, <3>1, BranchAssumption DEF RunInv
    <2>2. CASE encoded.csf # 0
      <3>1. /\ reason = "none" /\ encoded.csf \in Row /\ encoded.csf < Window /\ kv'[s] = kv[s]
            /\ dz[s].csf = encoded.csf /\ dz[s].lang # NoPrompt
        BY <1>0, <1>1, <1>2, <1>6, <2>2, ResetKvEffect
      <3>2. CrossReady(s)' => \A b \in LocalBranch : kv'[s].frames[b] = encoded.csf - NFrames
        BY <1>1, <1>4, <3>1 DEF AtRest, CrossReady
      <3>3. Before(s)' = encoded.csf - NFrames
        BY <1>0, <1>4, <1>5, <2>2 DEF Before
      <3> QED BY <1>1, <1>3, <1>4, <1>5, <2>2, <3>1, <3>2, <3>3, BranchAssumption DEF RunInv
    <2> QED BY <2>1, <2>2
  <1>11. CrossInv'
    <2> SUFFICES ASSUME NEW t \in Session, NEW c \in Branch, dz'[t].lang # NoPrompt
                 PROVE  /\ c \in kv'[t].text /\ t \in cross[c].textBy
                             => cross[c].text = IF c = "pos" THEN dz'[t].lang ELSE NegPrompt
                        /\ c \in kv'[t].img /\ t \in cross[c].imgBy => cross[c].img = dz'[t].clip
      BY <1>0 DEF CrossInv
    <2>1. CASE t # s
      <3>1. dz'[t] = dz[t] /\ kv'[t] = kv[t]
        BY <1>0, <1>5, <2>1, ResetKvEffect DEF FreshModel
      <3> QED BY <3>1 DEF CrossInv
    <2>2. CASE t = s /\ reason = "session"
      BY <1>0, <2>2, ResetKvEffect
    <2>3. CASE t = s /\ reason = "inference"
      BY <1>0, <1>1, <1>2, <1>3, <1>5, <2>3, ResetKvEffect DEF CrossInv
    <2>4. CASE t = s /\ reason = "none"
      <3>1. dz'[s].lang = dz[s].lang /\ dz'[s].clip = dz[s].clip /\ kv'[s] = kv[s]
        BY <1>0, <1>2, <1>3, <1>5, <1>6, <2>4, RowType, ResetKvEffect, WindowAssumption
      <3> QED BY <2>4, <3>1 DEF CrossInv
    <2> QED BY <1>2, <2>1, <2>2, <2>3, <2>4
  <1> QED BY <1>7, <1>8, <1>9, <1>11

\* A populated branch holds the running session's prompt and image.
LEMMA PopulateStep ==
    ASSUME RolloutInv, NEW b \in Branch, Populate(b)
    PROVE  RolloutInv'
  <1> USE DEF RolloutInv, WorkerInv
  <1> DEFINE s == run.sess
             rest == run.todo \ {b}
             w == CrossWritten(b, TextOf(b), run.carrier.clip)
  <1>0. /\ run.phase = "populate" /\ s \in Session
        /\ cross' = [cross EXCEPT ![b] = w] /\ dz' = dz
    BY DEF Populate, TypeInv
  <1>1. /\ run.carrier.lang = dz[s].lang /\ run.carrier.clip = dz[s].clip
        /\ dz[s].lang \in Prompt /\ dz[s].csf = 0
        /\ \A c \in LocalBranch : kv[s].frames[c] = 0
    BY <1>0 DEF RunInv, TypeInv, Carrier
  <1>3. /\ run'.sess = s /\ run'.carrier = run.carrier
        /\ rest = {} => run'.phase = "prefill" /\ run'.todo = LocalBranch
        /\ rest # {} => run'.phase = "populate" /\ run'.todo = rest
    BY PopulateEffect
  <1>4. /\ \A t \in Session : /\ kv'[t].frames = kv[t].frames /\ kv'[t].pending = kv[t].pending
                              /\ t # s => kv'[t] = kv[t]
        /\ kv'[s].text = kv[s].text \cup {b} /\ kv'[s].img = kv[s].img \cup {b}
    BY PopulateEffect
  <1>6. RestInv'
    BY <1>0, <1>3, <1>4 DEF RestInv, AtRest, CrossReady
  <1>7. RunInv'
    <2>1. CASE rest = {}
      BY <1>0, <1>1, <1>3, <1>4, <2>1, BranchAssumption, ContentAssumption DEF RunInv, Before
    <2>2. CASE rest # {}
      BY <1>0, <1>1, <1>3, <1>4, <2>2, ContentAssumption DEF RunInv
    <2> QED BY <2>1, <2>2
  <1>9. CrossInv'
    <2> SUFFICES ASSUME NEW t \in Session, NEW c \in Branch, dz'[t].lang # NoPrompt
                 PROVE  /\ c \in kv'[t].text /\ t \in cross'[c].textBy
                             => cross'[c].text = IF c = "pos" THEN dz'[t].lang ELSE NegPrompt
                        /\ c \in kv'[t].img /\ t \in cross'[c].imgBy => cross'[c].img = dz'[t].clip
      BY DEF CrossInv
    <2>1. CASE c # b
      <3>1. cross'[c] = cross[c]
        BY <1>0, <2>1 DEF TypeInv
      <3> QED BY <1>0, <1>4, <2>1, <3>1 DEF CrossInv
    <2>2. CASE c = b
      <3>1. cross'[c] = w
        BY <1>0, <2>2 DEF TypeInv
      <3>2. CASE t = s
        BY <1>0, <1>1, <1>4, <2>2, <3>1, <3>2, CrossEffect DEF CrossInv, TextOf
      <3>3. CASE t # s
        BY <1>0, <1>4, <2>2, <3>1, <3>3, CrossEffect DEF CrossInv
      <3> QED BY <3>2, <3>3
    <2> QED BY <2>1, <2>2
  <1>10. WorkerInv'
    BY PopulateWorker
  <1> QED BY <1>6, <1>7, <1>9, <1>10

\* Writing K/V commits no frame.
LEMMA PrefillStep ==
    ASSUME RolloutInv, NEW b \in Branch, Prefill(b)
    PROVE  RolloutInv'
  <1> USE DEF RolloutInv, WorkerInv
  <1> DEFINE s == run.sess
  <1>0. /\ run.phase = "prefill" /\ s \in Session /\ b = First(run.todo) /\ CrossReady(s)
        /\ cross' = cross /\ dz' = dz
    BY DEF Prefill, TypeInv
  <1>1. run'.phase = "written" /\ run'.sess = s /\ run'.carrier = run.carrier /\ run'.todo = run.todo
    BY PrefillEffect
  <1>2. /\ \A t \in Session : /\ kv'[t].frames = kv[t].frames /\ kv'[t].text = kv[t].text
                              /\ kv'[t].img = kv[t].img
                              /\ t # s => kv'[t] = kv[t]
        /\ kv'[s].pending = {b}
    BY <1>0, PrefillEffect DEF PendingInv
  <1>3. WorkerInv'
    BY PrefillWorker
  <1>4. RestInv'
    BY <1>0, <1>1, <1>2 DEF RestInv, AtRest, CrossReady
  <1>5. RunInv'
    <2>1. /\ CrossReady(s)' /\ Before(s)' = Before(s) /\ FramesToCommit' = FramesToCommit
      BY <1>0, <1>1, <1>2 DEF CrossReady, Before, FramesToCommit
    <2> QED BY <1>0, <1>1, <1>2, <2>1, BranchAssumption DEF RunInv
  <1>7. CrossInv'
    BY <1>0, <1>2 DEF CrossInv
  <1> QED BY <1>3, <1>4, <1>5, <1>7

\* Committing the last branch of the first frame moves current_start_frame to 1;
\* in every other case the frame count of the model state is ahead already.
LEMMA CommitStep ==
    ASSUME RolloutInv, NEW b \in Branch, Commit(b)
    PROVE  RolloutInv'
  <1> USE DEF RolloutInv, WorkerInv
  <1> DEFINE s == run.sess
             rest == run.todo \ {b}
             n == FramesToCommit
  <1>0. run.phase = "written" /\ s \in Session /\ b = First(run.todo) /\ cross' = cross
    BY DEF Commit, TypeInv
  <1>1. /\ run.todo # {} /\ run.todo \subseteq LocalBranch /\ b \in run.todo /\ CrossReady(s)
        /\ dz[s].csf = 0 \/ (dz[s].csf \in Row /\ dz[s].csf < Window)
        /\ \A c \in LocalBranch : kv[s].frames[c] = IF c \in run.todo THEN Before(s) ELSE Before(s) + n
        /\ run.carrier.lang = dz[s].lang /\ run.carrier.clip = dz[s].clip /\ dz[s].lang # NoPrompt
        /\ kv[s].pending = {b}
    BY <1>0, FirstIn, BranchAssumption DEF RunInv, PendingInv, TodoInv
  <1>2. /\ run'.sess = s /\ run'.carrier = run.carrier /\ run'.todo = rest
        /\ run'.phase = IF rest = {} THEN "dit" ELSE "prefill"
    BY CommitEffect
  <1>3. n \in Nat /\ dz[s].csf \in Nat
    BY <1>0, CommitType DEF TypeInv, Carrier
  <1>4. /\ \A t \in Session : dz'[t].lang = dz[t].lang /\ dz'[t].clip = dz[t].clip
        /\ \A t \in Session \ {s} : dz'[t] = dz[t]
        /\ dz'[s].csf = IF rest = {} /\ dz[s].csf = 0 THEN 1 ELSE dz[s].csf
    BY CommitEffect
  <1>5. /\ \A t \in Session \ {s} : kv'[t] = kv[t]
        /\ kv'[s].text = kv[s].text /\ kv'[s].img = kv[s].img /\ kv'[s].pending = {}
        /\ \A c \in Branch : kv'[s].frames[c] = IF c = b THEN kv[s].frames[c] + n ELSE kv[s].frames[c]
    BY <1>1, CommitEffect
  <1>6. CrossReady(s)' /\ \A t \in Session \ {s} : CrossReady(t)' <=> CrossReady(t)
    BY <1>1, <1>2, <1>5 DEF CrossReady
  <1>7. WorkerInv'
    BY CommitWorker
  <1>8. RestInv'
    BY <1>0, <1>2, <1>4, <1>5, <1>6 DEF RestInv, AtRest
  <1>9. RunInv'
    <2>1. CASE rest = {}
      <3>1. \A c \in LocalBranch : kv'[s].frames[c] = Before(s) + n
        BY <1>1, <1>5, <2>1, BranchAssumption
      <3>2. CASE dz[s].csf = 0
        <4>1. Before(s) = 0 /\ n = 1 /\ dz'[s].csf = 1
          BY <1>4, <2>1, <3>2 DEF Before, FramesToCommit
        <4> QED BY <1>0, <1>1, <1>2, <1>4, <1>6, <2>1, <3>1, <4>1 DEF RunInv
      <3>3. CASE dz[s].csf # 0
        <4>1. /\ Before(s) + n = dz[s].csf /\ dz'[s].csf = dz[s].csf
              /\ dz[s].csf \in Row /\ dz[s].csf < Window
          BY <1>1, <1>3, <1>4, <3>3, WindowAssumption DEF Before, FramesToCommit
        <4> QED BY <1>0, <1>1, <1>2, <1>4, <1>6, <2>1, <3>1, <4>1 DEF RunInv
      <3> QED BY <3>2, <3>3
    <2>2. CASE rest # {}
      <3>1. dz'[s] = dz[s] /\ Before(s)' = Before(s) /\ FramesToCommit' = n
        BY <1>0, <1>2, <2>2 DEF Commit, Before, FramesToCommit
      <3>2. \A c \in LocalBranch : kv'[s].frames[c] = IF c \in rest THEN Before(s) ELSE Before(s) + n
        BY <1>1, <1>5, BranchAssumption
      <3>3. /\ CrossReady(s)' /\ dz'[s] = dz[s] /\ run'.phase = "prefill" /\ rest \subseteq LocalBranch
        BY <1>0, <1>1, <1>2, <1>6, <2>2, <3>1
      <3> HIDE DEF n, rest
      <3>4. /\ run'.carrier.lang = dz'[s].lang /\ run'.carrier.clip = dz'[s].clip
            /\ dz'[s].lang # NoPrompt
            /\ dz'[s].csf = 0 \/ (dz'[s].csf \in Row /\ dz'[s].csf < Window)
        BY <1>1, <1>2, <3>3
      <3>5. \A c \in LocalBranch :
               kv'[s].frames[c] = IF c \in run'.todo THEN Before(s)' ELSE Before(s)' + FramesToCommit'
        BY <1>2, <3>1, <3>2
      <3> QED BY <1>2, <2>2, <3>3, <3>4, <3>5 DEF RunInv
    <2> QED BY <2>1, <2>2
  <1>11. CrossInv'
    BY <1>0, <1>4, <1>5 DEF CrossInv
  <1> QED BY <1>7, <1>8, <1>9, <1>11

\* The chunk denoised is the next to commit.
LEMMA DenoiseEnds ==
    ASSUME RolloutInv, Denoise
    PROVE  RolloutInv'
  <1> USE DEF RolloutInv, WorkerInv
  <1> DEFINE s == run.sess
  <1>0. /\ run.phase = "dit" /\ s \in Session
        /\ dz' = [dz EXCEPT ![s].csf = @ + NFrames]
        /\ run' = Idle /\ kv' = kv /\ cross' = cross
    BY DEF Denoise, TypeInv
  <1>1. run'.phase = "idle"
    BY <1>0 DEF Idle
  <1>2. /\ dz[s].csf = 1 \/ (dz[s].csf \in Row /\ dz[s].csf < Window)
        /\ \A b \in LocalBranch : kv[s].frames[b] = dz[s].csf
        /\ dz[s].csf \in Nat
    BY <1>0 DEF RunInv, TypeInv, Carrier
  <1>3. /\ dz' \in [Session -> Carrier]
        /\ \A t \in Session : dz'[t].lang = dz[t].lang /\ dz'[t].clip = dz[t].clip
        /\ \A t \in Session \ {s} : dz'[t] = dz[t]
        /\ dz'[s].csf = dz[s].csf + NFrames
    BY <1>0, WindowAssumption DEF TypeInv, Carrier
  <1>4. WorkerInv'
    BY DenoiseWorker
  <1>5. RestInv'
    <2> SUFFICES ASSUME NEW t \in Session PROVE AtRest(t)'
      BY DEF RestInv
    <2>1. CASE t # s
      BY <1>0, <1>3, <2>1 DEF RestInv, AtRest, CrossReady
    <2>2. CASE t = s
      <3>1. dz'[s].csf \in Row
        BY <1>2, <1>3, FirstRow, NextRow
      <3>2. \A b \in LocalBranch : kv'[s].frames[b] = dz'[s].csf - NFrames
        BY <1>0, <1>2, <1>3, WindowAssumption
      <3> QED BY <2>2, <3>1, <3>2 DEF AtRest
    <2> QED BY <2>1, <2>2
  <1>6. RunInv'
    BY <1>1 DEF RunInv
  <1>8. CrossInv'
    BY <1>0, <1>3 DEF CrossInv
  <1> QED BY <1>4, <1>5, <1>6, <1>8

\* Every step of the worker keeps the invariant.
LEMMA NextKeepsRolloutInv == RolloutInv /\ [RolloutNext]_rolloutVars => RolloutInv'
  <1> SUFFICES ASSUME RolloutInv, [RolloutNext]_rolloutVars PROVE RolloutInv'
    OBVIOUS
  <1>1. CASE \E s \in Session : Attach(s)
    BY <1>1, AttachStep
  <1>2. CASE \E prompt \in Prompt, explicit \in BOOLEAN, clip \in Clip : Encode(prompt, explicit, clip)
    BY <1>2, EncodeStep
  <1>3. CASE \E b \in Branch : Populate(b)
    BY <1>3, PopulateStep
  <1>4. CASE \E b \in Branch : Prefill(b)
    BY <1>4, PrefillStep
  <1>5. CASE \E b \in Branch : Commit(b)
    BY <1>5, CommitStep
  <1>6. CASE Denoise
    BY <1>6, DenoiseEnds
  <1>7. CASE Fail
    BY <1>7, FailStep
  <1>8. CASE UNCHANGED rolloutVars
    <2>1. kv' = kv /\ cross' = cross /\ dz' = dz /\ run' = run
      BY <1>8 DEF rolloutVars
    <2>2. WorkerInv'
      BY <1>8, StutterWorker DEF RolloutInv
    <2>3. RestInv'
      BY <2>1 DEF RolloutInv, RestInv, AtRest, CrossReady
    <2>4. RunInv'
      BY <2>1 DEF RolloutInv, RunInv, Before, FramesToCommit, CrossReady
    <2>5. CrossInv'
      BY <2>1 DEF RolloutInv, CrossInv
    <2> QED BY <2>2, <2>3, <2>4, <2>5 DEF RolloutInv
  <1> QED BY <1>1, <1>2, <1>3, <1>4, <1>5, <1>6, <1>7, <1>8 DEF RolloutNext, Step

-----------------------------------------------------------------------------
(* The theorems.                                                             *)

\* The inductive invariant holds in every state of the monolithic rollout.
THEOREM RolloutInvariant == RolloutSpec => []RolloutInv
  <1> QED BY RolloutInitInv, NextKeepsRolloutInv, PTL DEF RolloutSpec

\* The K/V a dying forward wrote and did not commit are never met by a later
\* one: execute_model's teardown is complete.
THEOREM RolloutNeverHalfWritten == RolloutSpec => []NothingHalfWritten
  <1>1. RolloutInv => NothingHalfWritten
    BY DEF RolloutInv, WorkerInv, PendingInv, NothingHalfWritten
  <1> QED BY <1>1, RolloutInvariant, PTL

\* For every window and chunk size, and whatever the LRU maps evict, the DiT
\* loop reads exactly the frames before current_start_frame and has room for
\* the current chunk in the window.
THEOREM RolloutWindowAligned == RolloutSpec => []WindowAligned
  <1>1. RolloutInv => WindowAligned
    <2> SUFFICES ASSUME RolloutInv, run.phase = "dit", NEW b \in LocalBranch
                 PROVE  /\ kv[run.sess].frames[b] = dz[run.sess].csf
                        /\ kv[run.sess].frames[b] + NFrames <= Window
      BY DEF WindowAligned
    <2>1. /\ kv[run.sess].frames[b] = dz[run.sess].csf
          /\ dz[run.sess].csf = 1 \/ (dz[run.sess].csf \in Row /\ dz[run.sess].csf < Window)
      BY DEF RolloutInv, RunInv
    <2> QED BY <2>1, FirstRow, NextRow
  <1> QED BY <1>1, RolloutInvariant, PTL

\* A session that wrote the cross pool last wrote the text of its present
\* prompt and the image of its present window.
THEOREM RolloutOwnCrossIsCurrent == RolloutSpec => []OwnCrossIsCurrent
  <1>1. RolloutInv => OwnCrossIsCurrent
    <2> SUFFICES ASSUME RolloutInv, run.phase = "dit", NEW b \in Branch
                 PROVE  /\ run.sess \in cross[b].textBy => cross[b].text = TextOf(b)
                        /\ run.sess \in cross[b].imgBy => cross[b].img = run.carrier.clip
      BY DEF OwnCrossIsCurrent, OwnTextIsCurrent
    <2>1. /\ run.carrier.lang = dz[run.sess].lang /\ run.carrier.clip = dz[run.sess].clip
          /\ dz[run.sess].lang # NoPrompt /\ CrossReady(run.sess) /\ run.sess \in Session
      BY DEF RolloutInv, WorkerInv, RunInv, TypeInv
    <2> QED BY <2>1 DEF RolloutInv, CrossInv, CrossReady, TextOf
  <1> QED BY <1>1, RolloutInvariant, PTL

\* Every variable of the worker keeps its shape, the orders their cap and the
\* free count its bounds.
THEOREM RolloutTyped == RolloutSpec => []RolloutTypeOK
  <1>1. RolloutInv => RolloutTypeOK
    BY DEF RolloutInv, WorkerInv, TypeInv, OrderInv, PoolInv, KvShape, CrossShape, RolloutTypeOK
  <1> QED BY <1>1, RolloutInvariant, PTL

\* No block is lost or counted twice, whatever is evicted, reset or torn down.
THEOREM RolloutPoolAccounted == RolloutSpec => []PoolAccounted
  <1>1. RolloutInv => PoolAccounted
    BY DEF RolloutInv, WorkerInv, PoolInv
  <1> QED BY <1>1, RolloutInvariant, PTL

\* The runner's LRU order is at rest a tail end of the pipeline's, so that what
\* the pipeline evicts the runner has evicted before.
THEOREM RolloutPoolNeverOutlives == RolloutSpec => []PoolNeverOutlivesModel
  <1>1. RolloutInv => PoolNeverOutlivesModel
    BY EndsHeld DEF RolloutInv, WorkerInv, OrderInv, PoolNeverOutlivesModel
  <1> QED BY <1>1, RolloutInvariant, PTL

\* The floor of the pool is enough for one session, for every window, chunk and
\* number of local branches.
THEOREM RolloutExhaustedByOthers == RolloutSpec => []ExhaustedByOthers
  <1>1. RolloutInv => ExhaustedByOthers
    BY RoomAlone DEF RolloutInv, ExhaustedByOthers
  <1> QED BY <1>1, RolloutInvariant, PTL

-----------------------------------------------------------------------------
(* DisaggRollout: the prompts of a session from the encode worker, through   *)
(* the payloads on their way, to the cross pool of the denoise worker.       *)

\* What an encode stage packs: it never leaves frame 0 of its model state.
Payload == [sess : Session, carrier : [csf : {0}, lang : Prompt, clip : Clip],
            reason : {"session", "none"}]

\* The payloads the denoise worker has not finished, the running one first.
Line == IF run.phase = "idle" THEN queue ELSE <<incoming>> \o queue

\* The places of a session in a line of payloads.
Places(q, s) == {i \in 1..Len(q) : q[i].sess = s}

\* Without a reset a payload has the prompt of the session's payload before it.
Linked(q, s) == \A i, j \in Places(q, s) :
    i < j /\ (\A k \in Places(q, s) : k <= i \/ j <= k) /\ q[j].reason = "none"
        => q[i].carrier.lang = q[j].carrier.lang

\* The session's last payload, or its first one if it comes without a reset,
\* has the prompt x.
EndsOn(q, s, x) == \A i \in Places(q, s) :
    (\A k \in Places(q, s) : k <= i) => q[i].carrier.lang = x
StartsOn(q, s, x) == \A i \in Places(q, s) :
    (\A k \in Places(q, s) : i <= k) /\ q[i].reason = "none" => q[i].carrier.lang = x

\* A payload of another session leaves the line.
LEMMA LineWithoutOther ==
    ASSUME NEW q, NEW r, NEW n \in 1..Len(q), NEW s, q[n].sess # s,
           Len(q) \in Nat, Len(r) = Len(q) - 1,
           \A i \in 1..Len(r) : r[i] = IF i < n THEN q[i] ELSE q[i + 1]
    PROVE  /\ Linked(q, s) => Linked(r, s)
           /\ \A x : EndsOn(q, s, x) => EndsOn(r, s, x)
           /\ \A x : StartsOn(q, s, x) => StartsOn(r, s, x)
           /\ Places(r, s) = {} => Places(q, s) = {}
  <1> DEFINE m(i) == IF i < n THEN i ELSE i + 1
  <1>1. \A i \in Places(r, s) : m(i) \in Places(q, s) /\ r[i] = q[m(i)] /\ i \in Int
    <2> SUFFICES ASSUME NEW i \in Places(r, s) PROVE m(i) \in Places(q, s) /\ r[i] = q[m(i)] /\ i \in Int
      OBVIOUS
    <2>1. i \in 1..Len(r) /\ r[i].sess = s
      BY DEF Places
    <2>2. m(i) \in 1..Len(q) /\ r[i] = q[m(i)]
      BY <2>1
    <2> QED BY <2>1, <2>2 DEF Places
  <1>2. \A k \in Places(q, s) : \E i \in Places(r, s) : k = m(i)
    <2> SUFFICES ASSUME NEW k \in Places(q, s) PROVE \E i \in Places(r, s) : k = m(i)
      OBVIOUS
    <2>1. k \in 1..Len(q) /\ q[k].sess = s /\ k # n
      BY DEF Places
    <2> DEFINE i == IF k < n THEN k ELSE k - 1
    <2>2. i \in 1..Len(r) /\ m(i) = k
      BY <2>1
    <2>3. r[i] = q[k]
      BY <2>2
    <2> QED BY <2>1, <2>2, <2>3 DEF Places
  <1>3. \A i, j \in Int : (i <= j <=> m(i) <= m(j)) /\ (i < j <=> m(i) < m(j))
    OBVIOUS
  <1> HIDE DEF m
  <1>4. Linked(q, s) => Linked(r, s)
    <2> SUFFICES ASSUME Linked(q, s), NEW i \in Places(r, s), NEW j \in Places(r, s), i < j,
                        \A k \in Places(r, s) : k <= i \/ j <= k, r[j].reason = "none"
                 PROVE  r[i].carrier.lang = r[j].carrier.lang
      BY DEF Linked
    <2>1. \A k \in Places(q, s) : k <= m(i) \/ m(j) <= k
      BY <1>1, <1>2, <1>3
    <2>2. m(i) < m(j) /\ m(i) \in Places(q, s) /\ m(j) \in Places(q, s) /\ q[m(j)].reason = "none"
      BY <1>1, <1>3
    <2> QED BY <1>1, <2>1, <2>2 DEF Linked
  <1>5. \A x : EndsOn(q, s, x) => EndsOn(r, s, x)
    <2> SUFFICES ASSUME NEW x, EndsOn(q, s, x), NEW i \in Places(r, s), \A k \in Places(r, s) : k <= i
                 PROVE  r[i].carrier.lang = x
      BY DEF EndsOn
    <2>1. \A k \in Places(q, s) : k <= m(i)
      BY <1>1, <1>2, <1>3
    <2> QED BY <1>1, <2>1 DEF EndsOn
  <1>6. \A x : StartsOn(q, s, x) => StartsOn(r, s, x)
    <2> SUFFICES ASSUME NEW x, StartsOn(q, s, x), NEW i \in Places(r, s),
                        \A k \in Places(r, s) : i <= k, r[i].reason = "none"
                 PROVE  r[i].carrier.lang = x
      BY DEF StartsOn
    <2>1. \A k \in Places(q, s) : m(i) <= k
      BY <1>1, <1>2, <1>3
    <2> QED BY <1>1, <2>1 DEF StartsOn
  <1> QED BY <1>2, <1>4, <1>5, <1>6

\* The session's first payload leaves the line.
LEMMA LineWithoutOwn ==
    ASSUME NEW q, NEW r, NEW s, Len(q) \in Nat \ {0}, q[1].sess = s, Len(r) = Len(q) - 1,
           \A i \in 1..Len(r) : r[i] = q[i + 1], Linked(q, s)
    PROVE  /\ Linked(r, s)
           /\ \A x : EndsOn(q, s, x) => EndsOn(r, s, x)
           /\ StartsOn(r, s, q[1].carrier.lang)
           /\ Places(r, s) = {} => \A x : EndsOn(q, s, x) => q[1].carrier.lang = x
  <1>1. \A i \in Places(r, s) : i + 1 \in Places(q, s) /\ r[i] = q[i + 1] /\ i \in Int /\ i >= 1
    BY DEF Places
  <1>2. \A k \in Places(q, s) : k = 1 \/ (k - 1 \in Places(r, s) /\ k \in Int)
    BY DEF Places
  <1>3. 1 \in Places(q, s)
    BY DEF Places
  <1>4. Linked(r, s)
    <2> SUFFICES ASSUME NEW i \in Places(r, s), NEW j \in Places(r, s), i < j,
                        \A k \in Places(r, s) : k <= i \/ j <= k, r[j].reason = "none"
                 PROVE  r[i].carrier.lang = r[j].carrier.lang
      BY DEF Linked
    <2>1. ASSUME NEW k \in Places(q, s) PROVE k <= i + 1 \/ j + 1 <= k
      <3>1. k = 1 \/ (k \in Int /\ (k - 1 <= i \/ j <= k - 1))
        BY <1>2
      <3> QED BY <1>1, <3>1
    <2>2. i + 1 < j + 1 /\ i + 1 \in Places(q, s) /\ j + 1 \in Places(q, s) /\ q[j + 1].reason = "none"
      BY <1>1
    <2>3. ASSUME NEW a \in Places(q, s), NEW c \in Places(q, s), a < c,
                 \A k \in Places(q, s) : k <= a \/ c <= k, q[c].reason = "none"
          PROVE  q[a].carrier.lang = q[c].carrier.lang
      BY <2>3 DEF Linked
    <2>4. q[i + 1].carrier.lang = q[j + 1].carrier.lang
      BY <2>1, <2>2, <2>3
    <2> QED BY <1>1, <2>4
  <1>5. \A x : EndsOn(q, s, x) => EndsOn(r, s, x)
    <2> SUFFICES ASSUME NEW x, EndsOn(q, s, x), NEW i \in Places(r, s), \A k \in Places(r, s) : k <= i
                 PROVE  r[i].carrier.lang = x
      BY DEF EndsOn
    <2>1. ASSUME NEW k \in Places(q, s) PROVE k <= i + 1
      <3>1. k = 1 \/ (k \in Int /\ k - 1 <= i)
        BY <1>2
      <3> QED BY <1>1, <3>1
    <2> QED BY <1>1, <2>1 DEF EndsOn
  <1>6. StartsOn(r, s, q[1].carrier.lang)
    <2> SUFFICES ASSUME NEW i \in Places(r, s), \A k \in Places(r, s) : i <= k, r[i].reason = "none"
                 PROVE  r[i].carrier.lang = q[1].carrier.lang
      BY DEF StartsOn
    <2>1. ASSUME NEW k \in Places(q, s) PROVE k <= 1 \/ i + 1 <= k
      <3>1. k = 1 \/ (k \in Int /\ i <= k - 1)
        BY <1>2
      <3> QED BY <1>1, <3>1
    <2>2. 1 < i + 1 /\ i + 1 \in Places(q, s) /\ q[i + 1].reason = "none"
      BY <1>1
    <2> QED BY <1>1, <1>3, <2>1, <2>2 DEF Linked
  <1>7. Places(r, s) = {} => \A k \in Places(q, s) : k <= 1
    BY <1>2
  <1> QED BY <1>3, <1>4, <1>5, <1>6, <1>7 DEF EndsOn

\* A payload of another session joins the line at its end.
LEMMA LineWithOther ==
    ASSUME NEW q, NEW r, NEW s, Len(q) \in Nat, Len(r) = Len(q) + 1, r[Len(r)].sess # s,
           \A i \in 1..Len(q) : r[i] = q[i]
    PROVE  /\ Linked(q, s) => Linked(r, s)
           /\ \A x : EndsOn(q, s, x) => EndsOn(r, s, x)
           /\ \A x : StartsOn(q, s, x) => StartsOn(r, s, x)
           /\ Places(r, s) = Places(q, s)
  <1>1. ASSUME NEW i \in 1..Len(q) PROVE i \in 1..Len(r) /\ r[i] = q[i]
    OBVIOUS
  <1>2. ASSUME NEW i \in 1..Len(r), r[i].sess = s PROVE i \in 1..Len(q)
    BY <1>2
  <1>3. Places(r, s) = Places(q, s) /\ \A i \in Places(q, s) : r[i] = q[i]
    BY <1>1, <1>2 DEF Places
  <1> QED BY <1>3 DEF Linked, EndsOn, StartsOn

\* A payload of the session joins the line at its end.
LEMMA LineWithOwn ==
    ASSUME NEW q, NEW r, NEW p, NEW s, Len(q) \in Nat, Len(r) = Len(q) + 1, p.sess = s,
           \A i \in 1..Len(r) : r[i] = IF i = Len(r) THEN p ELSE q[i]
    PROVE  /\ Linked(q, s) /\ (p.reason = "none" => EndsOn(q, s, p.carrier.lang)) => Linked(r, s)
           /\ EndsOn(r, s, p.carrier.lang)
           /\ \A x : /\ StartsOn(q, s, x)
                     /\ Places(q, s) = {} /\ p.reason = "none" => x = p.carrier.lang
                     => StartsOn(r, s, x)
           /\ Places(r, s) # {}
  <1> DEFINE n == Len(q) + 1
  <1>1. n \in 1..Len(r) /\ r[n] = p /\ n \in Int
    OBVIOUS
  <1>2. \A i \in Places(q, s) : i \in Places(r, s) /\ r[i] = q[i] /\ i \in Int /\ i < n
    <2> SUFFICES ASSUME NEW i \in Places(q, s) PROVE i \in Places(r, s) /\ r[i] = q[i] /\ i \in Int /\ i < n
      OBVIOUS
    <2>1. i \in 1..Len(q) /\ q[i].sess = s
      BY DEF Places
    <2>2. i \in 1..Len(r) /\ i # Len(r) /\ i < n
      BY <2>1
    <2> QED BY <2>1, <2>2 DEF Places
  <1>3. \A i \in Places(r, s) : i \in Places(q, s) \/ i = n
    BY DEF Places
  <1>4. n \in Places(r, s)
    BY <1>1 DEF Places
  <1> HIDE DEF n
  <1>5. ASSUME Linked(q, s), p.reason = "none" => EndsOn(q, s, p.carrier.lang)
        PROVE  Linked(r, s)
    <2> SUFFICES ASSUME NEW i \in Places(r, s), NEW j \in Places(r, s), i < j,
                        \A k \in Places(r, s) : k <= i \/ j <= k, r[j].reason = "none"
                 PROVE  r[i].carrier.lang = r[j].carrier.lang
      BY DEF Linked
    <2>1. i \in Places(q, s)
      BY <1>1, <1>2, <1>3
    <2>2. CASE j \in Places(q, s)
      BY <1>2, <1>5, <2>1, <2>2 DEF Linked
    <2>3. CASE j = n
      <3>1. \A k \in Places(q, s) : k <= i
        <4> SUFFICES ASSUME NEW k \in Places(q, s) PROVE k <= i
          OBVIOUS
        <4>1. k \in Places(r, s) /\ k < n /\ k \in Int
          BY <1>2
        <4> QED BY <1>1, <2>3, <4>1
      <3>2. r[j] = p /\ r[i] = q[i]
        BY <1>1, <1>2, <2>1, <2>3
      <3> QED BY <1>5, <2>1, <3>1, <3>2 DEF EndsOn
    <2> QED BY <1>3, <2>2, <2>3
  <1>6. EndsOn(r, s, p.carrier.lang)
    <2> SUFFICES ASSUME NEW i \in Places(r, s), \A k \in Places(r, s) : k <= i
                 PROVE  r[i].carrier.lang = p.carrier.lang
      BY DEF EndsOn
    <2>1. n <= i
      BY <1>4
    <2>2. i = n
      <3>1. i \in Places(q, s) => i \in Int /\ i < n
        BY <1>2
      <3> QED BY <1>1, <1>3, <2>1, <3>1
    <2> QED BY <1>1, <2>2
  <1>7. ASSUME NEW x, StartsOn(q, s, x), Places(q, s) = {} /\ p.reason = "none" => x = p.carrier.lang
        PROVE  StartsOn(r, s, x)
    <2> SUFFICES ASSUME NEW i \in Places(r, s), \A k \in Places(r, s) : i <= k, r[i].reason = "none"
                 PROVE  r[i].carrier.lang = x
      BY DEF StartsOn
    <2>1. CASE i \in Places(q, s)
      BY <1>2, <1>7, <2>1 DEF StartsOn
    <2>2. CASE i = n
      <3>1. Places(q, s) = {}
        <4> SUFFICES ASSUME NEW k \in Places(q, s) PROVE FALSE
          OBVIOUS
        <4>1. k \in Places(r, s) /\ k < n /\ k \in Int
          BY <1>2
        <4> QED BY <1>1, <2>2, <4>1
      <3> QED BY <1>1, <1>7, <2>2, <3>1
    <2> QED BY <1>3, <2>1, <2>2
  <1> QED BY <1>4, <1>5, <1>6, <1>7

\* The payloads and the frame 0 they all start from.
PayloadInv ==
    /\ queue \in Seq(Payload)
    /\ \A s \in Session : enc[s] \in Carrier /\ enc[s].csf = 0
    /\ run.phase # "idle" => incoming \in Payload /\ incoming.sess = run.sess
    /\ run.phase \notin {"idle", "attached"} => run.carrier = incoming.carrier

\* Past the populate phase every branch of the session is populated.
ReadyInv ==
    /\ run.phase = "populate" => Branch \ run.todo \subseteq kv[run.sess].text \cap kv[run.sess].img
    /\ run.phase \in {"prefill", "written", "dit"} => CrossReady(run.sess)

\* The negative branch only ever holds the negative prompt.
NegInv == \A s \in Session : \A b \in Branch \ {"pos"} :
    b \in kv[s].text /\ s \in cross[b].textBy => cross[b].text = NegPrompt

\* s wrote the positive text of the cross pool last and holds it for populated.
Wrote(s) == "pos" \in kv[s].text /\ s \in cross["pos"].textBy

\* The forward of s has taken over what its payload carries.
Taken(s) == run.sess = s /\ run.phase \notin {"idle", "attached"}

\* From the encode worker to the cross pool a session has one prompt, up to the
\* payloads that bring a reset.
Chained(s) ==
    /\ Linked(Line, s)
    /\ enc[s].lang # NoPrompt => EndsOn(Line, s, enc[s].lang)
    /\ Wrote(s) => IF Taken(s) THEN cross["pos"].text = incoming.carrier.lang
                   ELSE /\ StartsOn(Line, s, cross["pos"].text)
                        /\ Places(Line, s) = {} /\ enc[s].lang # NoPrompt
                             => cross["pos"].text = enc[s].lang

ChainInv == \A s \in Session \ lost : Chained(s)

DisaggInv == WorkerInv /\ PayloadInv /\ ReadyInv /\ NegInv /\ ChainInv

\* Attaching the payload at the head of the queue leaves the line as it is.
LEMMA LineReceived ==
    ASSUME DisaggInv, Receive
    PROVE  Line' = Line /\ queue[1] \in Payload /\ queue' \in Seq(Payload)
  <1>1. /\ run.phase = "idle" /\ queue # <<>> /\ incoming' = queue[1] /\ queue' = Tail(queue)
        /\ run'.phase = "attached" /\ queue \in Seq(Payload)
    BY DEF Receive, Attach, Idle, DisaggInv, PayloadInv
  <1>2. Head(queue) \in Payload /\ Tail(queue) \in Seq(Payload) /\ Head(queue) = queue[1]
    BY <1>1
  <1>3. <<Head(queue)>> \o Tail(queue) = queue
    BY <1>1, HeadTailProperties
  <1> QED BY <1>1, <1>2, <1>3 DEF Line

\* The forward that ends takes its payload out of the line.
LEMMA LineDone ==
    ASSUME DisaggInv, run.phase # "idle", run'.phase = "idle", queue' = queue
    PROVE  /\ Len(Line) \in Nat \ {0} /\ Line[1] = incoming /\ Len(Line') = Len(Line) - 1
           /\ \A i \in 1..Len(Line') : Line'[i] = Line[i + 1]
  <1>1. queue \in Seq(Payload) /\ incoming \in Payload
    BY DEF DisaggInv, PayloadInv
  <1> DEFINE u == <<incoming>>
             r == u \o queue
  <1>2. u \in Seq(Payload) /\ Len(u) = 1 /\ u[1] = incoming /\ Len(queue) \in Nat
    BY <1>1
  <1> HIDE DEF u
  <1>3. /\ Len(r) = 1 + Len(queue)
        /\ \A i \in 1..(1 + Len(queue)) : r[i] = IF i <= 1 THEN u[i] ELSE queue[i - 1]
    <2>1. /\ Len(u \o queue) = Len(u) + Len(queue)
          /\ \A i \in 1..(Len(u) + Len(queue)) : (u \o queue)[i] = IF i <= Len(u) THEN u[i] ELSE queue[i - Len(u)]
      BY <1>1, <1>2, ConcatProperties
    <2> QED BY <1>2, <2>1
  <1>4. Line = r /\ Line' = queue
    BY DEF Line, u
  <1> HIDE DEF r
  <1>5. 1 \in 1..(1 + Len(queue)) /\ r[1] = incoming
    BY <1>2, <1>3
  <1>6. ASSUME NEW i \in 1..Len(queue) PROVE queue[i] = r[i + 1]
    <2>1. i + 1 \in 1..(1 + Len(queue)) /\ ~(i + 1 <= 1) /\ i + 1 - 1 = i
      BY <1>2
    <2> QED BY <1>3, <2>1
  <1>7. Len(r) \in Nat \ {0} /\ Len(queue) = Len(r) - 1
    BY <1>2, <1>3
  <1> QED BY <1>4, <1>5, <1>6, <1>7

\* The chain of a session after a step, part by part.
LEMMA ChainedNext ==
    ASSUME NEW s \in Session, Linked(Line', s),
           enc'[s].lang # NoPrompt => EndsOn(Line', s, enc'[s].lang),
           Wrote(s)' => IF Taken(s)' THEN cross'["pos"].text = incoming'.carrier.lang
                        ELSE /\ StartsOn(Line', s, cross'["pos"].text)
                             /\ Places(Line', s) = {} /\ enc'[s].lang # NoPrompt
                                  => cross'["pos"].text = enc'[s].lang
    PROVE  Chained(s)'
  BY DEF Chained, Linked, EndsOn, StartsOn, Places

\* A received payload keeps its place at the head of its line.
LEMMA ReceiveStep ==
    ASSUME DisaggInv, Receive
    PROVE  DisaggInv'
  <1> DEFINE t == queue[1].sess
  <1>0. /\ Attach(t) /\ t \in Session /\ WorkerInv /\ TypeInv
        /\ run.phase = "idle" /\ run'.phase = "attached" /\ run'.sess = t
        /\ incoming' = queue[1] /\ cross' = cross /\ enc' = enc /\ lost' = lost
        /\ Close(Evicted(MoveToEnd(sessions, t)))
    BY LineReceived DEF Receive, Attach, Idle, encVars, Payload, DisaggInv, WorkerInv
  <1>1. WorkerInv'
    BY <1>0, AttachWorker DEF DisaggInv
  <1>2. PayloadInv'
    BY <1>0, LineReceived DEF DisaggInv, PayloadInv
  <1>3. ReadyInv'
    BY <1>0 DEF ReadyInv
  <1>4. \A s \in Session : kv'[s] = kv[s] \/ kv'[s].text = {}
    BY <1>0, CloseEffect, FreshKvType
  <1>5. NegInv'
    BY <1>0, <1>4 DEF DisaggInv, NegInv
  <1>6. ChainInv'
    <2> SUFFICES ASSUME NEW s \in Session \ lost PROVE Chained(s)'
      BY <1>0 DEF ChainInv
    <2>1. Chained(s) /\ ~Taken(s) /\ ~Taken(s)'
      BY <1>0 DEF DisaggInv, ChainInv, Taken
    <2>2. Wrote(s)' => Wrote(s)
      BY <1>0, <1>4 DEF Wrote
    <2>3. Line' = Line
      BY LineReceived
    <2> HIDE DEF t
    <2> QED BY <1>0, <2>1, <2>2, <2>3 DEF Chained, Linked, EndsOn, StartsOn, Places
  <1> QED BY <1>1, <1>2, <1>3, <1>5, <1>6 DEF DisaggInv

\* The reset a payload brings is applied before its prompt is taken over.
LEMMA RealignStep ==
    ASSUME DisaggInv, Realign
    PROVE  DisaggInv'
  <1> DEFINE s == run.sess
             c == incoming.carrier
             reason == incoming.reason
             m == [ResetModel(dz[s], reason) EXCEPT !.csf = c.csf, !.clip = c.clip]
  <1>0. /\ run.phase = "attached" /\ s \in Session /\ TypeInv /\ WorkerInv
        /\ incoming \in Payload /\ incoming.sess = s /\ c.csf = 0
        /\ UseState(s, m) /\ ResetKv(s, reason) /\ StartForward(s, c)
        /\ sessions' = sessions /\ cross' = cross
        /\ enc' = enc /\ queue' = queue /\ incoming' = incoming /\ lost' = lost
    BY DEF Realign, encVars, Payload, DisaggInv, WorkerInv, PayloadInv, TypeInv
  <1>1. /\ run'.phase = "populate" /\ run'.sess = s /\ run'.carrier = c /\ run'.todo = Branch
    BY <1>0 DEF StartForward
  <1>2. c \in Carrier /\ c.clip \in Clip /\ c.lang \in Prompt /\ reason \in {"session", "none"}
    BY <1>0 DEF Payload, Carrier
  <1>3. m \in Carrier
    BY <1>0, <1>2 DEF ResetModel, FreshModel, Carrier, TypeInv
  <1> HIDE DEF m
  <1>4. WorkerInv'
    BY <1>0, <1>2, <1>3, BeginWorker
  <1>5. PayloadInv'
    BY <1>0, <1>1 DEF DisaggInv, PayloadInv
  <1>6. ReadyInv'
    BY <1>1 DEF ReadyInv
  <1>7. \A t \in Session : \/ kv'[t] = kv[t] /\ (t = s => reason = "none")
                           \/ kv'[t].text = {}
    BY <1>0, <1>2, ResetKvEffect
  <1>8. NegInv'
    BY <1>0, <1>7 DEF DisaggInv, NegInv
  <1>9. ChainInv'
    <2> SUFFICES ASSUME NEW t \in Session \ lost PROVE Chained(t)'
      BY <1>0 DEF ChainInv
    <2>1. Chained(t) /\ ~Taken(t) /\ (Taken(t)' <=> t = s)
      BY <1>0, <1>1 DEF DisaggInv, ChainInv, Taken
    <2>2. Wrote(t)' => Wrote(t) /\ (t = s => reason = "none")
      BY <1>0, <1>7 DEF Wrote
    <2>3. Line' = Line
      BY <1>0, <1>1 DEF Line
    <2>4. CASE t # s
      BY <1>0, <2>1, <2>2, <2>3, <2>4 DEF Chained, Linked, EndsOn, StartsOn, Places
    <2>5. CASE t = s
      <3>1. Wrote(t)' => cross["pos"].text = c.lang
        <4> SUFFICES ASSUME Wrote(t)' PROVE cross["pos"].text = c.lang
          OBVIOUS
        <4>1. Line \in Seq(Payload) /\ Line[1] = incoming /\ Len(Line) >= 1
          BY <1>0 DEF Line, DisaggInv, PayloadInv
        <4>2. 1 \in Places(Line, s) /\ \A k \in Places(Line, s) : 1 <= k
          BY <1>0, <4>1 DEF Places
        <4>3. StartsOn(Line, s, cross["pos"].text) /\ reason = "none"
          BY <2>1, <2>2, <2>5 DEF Chained
        <4> QED BY <4>1, <4>2, <4>3 DEF StartsOn
      <3> QED BY <1>0, <2>1, <2>3, <2>5, <3>1 DEF Chained, Linked, EndsOn, StartsOn, Places
    <2> QED BY <2>4, <2>5
  <1> QED BY <1>4, <1>5, <1>6, <1>8, <1>9 DEF DisaggInv

\* The encode stage of a session: with the payload it packs the prompt of its
\* model state becomes that of the session's last payload.
LEMMA EncodeStageStep ==
    ASSUME DisaggInv, NEW t \in Session, NEW prompt \in Prompt, NEW explicit \in BOOLEAN,
           NEW clip \in Clip, EncodeStage(t, prompt, explicit, clip)
    PROVE  DisaggInv'
  <1> DEFINE reason == ResetReason(enc[t], prompt, explicit)
             model == [ResetModel(enc[t], reason) EXCEPT !.lang = prompt]
             encoded == [model EXCEPT !.clip = IF model.csf = 0 THEN clip ELSE @]
             p == [sess |-> t, carrier |-> encoded, reason |-> reason]
  <1>0. /\ UNCHANGED <<rolloutVars, incoming>> /\ WorkerInv /\ PayloadInv
        /\ \/ UseEncState(t, encoded) /\ queue' = Append(queue, p) /\ lost' = lost
           \/ UseEncState(t, model) /\ queue' = queue /\ lost' = lost \cup {t}
           \/ UseEncState(t, enc[t]) /\ queue' = queue /\ lost' = lost
    BY DEF EncodeStage, DisaggInv
  <1>1. run' = run /\ kv' = kv /\ cross' = cross /\ incoming' = incoming
    BY <1>0 DEF rolloutVars
  <1>2. enc[t] \in Carrier /\ enc[t].csf = 0
    BY <1>0 DEF PayloadInv
  <1>3. reason = "session" \/ (reason = "none" /\ enc[t].lang = prompt)
    BY <1>2, WindowType, WindowAssumption DEF ResetReason
  <1>4. /\ model \in Carrier /\ model.csf = 0 /\ model.lang = prompt
        /\ encoded \in Carrier /\ encoded.csf = 0 /\ encoded.lang = prompt /\ encoded.clip = clip
        /\ encoded \in [csf : {0}, lang : Prompt, clip : Clip]
    BY <1>2, <1>3 DEF ResetModel, FreshModel, Carrier
  <1> HIDE DEF reason, model, encoded
  <1>5. p \in Payload /\ p.sess = t /\ p.reason = reason /\ p.carrier.lang = prompt
    BY <1>3, <1>4 DEF Payload
  <1> HIDE DEF p
  <1>6. \A s \in Session \ {t} : enc'[s] = enc[s] \/ enc'[s] = FreshModel
    BY <1>0 DEF UseEncState
  <1>7. \/ enc'[t] = encoded /\ queue' = Append(queue, p) /\ lost' = lost
        \/ enc'[t] = model /\ queue' = queue /\ lost' = lost \cup {t}
        \/ enc'[t] = enc[t] /\ queue' = queue /\ lost' = lost
    BY <1>0 DEF UseEncState
  <1>8. WorkerInv'
    BY <1>0, StutterWorker
  <1>9. PayloadInv'
    <2>1. queue' \in Seq(Payload)
      BY <1>0, <1>5, <1>7 DEF PayloadInv
    <2>2. \A s \in Session : enc'[s] \in Carrier /\ enc'[s].csf = 0
      BY <1>0, <1>2, <1>4, <1>6, <1>7 DEF PayloadInv, FreshModel, Carrier
    <2> QED BY <1>0, <1>1, <2>1, <2>2 DEF PayloadInv
  <1>10. ReadyInv' /\ NegInv'
    BY <1>1 DEF DisaggInv, ReadyInv, NegInv, CrossReady
  <1>11. ChainInv'
    <2> SUFFICES ASSUME NEW s \in Session \ lost' PROVE Chained(s)'
      BY DEF ChainInv
    <2>1. s \in Session \ lost /\ Chained(s)
      BY <1>7 DEF DisaggInv, ChainInv
    <2>2. (Wrote(s)' <=> Wrote(s)) /\ (Taken(s)' <=> Taken(s))
      BY <1>1 DEF Wrote, Taken
    <2>3. CASE queue' = queue
      <3>1. Line' = Line
        BY <1>1, <2>3 DEF Line
      <3>2. enc'[s] = enc[s] \/ enc'[s] = FreshModel
        <4>1. s = t => enc'[t] = enc[t] \/ queue' = Append(queue, p)
          BY <1>7
        <4>2. queue' # Append(queue, p)
          BY <1>0, <1>5, <2>3 DEF PayloadInv
        <4> QED BY <1>6, <4>1, <4>2
      <3>3. enc'[s].lang # NoPrompt => enc'[s] = enc[s]
        BY <3>2 DEF FreshModel
      <3> QED BY <1>1, <2>1, <2>2, <3>1, <3>3 DEF Chained, Linked, EndsOn, StartsOn, Places
    <2>4. CASE enc'[t] = encoded /\ queue' = Append(queue, p)
      <3> DEFINE r == Line'
      <3>1. /\ Line \in Seq(Payload) /\ Len(Line) \in Nat /\ Line' = Append(Line, p)
        BY <1>0, <1>1, <1>5, <2>4 DEF Line, PayloadInv
      <3>2. Len(r) = Len(Line) + 1 /\ \A i \in 1..Len(r) : r[i] = IF i = Len(r) THEN p ELSE Line[i]
        BY <1>5, <3>1
      <3> HIDE DEF r
      <3>3. CASE s # t
        <4>1. /\ Linked(Line, s) => Linked(r, s)
              /\ \A x : EndsOn(Line, s, x) => EndsOn(r, s, x)
              /\ \A x : StartsOn(Line, s, x) => StartsOn(r, s, x)
              /\ Places(r, s) = Places(Line, s)
          <5>1. p.sess # s
            BY <1>5, <3>3
          <5>2. Len(Line) \in Nat /\ Len(r) = Len(Line) + 1
            BY <3>1, <3>2
          <5>3. r[Len(r)].sess # s
            BY <3>2, <5>1, <5>2
          <5>4. \A i \in 1..Len(Line) : r[i] = Line[i]
            BY <3>2, <5>2
          <5> QED BY <5>2, <5>3, <5>4, LineWithOther
        <4>2. enc'[s].lang # NoPrompt => enc'[s] = enc[s]
          BY <1>6, <3>3 DEF FreshModel
        <4>3. /\ Linked(r, s) /\ (enc'[s].lang # NoPrompt => EndsOn(r, s, enc'[s].lang))
              /\ Wrote(s)' => IF Taken(s)' THEN cross'["pos"].text = incoming'.carrier.lang
                              ELSE /\ StartsOn(r, s, cross'["pos"].text)
                                   /\ Places(r, s) = {} /\ enc'[s].lang # NoPrompt
                                        => cross'["pos"].text = enc'[s].lang
          BY <1>1, <2>1, <2>2, <4>1, <4>2 DEF Chained
        <4> QED BY <2>1, <4>3, ChainedNext DEF r
      <3>4. CASE s = t
        <4>1. p.reason = "none" => EndsOn(Line, s, p.carrier.lang) /\ enc[s].lang = prompt /\ prompt # NoPrompt
          BY <1>3, <1>5, <2>1, <3>4, ContentAssumption DEF Chained
        <4>2. /\ Linked(Line, s) /\ (p.reason = "none" => EndsOn(Line, s, p.carrier.lang)) => Linked(r, s)
              /\ EndsOn(r, s, p.carrier.lang)
              /\ \A x : /\ StartsOn(Line, s, x)
                        /\ Places(Line, s) = {} /\ p.reason = "none" => x = p.carrier.lang
                        => StartsOn(r, s, x)
              /\ Places(r, s) # {}
          BY <1>5, <3>1, <3>2, <3>4, LineWithOwn
        <4>3. Linked(r, s) /\ EndsOn(r, s, prompt) /\ enc'[s].lang = prompt
          BY <1>4, <1>5, <2>1, <2>4, <3>4, <4>1, <4>2 DEF Chained
        <4>4. Wrote(s) /\ ~Taken(s) => StartsOn(r, s, cross["pos"].text)
          BY <1>5, <2>1, <4>1, <4>2 DEF Chained
        <4>5. Wrote(s)' /\ Taken(s)' => cross'["pos"].text = incoming'.carrier.lang
          BY <1>1, <2>1, <2>2 DEF Chained
        <4> QED BY <1>1, <2>1, <2>2, <4>2, <4>3, <4>4, <4>5, ChainedNext DEF r
      <3> QED BY <3>3, <3>4
    <2> QED BY <1>7, <2>3, <2>4
  <1> QED BY <1>8, <1>9, <1>10, <1>11 DEF DisaggInv

\* An abort takes a payload out of the line, and its session off the promise.
LEMMA AbortBetweenStep ==
    ASSUME DisaggInv, NEW n \in DOMAIN queue, AbortBetween(n)
    PROVE  DisaggInv'
  <1> DEFINE u == SubSeq(queue, 1, n - 1)
             v == SubSeq(queue, n + 1, Len(queue))
             d == IF run.phase = "idle" THEN 0 ELSE 1
             r == Line'
  <1>0. /\ UNCHANGED <<rolloutVars, incoming>> /\ WorkerInv /\ PayloadInv
        /\ enc' = enc /\ lost' = lost \cup {queue[n].sess} /\ queue' = u \o v
    BY DEF AbortBetween, DisaggInv, encVars
  <1>1. run' = run /\ kv' = kv /\ cross' = cross /\ incoming' = incoming
    BY <1>0 DEF rolloutVars
  <1>2. queue \in Seq(Payload) /\ Len(queue) \in Nat /\ n \in 1..Len(queue)
    BY <1>0 DEF PayloadInv
  <1>3. /\ u \in Seq(Payload) /\ Len(u) = n - 1 /\ \A j \in 1..(n - 1) : u[j] = queue[j]
        /\ v \in Seq(Payload) /\ Len(v) = Len(queue) - n /\ \A j \in 1..(Len(queue) - n) : v[j] = queue[n + j]
    BY <1>2, SubSeqProperties
  <1> HIDE DEF u, v
  <1>4. /\ queue' \in Seq(Payload) /\ Len(queue') = Len(queue) - 1
        /\ \A j \in 1..(Len(queue) - 1) : queue'[j] = IF j < n THEN queue[j] ELSE queue[j + 1]
    <2>1. /\ u \o v \in Seq(Payload) /\ Len(u \o v) = Len(u) + Len(v)
          /\ \A j \in 1..(Len(u) + Len(v)) : (u \o v)[j] = IF j <= Len(u) THEN u[j] ELSE v[j - Len(u)]
      BY <1>3, ConcatProperties
    <2>2. Len(u) + Len(v) = Len(queue) - 1
      BY <1>2, <1>3
    <2>3. ASSUME NEW j \in 1..(Len(queue) - 1)
          PROVE  (u \o v)[j] = IF j < n THEN queue[j] ELSE queue[j + 1]
      <3>1. CASE j < n
        <4>1. j \in 1..(n - 1) /\ j <= n - 1
          BY <1>2, <3>1
        <4> QED BY <1>3, <2>1, <2>2, <3>1, <4>1
      <3>2. CASE ~(j < n)
        <4> DEFINE k == j - (n - 1)
        <4>1. k \in 1..(Len(queue) - n) /\ ~(j <= n - 1) /\ n + k = j + 1
          BY <1>2, <3>2
        <4>2. (u \o v)[j] = v[k]
          BY <1>3, <2>1, <2>2, <4>1
        <4> HIDE DEF k
        <4>3. v[k] = queue[n + k]
          BY <1>3, <4>1
        <4> QED BY <3>2, <4>1, <4>2, <4>3
      <3> QED BY <3>1, <3>2
    <2> QED BY <1>0, <2>1, <2>2, <2>3
  <1>5. PayloadInv'
    BY <1>0, <1>1, <1>4 DEF PayloadInv
  <1>6. WorkerInv' /\ ReadyInv' /\ NegInv'
    BY <1>0, <1>1, StutterWorker DEF DisaggInv, ReadyInv, NegInv, CrossReady
  <1>7. /\ Len(Line) \in Nat /\ n + d \in 1..Len(Line) /\ Line[n + d] = queue[n]
        /\ Len(r) = Len(Line) - 1
        /\ \A i \in 1..Len(r) : r[i] = IF i < n + d THEN Line[i] ELSE Line[i + 1]
    <2>1. CASE run.phase = "idle"
      BY <1>1, <1>2, <1>4, <2>1 DEF Line
    <2>2. CASE run.phase # "idle"
      <3> DEFINE a == <<incoming>>
                 x == a \o queue
                 y == a \o queue'
      <3>1. a \in Seq(Payload) /\ Len(a) = 1
        BY <1>0, <2>2 DEF PayloadInv
      <3>2. Line = x /\ r = y
        BY <1>1, <2>2 DEF Line
      <3> HIDE DEF r, a
      <3>3. Len(x) = 1 + Len(queue) /\ \A i \in 1..(1 + Len(queue)) : x[i] = IF i <= 1 THEN a[i] ELSE queue[i - 1]
        <4>1. /\ Len(x) = Len(a) + Len(queue)
              /\ \A i \in 1..(Len(a) + Len(queue)) : x[i] = IF i <= Len(a) THEN a[i] ELSE queue[i - Len(a)]
          BY <1>2, <3>1, ConcatProperties
        <4> QED BY <3>1, <4>1
      <3>4. Len(y) = Len(queue) /\ \A i \in 1..Len(queue) : y[i] = IF i <= 1 THEN a[i] ELSE queue'[i - 1]
        <4>0. a \in Seq(Payload) /\ queue' \in Seq(Payload)
          BY <1>4, <3>1
        <4>1. /\ Len(y) = Len(a) + Len(queue')
              /\ \A i \in 1..(Len(a) + Len(queue')) : y[i] = IF i <= Len(a) THEN a[i] ELSE queue'[i - Len(a)]
          BY <4>0, ConcatProperties
        <4>2. Len(a) + Len(queue') = Len(queue)
          BY <1>2, <1>4, <3>1
        <4> QED BY <3>1, <4>1, <4>2
      <3> HIDE DEF x, y
      <3>5. d = 1 /\ n + 1 \in 1..(1 + Len(queue)) /\ x[n + 1] = queue[n]
        BY <1>2, <2>2, <3>3
      <3>6. ASSUME NEW i \in 1..Len(queue) PROVE y[i] = IF i < n + 1 THEN x[i] ELSE x[i + 1]
        <4>1. CASE i = 1
          BY <1>2, <3>3, <3>4, <4>1
        <4>2. CASE i # 1
          <5>1. /\ i - 1 \in 1..(Len(queue) - 1) /\ ~(i <= 1) /\ ~(i + 1 <= 1)
                /\ i - 1 + 1 = i /\ i + 1 - 1 = i /\ (i - 1 < n <=> i < n + 1)
                /\ i \in 1..(1 + Len(queue)) /\ i + 1 \in 1..(1 + Len(queue))
            BY <1>2, <4>2
          <5>2. queue'[i - 1] = IF i - 1 < n THEN queue[i - 1] ELSE queue[i]
            BY <1>4, <5>1
          <5>3. x[i] = queue[i - 1] /\ x[i + 1] = queue[i] /\ y[i] = queue'[i - 1]
            BY <3>3, <3>4, <5>1
          <5> QED BY <5>1, <5>2, <5>3
        <4> QED BY <4>1, <4>2
      <3> QED BY <1>2, <3>2, <3>3, <3>4, <3>5, <3>6
    <2> QED BY <2>1, <2>2
  <1>8. ChainInv'
    <2> SUFFICES ASSUME NEW s \in Session \ lost' PROVE Chained(s)'
      BY DEF ChainInv
    <2>1. Chained(s) /\ queue[n].sess # s
      BY <1>0 DEF DisaggInv, ChainInv
    <2>2. (Wrote(s)' <=> Wrote(s)) /\ (Taken(s)' <=> Taken(s))
      BY <1>1 DEF Wrote, Taken
    <2> DEFINE m == n + d
    <2>3. /\ m \in 1..Len(Line) /\ Line[m].sess # s /\ Len(Line) \in Nat /\ Len(r) = Len(Line) - 1
          /\ \A i \in 1..Len(r) : r[i] = IF i < m THEN Line[i] ELSE Line[i + 1]
      BY <1>7, <2>1
    <2> HIDE DEF m, d, r
    <2>4. /\ Linked(Line, s) => Linked(r, s)
          /\ \A x : EndsOn(Line, s, x) => EndsOn(r, s, x)
          /\ \A x : StartsOn(Line, s, x) => StartsOn(r, s, x)
          /\ Places(r, s) = {} => Places(Line, s) = {}
      BY <2>3, LineWithoutOther
    <2>5. /\ Linked(r, s) /\ (enc'[s].lang # NoPrompt => EndsOn(r, s, enc'[s].lang))
          /\ Wrote(s)' => IF Taken(s)' THEN cross'["pos"].text = incoming'.carrier.lang
                          ELSE /\ StartsOn(r, s, cross'["pos"].text)
                               /\ Places(r, s) = {} /\ enc'[s].lang # NoPrompt
                                    => cross'["pos"].text = enc'[s].lang
      BY <1>0, <1>1, <2>1, <2>2, <2>4 DEF Chained
    <2> QED BY <2>5, ChainedNext DEF r
  <1> QED BY <1>5, <1>6, <1>8 DEF DisaggInv

\* What a write of the cross pool by the running session means for a session.
LEMMA CrossAfter ==
    ASSUME TypeInv, NEW b \in Branch, NEW x, NEW y, NEW s \in Session, NEW c \in Branch,
           cross'[c] = IF c = b THEN CrossWritten(b, x, y) ELSE cross[c]
    PROVE  \/ cross'[c].textBy = cross[c].textBy /\ cross'[c].text = cross[c].text
           \/ c = b /\ b \notin kv[run.sess].text /\ cross'[c].textBy = {run.sess} /\ cross'[c].text = x
  BY CrossEffect

\* A step of the running forward that neither ends it nor resets a session.
LEMMA ForwardKeepsChain ==
    ASSUME DisaggInv, run.phase \notin {"idle", "attached"}, run'.phase \notin {"idle", "attached"},
           run'.sess = run.sess, UNCHANGED <<encVars, queue, incoming, lost>>,
           \A s \in Session : Wrote(s)' =>
              \/ Wrote(s) /\ cross'["pos"].text = cross["pos"].text
              \/ s = run.sess /\ cross'["pos"].text = incoming.carrier.lang
    PROVE  ChainInv'
  <1> SUFFICES ASSUME NEW s \in Session \ lost PROVE Chained(s)'
    BY DEF ChainInv
  <1>1. Line' = Line /\ enc' = enc /\ incoming' = incoming
    BY DEF Line, encVars
  <1>2. Taken(s)' <=> Taken(s)
    BY DEF Taken
  <1>3. Chained(s)
    BY DEF DisaggInv, ChainInv
  <1>4. s = run.sess => Taken(s)
    BY DEF Taken
  <1> QED BY <1>1, <1>2, <1>3, <1>4, ChainedNext DEF Chained

\* The end of a forward: the next payload of its session continues its prompt.
LEMMA EndKeepsChain ==
    ASSUME DisaggInv, run.phase # "idle", run'.phase = "idle",
           UNCHANGED <<encVars, queue, incoming, lost>>,
           \A s \in Session : Wrote(s)' =>
              /\ Wrote(s) /\ cross'["pos"].text = cross["pos"].text
              /\ s = run.sess => run.phase # "attached"
    PROVE  ChainInv'
  <1> SUFFICES ASSUME NEW s \in Session \ lost PROVE Chained(s)'
    BY DEF ChainInv
  <1> DEFINE q == Line
             r == Line'
  <1>0. enc' = enc /\ queue' = queue /\ incoming.sess = run.sess
    BY DEF encVars, DisaggInv, PayloadInv
  <1>1. /\ Len(q) \in Nat \ {0} /\ q[1] = incoming /\ Len(r) = Len(q) - 1
        /\ \A i \in 1..Len(r) : r[i] = q[i + 1]
    BY <1>0, LineDone
  <1>2. ~Taken(s)'
    BY DEF Taken
  <1>3. /\ Linked(q, s) /\ (enc[s].lang # NoPrompt => EndsOn(q, s, enc[s].lang))
        /\ Wrote(s) => IF Taken(s) THEN cross["pos"].text = incoming.carrier.lang
                       ELSE /\ StartsOn(q, s, cross["pos"].text)
                            /\ Places(q, s) = {} /\ enc[s].lang # NoPrompt
                                 => cross["pos"].text = enc[s].lang
    BY DEF DisaggInv, ChainInv, Chained
  <1> HIDE DEF q, r
  <1>4. CASE s # run.sess
    <2>1. ~Taken(s)
      BY <1>4 DEF Taken
    <2>2. q[1].sess # s /\ 1 \in 1..Len(q) /\ \A i \in 1..Len(r) : r[i] = IF i < 1 THEN q[i] ELSE q[i + 1]
      BY <1>0, <1>1, <1>4
    <2>3. /\ Linked(q, s) => Linked(r, s)
          /\ \A x : EndsOn(q, s, x) => EndsOn(r, s, x)
          /\ \A x : StartsOn(q, s, x) => StartsOn(r, s, x)
          /\ Places(r, s) = {} => Places(q, s) = {}
      <3>1. Len(q) \in Nat
        BY <1>1
      <3> QED BY <1>1, <2>2, <3>1, LineWithoutOther
    <2> QED BY <1>0, <1>2, <1>3, <2>1, <2>3, ChainedNext DEF r
  <1>5. CASE s = run.sess
    <2>1. /\ Linked(r, s)
          /\ \A x : EndsOn(q, s, x) => EndsOn(r, s, x)
          /\ StartsOn(r, s, q[1].carrier.lang)
          /\ Places(r, s) = {} => \A x : EndsOn(q, s, x) => q[1].carrier.lang = x
      BY <1>0, <1>1, <1>3, <1>5, LineWithoutOwn
    <2>2. Wrote(s)' => cross'["pos"].text = q[1].carrier.lang
      <3>1. Wrote(s)' => Wrote(s) /\ Taken(s) /\ cross'["pos"].text = cross["pos"].text
        BY <1>5 DEF Taken
      <3> QED BY <1>1, <1>3, <3>1
    <2> QED BY <1>0, <1>2, <1>3, <2>1, <2>2, ChainedNext DEF r
  <1> QED BY <1>4, <1>5

\* Populating writes the prompt the payload carries.
LEMMA PopulateInDisagg ==
    ASSUME DisaggInv, NEW b \in Branch, Populate(b), UNCHANGED <<encVars, queue, incoming, lost>>
    PROVE  DisaggInv'
  <1> DEFINE s == run.sess
  <1>0. /\ run.phase = "populate" /\ s \in Session /\ TypeInv /\ WorkerInv
        /\ cross' = [cross EXCEPT ![b] = CrossWritten(b, TextOf(b), run.carrier.clip)]
        /\ run.carrier = incoming.carrier /\ run.todo # {} /\ b \in run.todo
    BY FirstIn DEF Populate, DisaggInv, WorkerInv, TypeInv, TodoInv, PayloadInv
  <1>1. /\ \A t \in Session : t # s => kv'[t] = kv[t]
        /\ kv'[s].text = kv[s].text \cup {b} /\ kv'[s].img = kv[s].img \cup {b}
        /\ run'.sess = s /\ run'.carrier = run.carrier
        /\ run.todo = {b} => run'.phase = "prefill" /\ run'.todo = LocalBranch
        /\ run.todo # {b} => run'.phase = "populate" /\ run'.todo = run.todo \ {b}
    BY <1>0, PopulateEffect
  <1>2. WorkerInv'
    BY <1>0, PopulateWorker
  <1>3. PayloadInv'
    BY <1>0, <1>1 DEF DisaggInv, PayloadInv, encVars
  <1>4. ReadyInv'
    BY <1>0, <1>1 DEF DisaggInv, ReadyInv, CrossReady
  <1>5. ASSUME NEW t \in Session, NEW c \in Branch, c \in kv'[t].text, t \in cross'[c].textBy
        PROVE  \/ c \in kv[t].text /\ t \in cross[c].textBy /\ cross'[c].text = cross[c].text
               \/ t = s /\ cross'[c].text = TextOf(c)
    <2>1. CASE cross'[c].textBy = cross[c].textBy /\ cross'[c].text = cross[c].text
      <3>1. CASE c \in kv[t].text
        BY <1>5, <2>1, <3>1
      <3>2. CASE c \notin kv[t].text
        <4>1. t = s /\ c = b
          BY <1>1, <1>5, <3>2
        <4>2. cross'[c].text = TextOf(c)
          BY <1>0, <3>2, <4>1, CrossEffect DEF TypeInv
        <4> QED BY <4>1, <4>2
      <3> QED BY <3>1, <3>2
    <2>2. CASE c = b /\ cross'[c].textBy = {s} /\ cross'[c].text = TextOf(b)
      BY <1>5, <2>2
    <2>3. \/ cross'[c].textBy = cross[c].textBy /\ cross'[c].text = cross[c].text
          \/ c = b /\ b \notin kv[run.sess].text /\ cross'[c].textBy = {run.sess} /\ cross'[c].text = TextOf(b)
      <3> DEFINE x == TextOf(b)
                 y == run.carrier.clip
      <3>1. cross'[c] = (IF c = b THEN CrossWritten(b, x, y) ELSE cross[c]) /\ TypeInv
        BY <1>0 DEF TypeInv
      <3> HIDE DEF x, y
      <3>2. \/ cross'[c].textBy = cross[c].textBy /\ cross'[c].text = cross[c].text
            \/ c = b /\ b \notin kv[run.sess].text /\ cross'[c].textBy = {run.sess} /\ cross'[c].text = x
        BY <3>1, CrossAfter
      <3> QED BY <3>2 DEF x
    <2> QED BY <2>1, <2>2, <2>3
  <1>6. NegInv'
    BY <1>5 DEF DisaggInv, NegInv, TextOf
  <1>7. ChainInv'
    <2>1. TextOf("pos") = incoming.carrier.lang /\ "pos" \in Branch
      BY <1>0, BranchAssumption DEF TextOf
    <2>2. \A t \in Session : Wrote(t)' => \/ Wrote(t) /\ cross'["pos"].text = cross["pos"].text
                                          \/ t = s /\ cross'["pos"].text = incoming.carrier.lang
      BY <1>5, <2>1 DEF Wrote
    <2>3. run'.phase \notin {"idle", "attached"}
      BY <1>1
    <2> QED BY <1>0, <1>1, <2>2, <2>3, ForwardKeepsChain
  <1> QED BY <1>2, <1>3, <1>4, <1>6, <1>7 DEF DisaggInv

\* The forwards of the branches write no text.
LEMMA PrefillInDisagg ==
    ASSUME DisaggInv, NEW b \in Branch, Prefill(b), UNCHANGED <<encVars, queue, incoming, lost>>
    PROVE  DisaggInv'
  <1>0. run.phase = "prefill" /\ cross' = cross /\ TypeInv /\ WorkerInv /\ run.sess \in Session
    BY DEF Prefill, DisaggInv, WorkerInv, TypeInv
  <1>1. /\ \A t \in Session : kv'[t].text = kv[t].text /\ kv'[t].img = kv[t].img
        /\ run'.phase = "written" /\ run'.sess = run.sess /\ run'.carrier = run.carrier
    BY <1>0, PrefillEffect
  <1>2. WorkerInv'
    BY <1>0, PrefillWorker
  <1>3. PayloadInv' /\ ReadyInv' /\ NegInv'
    BY <1>0, <1>1 DEF DisaggInv, PayloadInv, ReadyInv, NegInv, CrossReady, encVars
  <1>4. ChainInv'
    BY <1>0, <1>1, ForwardKeepsChain DEF Wrote
  <1> QED BY <1>2, <1>3, <1>4 DEF DisaggInv

\* Nor does a commit.
LEMMA CommitInDisagg ==
    ASSUME DisaggInv, NEW b \in Branch, Commit(b), UNCHANGED <<encVars, queue, incoming, lost>>
    PROVE  DisaggInv'
  <1>0. run.phase = "written" /\ cross' = cross /\ TypeInv /\ WorkerInv /\ run.sess \in Session
    BY DEF Commit, DisaggInv, WorkerInv, TypeInv
  <1>1. /\ \A t \in Session : kv'[t].text = kv[t].text /\ kv'[t].img = kv[t].img
        /\ run'.phase \in {"dit", "prefill"} /\ run'.sess = run.sess /\ run'.carrier = run.carrier
    BY <1>0, CommitEffect
  <1>2. WorkerInv'
    BY <1>0, CommitWorker
  <1>3. PayloadInv' /\ ReadyInv' /\ NegInv'
    BY <1>0, <1>1 DEF DisaggInv, PayloadInv, ReadyInv, NegInv, CrossReady, encVars
  <1>4. ChainInv'
    BY <1>0, <1>1, ForwardKeepsChain DEF Wrote
  <1> QED BY <1>2, <1>3, <1>4 DEF DisaggInv

\* The DiT loop reads only, and ends the forward.
LEMMA DenoiseInDisagg ==
    ASSUME DisaggInv, Denoise, UNCHANGED <<encVars, queue, incoming, lost>>
    PROVE  DisaggInv'
  <1>0. run.phase = "dit" /\ run'.phase = "idle" /\ kv' = kv /\ cross' = cross /\ WorkerInv
    BY DEF Denoise, Idle, DisaggInv
  <1>1. WorkerInv'
    BY <1>0, DenoiseWorker
  <1>2. PayloadInv' /\ ReadyInv' /\ NegInv'
    BY <1>0 DEF DisaggInv, PayloadInv, ReadyInv, NegInv, encVars
  <1>3. ChainInv'
    BY <1>0, EndKeepsChain DEF Wrote
  <1> QED BY <1>1, <1>2, <1>3 DEF DisaggInv

\* A forward that died wrote nothing its session still holds for populated.
LEMMA FailInDisagg ==
    ASSUME DisaggInv, Fail, UNCHANGED <<encVars, queue, incoming, lost>>
    PROVE  DisaggInv'
  <1> DEFINE s == run.sess
             b == First(run.todo)
  <1>0. /\ run.phase # "idle" /\ run'.phase = "idle" /\ Close({s}) /\ s \in Session
        /\ TypeInv /\ WorkerInv
        /\ \/ cross' = cross
           \/ /\ b \in Branch
              /\ cross' = [cross EXCEPT ![b] = CrossWritten(b, Torn, Torn)]
    BY FirstIn DEF Fail, Idle, DisaggInv, WorkerInv, TypeInv, TodoInv
  <1>1. kv'[s].text = {} /\ \A t \in Session \ {s} : kv'[t] = kv[t]
    BY <1>0, CloseEffect, FreshKvType
  <1>2. ASSUME NEW t \in Session, NEW c \in Branch, c \in kv'[t].text, t \in cross'[c].textBy
        PROVE  t # s /\ c \in kv[t].text /\ t \in cross[c].textBy /\ cross'[c].text = cross[c].text
    <2>1. t # s /\ c \in kv[t].text
      BY <1>1, <1>2
    <2>2. cross' = cross \/ (b \in Branch /\ cross'[c] = IF c = b THEN CrossWritten(b, Torn, Torn) ELSE cross[c])
      BY <1>0 DEF TypeInv
    <2> QED BY <1>0, <1>2, <2>1, <2>2, CrossAfter
  <1>3. WorkerInv'
    BY <1>0, FailWorker
  <1>4. PayloadInv' /\ ReadyInv'
    BY <1>0 DEF DisaggInv, PayloadInv, ReadyInv, encVars
  <1>5. NegInv'
    BY <1>2 DEF DisaggInv, NegInv
  <1>6. ChainInv'
    <2>1. \A t \in Session : Wrote(t)' => t # s /\ Wrote(t) /\ cross'["pos"].text = cross["pos"].text
      BY <1>2, BranchAssumption DEF Wrote
    <2> QED BY <1>0, <2>1, EndKeepsChain
  <1> QED BY <1>3, <1>4, <1>5, <1>6 DEF DisaggInv

\* Two empty workers satisfy the invariant.
LEMMA DisaggInitInv == DisaggInit => DisaggInv
  <1> SUFFICES ASSUME DisaggInit PROVE DisaggInv
    OBVIOUS
  <1>1. RolloutInit /\ WorkerInv
    BY InitWorker DEF DisaggInit
  <1>2. run.phase = "idle" /\ queue = <<>> /\ \A s \in Session : kv[s].text = {} /\ enc[s] = FreshModel
    BY <1>1, FreshKvType DEF RolloutInit, Idle, DisaggInit
  <1>3. PayloadInv
    BY <1>2 DEF PayloadInv, FreshModel, Carrier
  <1>4. ReadyInv /\ NegInv
    BY <1>2 DEF ReadyInv, NegInv
  <1>5. ChainInv
    BY <1>2 DEF ChainInv, Chained, Line, Linked, Places, Wrote, FreshModel
  <1> QED BY <1>1, <1>3, <1>4, <1>5 DEF DisaggInv

\* Every step of the two workers keeps the invariant.
LEMMA NextKeepsDisaggInv == DisaggInv /\ [DisaggNext]_disaggVars => DisaggInv'
  <1> SUFFICES ASSUME DisaggInv, [DisaggNext]_disaggVars PROVE DisaggInv'
    OBVIOUS
  <1>1. CASE \E s \in Session, prompt \in Prompt, explicit \in BOOLEAN, clip \in Clip :
                EncodeStage(s, prompt, explicit, clip)
    BY <1>1, EncodeStageStep
  <1>2. CASE \E i \in DOMAIN queue : AbortBetween(i)
    BY <1>2, AbortBetweenStep
  <1>3. CASE Receive
    BY <1>3, ReceiveStep
  <1>4. CASE Realign
    BY <1>4, RealignStep
  <1>5. CASE DenoiseStep
    <2>1. Step /\ UNCHANGED <<encVars, queue, incoming, lost>>
      BY <1>5 DEF DenoiseStep
    <2> QED BY <2>1, PopulateInDisagg, PrefillInDisagg, CommitInDisagg, DenoiseInDisagg, FailInDisagg
            DEF Step
  <1>6. CASE UNCHANGED disaggVars
    <2>1. UNCHANGED rolloutVars /\ enc' = enc /\ queue' = queue /\ incoming' = incoming /\ lost' = lost
      BY <1>6 DEF disaggVars, encVars
    <2>2. run' = run /\ kv' = kv /\ cross' = cross
      BY <2>1 DEF rolloutVars
    <2>3. WorkerInv'
      BY <2>1, StutterWorker DEF DisaggInv
    <2>4. PayloadInv' /\ ReadyInv' /\ NegInv'
      BY <2>1, <2>2 DEF DisaggInv, PayloadInv, ReadyInv, NegInv, CrossReady
    <2>5. ChainInv'
      <3>1. Line' = Line
        BY <2>1, <2>2 DEF Line
      <3>2. \A s \in Session : (Wrote(s)' <=> Wrote(s)) /\ (Taken(s)' <=> Taken(s))
        BY <2>2 DEF Wrote, Taken
      <3>3. ASSUME NEW s \in Session, Chained(s) PROVE Chained(s)'
        BY <2>1, <2>2, <3>1, <3>2, <3>3 DEF Chained, Linked, EndsOn, StartsOn, Places
      <3> QED BY <2>1, <3>3 DEF DisaggInv, ChainInv
    <2> QED BY <2>3, <2>4, <2>5 DEF DisaggInv
  <1> QED BY <1>1, <1>2, <1>3, <1>4, <1>5, <1>6 DEF DisaggNext

\* The inductive invariant of the two workers, requests lost between them included.
THEOREM DisaggInvariant == DisaggSpec => []DisaggInv
  <1> QED BY DisaggInitInv, NextKeepsDisaggInv, PTL DEF DisaggSpec

\* A forward that reads the cross pool finds every branch populated: on the
\* disaggregated path every forward starts a window.
THEOREM DisaggReadsAfterPopulate == DisaggSpec => []CrossReadAfterPopulate
  <1>1. DisaggInv => CrossReadAfterPopulate
    BY DEF DisaggInv, ReadyInv, CrossReadAfterPopulate
  <1> QED BY <1>1, DisaggInvariant, PTL

\* As long as no request of a session was lost between the workers, what it wrote
\* into the cross pool is the text of the prompt its forward was given.
THEOREM DisaggTextStaleOnlyAfterLoss == DisaggSpec => []TextStaleOnlyAfterLoss
  <1>1. DisaggInv => TextStaleOnlyAfterLoss
    <2> SUFFICES ASSUME DisaggInv, run.sess \notin lost, run.phase = "dit", NEW b \in Branch,
                        run.sess \in cross[b].textBy
                 PROVE  cross[b].text = TextOf(b)
      BY DEF TextStaleOnlyAfterLoss, OwnTextIsCurrent
    <2>1. /\ run.sess \in Session /\ CrossReady(run.sess) /\ run.carrier = incoming.carrier
          /\ Chained(run.sess) /\ Taken(run.sess)
      BY DEF DisaggInv, WorkerInv, TypeInv, ReadyInv, PayloadInv, ChainInv, Taken
    <2>2. CASE b = "pos"
      BY <2>1, <2>2 DEF Chained, Wrote, CrossReady, TextOf
    <2>3. CASE b # "pos"
      BY <2>1, <2>3 DEF DisaggInv, NegInv, CrossReady, TextOf
    <2> QED BY <2>2, <2>3
  <1> QED BY <1>1, DisaggInvariant, PTL

\* The worker keeps its accounts whichever path its forwards come from: no block
\* is lost, none outlives its session's model state, none is left half written
\* and a session alone never runs out of them.
THEOREM DisaggWorkerSafe ==
    DisaggSpec => [](PoolAccounted /\ PoolNeverOutlivesModel /\ NothingHalfWritten /\ ExhaustedByOthers)
  <1>1. DisaggInv => PoolAccounted /\ NothingHalfWritten /\ ExhaustedByOthers
    BY RoomAlone DEF DisaggInv, WorkerInv, PoolInv, PendingInv, NothingHalfWritten, ExhaustedByOthers
  <1>2. DisaggInv => PoolNeverOutlivesModel
    BY EndsHeld DEF DisaggInv, WorkerInv, OrderInv, PoolNeverOutlivesModel
  <1> QED BY <1>1, <1>2, DisaggInvariant, PTL
=============================================================================
