-------------------------- MODULE LockOrderProofs --------------------------
(***************************************************************************)
(* The lock order, for any number of goroutines that run any of the        *)
(* methods: no circle of waiting.  First, every method takes its locks in  *)
(* the order of their ranks; then, a goroutine holds what its method has   *)
(* taken so far; last, a circle would climb the ranks for ever.            *)
(***************************************************************************)
EXTENDS LockOrder, TLAPS

Acquires(o) == o.op \in {"lock", "rlock"}

\* What ends the hold that o began.
Releases(r, o) ==
    /\ r.on = o.on
    /\ \/ o.op = "lock" /\ r.op = "unlock"
       \/ o.op = "rlock" /\ r.op = "runlock"

\* What was taken before operation i of s, and not given back.
HeldBefore(s, i) ==
    {o \in Operations : Acquires(o) /\ \E j \in 1..(i - 1) :
        /\ s[j] = o
        /\ \A k \in (j + 1)..(i - 1) : ~Releases(s[k], o)}

\* Locks are taken in the order of their ranks, none twice, and all given back.
Ordered(s) ==
    /\ s \in Seq(Operations)
    /\ \A i \in 1..Len(s) : Acquires(s[i]) =>
          \A o \in HeldBefore(s, i) : Rank[o.on] < Rank[s[i].on]
    /\ HeldBefore(s, Len(s) + 1) = {}

\* Only locks that come after l.
After(s, l) == \A i \in 1..Len(s) : Rank[l] < Rank[s[i].on]

-----------------------------------------------------------------------------
(* The methods. *)

LEMMA RankType == Rank \in [Locks -> 1..5]
  BY DEF Rank, Locks

LEMMA DoType ==
  ASSUME NEW op \in {"lock", "rlock", "unlock", "runlock", "send"}, NEW l \in Locks
  PROVE  Do(op, l) \in Seq(Operations) /\ Len(Do(op, l)) = 1 /\ Do(op, l)[1] = [op |-> op, on |-> l]
  BY DEF Do, Operations

LEMMA IsHeld ==
  ASSUME NEW s, NEW o \in Operations, Acquires(o), NEW i, NEW j \in 1..(i - 1), s[j] = o,
         \A k \in (j + 1)..(i - 1) : ~Releases(s[k], o)
  PROVE  o \in HeldBefore(s, i)
  BY DEF HeldBefore

LEMMA StaysHeld ==
  ASSUME NEW s, NEW o \in Operations, Acquires(o), NEW n \in Nat, NEW j \in 1..n, s[j] = o,
         \A k \in (j + 1)..n : ~Releases(s[k], o)
  PROVE  o \in HeldBefore(s, n + 1)
<1>1. (n + 1) - 1 = n
  OBVIOUS
<1> QED
  BY <1>1 DEF HeldBefore

\* One ordered sequence after another.
LEMMA OrderedThen ==
  ASSUME NEW s, NEW t, Ordered(s), Ordered(t)
  PROVE  Ordered(s \o t)
<1> DEFINE st == s \o t
           n == Len(s)
<1>1. /\ s \in Seq(Operations) /\ t \in Seq(Operations) /\ st \in Seq(Operations)
      /\ n \in Nat /\ Len(t) \in Nat /\ Len(st) = n + Len(t)
      /\ \A i \in 1..n : st[i] = s[i]
      /\ \A i \in 1..Len(t) : st[n + i] = t[i]
  BY DEF Ordered
<1> HIDE DEF st, n
<1>2. ASSUME NEW i \in 1..(n + 1)
      PROVE  HeldBefore(st, i) \subseteq HeldBefore(s, i)
  <2> SUFFICES ASSUME NEW o \in HeldBefore(st, i)
               PROVE  o \in HeldBefore(s, i)
    OBVIOUS
  <2>1. PICK j \in 1..(i - 1) : st[j] = o /\ \A k \in (j + 1)..(i - 1) : ~Releases(st[k], o)
    BY DEF HeldBefore
  <2>2. o \in Operations /\ Acquires(o)
    BY DEF HeldBefore
  <2>3. \A k \in 1..(i - 1) : st[k] = s[k]
    BY <1>1, <1>2
  <2>4. \A k \in (j + 1)..(i - 1) : k \in 1..(i - 1)
    BY <1>1, <1>2, <2>1
  <2>5. s[j] = o
    BY <2>1, <2>3
  <2>6. \A k \in (j + 1)..(i - 1) : ~Releases(s[k], o)
    BY <2>1, <2>3, <2>4
  <2> QED
    BY <2>1, <2>2, <2>5, <2>6, IsHeld
<1>3. ASSUME NEW i \in 1..(Len(t) + 1)
      PROVE  HeldBefore(st, n + i) \subseteq HeldBefore(t, i)
  <2> SUFFICES ASSUME NEW o \in HeldBefore(st, n + i)
               PROVE  o \in HeldBefore(t, i)
    OBVIOUS
  <2>1. PICK j \in 1..(n + i - 1) :
           st[j] = o /\ \A k \in (j + 1)..(n + i - 1) : ~Releases(st[k], o)
    BY <1>1 DEF HeldBefore
  <2>2. o \in Operations /\ Acquires(o)
    BY DEF HeldBefore
  <2>3. CASE j <= n
    <3>1. j \in 1..n /\ s[j] = o
      BY <1>1, <2>1, <2>3
    <3>2. \A k \in (j + 1)..n : k \in (j + 1)..(n + i - 1) /\ st[k] = s[k]
      BY <1>1, <2>1, <2>3
    <3>3. \A k \in (j + 1)..n : ~Releases(s[k], o)
      BY <2>1, <3>2
    <3>4. o \in HeldBefore(s, n + 1)
      BY <1>1, <2>2, <3>1, <3>3, StaysHeld
    <3> QED
      BY <3>4 DEF Ordered, n
  <2>4. CASE j > n
    <3>1. PICK p \in 1..(i - 1) : j = n + p
      BY <1>1, <2>1, <2>4
    <3>2. p \in 1..Len(t)
      BY <1>1, <3>1
    <3>3. t[p] = o
      BY <1>1, <2>1, <3>1, <3>2
    <3>4. ASSUME NEW k \in (p + 1)..(i - 1)
          PROVE  ~Releases(t[k], o)
      <4>1. n + k \in (j + 1)..(n + i - 1) /\ k \in 1..Len(t)
        BY <1>1, <3>1
      <4> QED
        BY <1>1, <2>1, <4>1
    <3> QED
      BY <2>2, <3>1, <3>3, <3>4, IsHeld
  <2> QED
    BY <1>1, <2>3, <2>4
<1>4. ASSUME NEW i \in 1..Len(st), Acquires(st[i]), NEW o \in HeldBefore(st, i)
      PROVE  Rank[o.on] < Rank[st[i].on]
  <2>1. CASE i <= n
    BY <1>1, <1>2, <1>4, <2>1 DEF Ordered, n
  <2>2. CASE i > n
    <3>1. PICK k \in 1..Len(t) : i = n + k
      BY <1>1, <2>2
    <3>2. st[i] = t[k]
      BY <1>1, <3>1
    <3>3. k \in 1..(Len(t) + 1)
      BY <1>1, <3>1
    <3>4. o \in HeldBefore(t, k)
      BY <1>3, <1>4, <3>1, <3>3
    <3> QED
      BY <1>4, <3>1, <3>2, <3>4 DEF Ordered
  <2> QED
    BY <1>1, <2>1, <2>2
<1>5. HeldBefore(st, Len(st) + 1) = {}
  <2>1. Len(st) + 1 = n + (Len(t) + 1) /\ Len(t) + 1 \in 1..(Len(t) + 1)
    BY <1>1
  <2>2. HeldBefore(st, n + (Len(t) + 1)) \subseteq HeldBefore(t, Len(t) + 1)
    BY <1>3, <2>1
  <2> QED
    BY <2>1, <2>2 DEF Ordered
<1>6. Ordered(st)
  BY <1>1, <1>4, <1>5 DEF Ordered
<1> QED
  BY <1>6 DEF st

LEMMA Concatenated ==
  ASSUME NEW s \in Seq(Operations), NEW t \in Seq(Operations)
  PROVE  /\ s \o t \in Seq(Operations)
         /\ Len(s) \in Nat /\ Len(t) \in Nat /\ Len(s \o t) = Len(s) + Len(t)
         /\ \A i \in 1..Len(s) : (s \o t)[i] = s[i]
         /\ \A i \in 1..Len(t) : (s \o t)[Len(s) + i] = t[i]
  OBVIOUS

\* One operation, a sequence and one more operation.
LEMMA Around ==
  ASSUME NEW x \in Seq(Operations), NEW body \in Seq(Operations), NEW y \in Seq(Operations),
         Len(x) = 1, Len(y) = 1
  PROVE  /\ x \o body \o y \in Seq(Operations)
         /\ Len(x \o body \o y) = Len(body) + 2
         /\ (x \o body \o y)[1] = x[1]
         /\ (x \o body \o y)[Len(body) + 2] = y[1]
         /\ \A i \in 1..Len(body) : (x \o body \o y)[i + 1] = body[i]
<1> DEFINE b == x \o body
<1>1. /\ b \in Seq(Operations) /\ Len(b) = Len(body) + 1 /\ Len(body) \in Nat
      /\ b[1] = x[1] /\ \A i \in 1..Len(body) : b[i + 1] = body[i]
  <2>1. 1 \in 1..Len(x) /\ \A i \in 1..Len(body) : i + 1 = Len(x) + i
    OBVIOUS
  <2>2. /\ b \in Seq(Operations) /\ Len(b) = 1 + Len(body) /\ Len(body) \in Nat
        /\ b[1] = x[1] /\ \A i \in 1..Len(body) : b[1 + i] = body[i]
    BY <2>1, Concatenated
  <2> HIDE DEF b
  <2> QED
    BY <2>2
<1> HIDE DEF b
<1>2. /\ b \o y \in Seq(Operations) /\ Len(b \o y) = Len(b) + 1
      /\ \A i \in 1..Len(b) : (b \o y)[i] = b[i]
      /\ (b \o y)[Len(b) + 1] = y[1]
  <2>1. 1 \in 1..Len(y)
    OBVIOUS
  <2>2. /\ b \o y \in Seq(Operations) /\ Len(b \o y) = Len(b) + Len(y)
        /\ \A i \in 1..Len(b) : (b \o y)[i] = b[i]
        /\ \A i \in 1..Len(y) : (b \o y)[Len(b) + i] = y[i]
    BY <1>1, Concatenated
  <2>3. (b \o y)[Len(b) + 1] = y[1]
    BY <2>1, <2>2
  <2> QED
    BY <2>2, <2>3
<1>3. /\ b \o y \in Seq(Operations) /\ Len(b \o y) = Len(body) + 2
      /\ (b \o y)[1] = x[1] /\ (b \o y)[Len(body) + 2] = y[1]
      /\ \A i \in 1..Len(body) : (b \o y)[i + 1] = body[i]
  BY <1>1, <1>2
<1> QED
  BY <1>3 DEF b

\* s is body with a before it and r after it.
Bracketed(s, body, a, r) ==
    /\ s \in Seq(Operations)
    /\ Len(s) = Len(body) + 2
    /\ s[1] = a /\ s[Len(body) + 2] = r
    /\ \A i \in 1..Len(body) : s[i + 1] = body[i]

LEMMA AroundDo ==
  ASSUME NEW body \in Seq(Operations), NEW l \in Locks,
         NEW acq \in {"lock", "rlock"}, NEW rel \in {"unlock", "runlock"}
  PROVE  Bracketed(Do(acq, l) \o body \o Do(rel, l), body,
                   [op |-> acq, on |-> l], [op |-> rel, on |-> l])
<1> DEFINE x == Do(acq, l)
           y == Do(rel, l)
           a == [op |-> acq, on |-> l]
           r == [op |-> rel, on |-> l]
<1>1. x \in Seq(Operations) /\ Len(x) = 1 /\ x[1] = a
  BY DoType
<1>2. y \in Seq(Operations) /\ Len(y) = 1 /\ y[1] = r
  BY DoType
<1> HIDE DEF x, y, a, r
<1>3. /\ x \o body \o y \in Seq(Operations) /\ Len(x \o body \o y) = Len(body) + 2
      /\ (x \o body \o y)[1] = x[1] /\ (x \o body \o y)[Len(body) + 2] = y[1]
      /\ \A i \in 1..Len(body) : (x \o body \o y)[i + 1] = body[i]
  BY <1>1, <1>2, Around, SMTT(30)
<1>4. Bracketed(x \o body \o y, body, a, r)
  BY <1>1, <1>2, <1>3 DEF Bracketed
<1> QED
  BY <1>4 DEF x, y, a, r

\* A lock around an ordered sequence of locks that come after it; acquire and
\* release are those of a writer or those of a reader.
LEMMA OrderedWithin ==
  ASSUME NEW body, Ordered(body), NEW l \in Locks, After(body, l),
         NEW acq \in {"lock", "rlock"}, NEW rel \in {"unlock", "runlock"},
         (acq = "lock") <=> (rel = "unlock")
  PROVE  Ordered(Do(acq, l) \o body \o Do(rel, l))
<1> DEFINE s == Do(acq, l) \o body \o Do(rel, l)
           n == Len(body)
           a == [op |-> acq, on |-> l]
           r == [op |-> rel, on |-> l]
<1>1. body \in Seq(Operations) /\ n \in Nat
  BY DEF Ordered
<1>2. Bracketed(s, body, a, r)
  BY <1>1, AroundDo
<1>3. a \in Operations /\ r \in Operations /\ ~Acquires(r) /\ Releases(r, a)
  BY DEF Operations, Acquires, Releases
<1>0. a.on = l
  OBVIOUS
<1> HIDE DEF s, a, r
<1>a. /\ s \in Seq(Operations) /\ Len(s) = n + 2
      /\ s[1] = a /\ s[n + 2] = r
      /\ \A i \in 1..n : s[i + 1] = body[i]
  BY <1>2 DEF Bracketed
<1> HIDE DEF n
<1>4. ASSUME NEW i \in 1..(n + 1), NEW o \in HeldBefore(s, i + 1)
      PROVE  o = a \/ o \in HeldBefore(body, i)
  <2>1. PICK j \in 1..i : s[j] = o /\ \A k \in (j + 1)..i : ~Releases(s[k], o)
    BY <1>1, <1>4 DEF HeldBefore
  <2>2. o \in Operations /\ Acquires(o)
    BY <1>4 DEF HeldBefore
  <2>3. CASE j = 1
    BY <1>a, <2>1, <2>3
  <2>4. CASE j # 1
    <3>1. PICK p \in 1..n : j = p + 1
      BY <1>1, <2>1, <2>4
    <3>2. body[p] = o /\ p \in 1..(i - 1)
      BY <1>1, <1>a, <2>1, <3>1
    <3>3. ASSUME NEW k \in (p + 1)..(i - 1)
          PROVE  k + 1 \in (j + 1)..i /\ s[k + 1] = body[k]
      BY <1>1, <1>a, <3>1
    <3>4. \A k \in (p + 1)..(i - 1) : ~Releases(body[k], o)
      BY <2>1, <3>3
    <3> QED
      BY <2>2, <3>2, <3>4, IsHeld
  <2> QED
    BY <2>3, <2>4
<1>5. ASSUME NEW i \in 1..Len(s), Acquires(s[i]), NEW o \in HeldBefore(s, i)
      PROVE  Rank[o.on] < Rank[s[i].on]
  <2>1. CASE i = 1
    BY <1>5, <2>1 DEF HeldBefore
  <2>2. CASE i = n + 2
    BY <1>a, <1>3, <1>5, <2>2
  <2>3. CASE i # 1 /\ i # n + 2
    <3>1. PICK p \in 1..n : i = p + 1
      BY <1>1, <1>a, <2>3
    <3>2. s[i] = body[p] /\ p \in 1..(n + 1)
      BY <1>1, <1>a, <3>1
    <3>3. o = a \/ o \in HeldBefore(body, p)
      BY <1>4, <1>5, <3>1, <3>2
    <3>4. CASE o = a
      BY <1>0, <3>2, <3>4 DEF After, n
    <3>5. CASE o \in HeldBefore(body, p)
      BY <1>5, <3>2, <3>5 DEF Ordered, n
    <3> QED
      BY <3>3, <3>4, <3>5
  <2> QED
    BY <2>1, <2>2, <2>3
<1>6. ASSUME NEW o \in HeldBefore(s, Len(s) + 1)
      PROVE  FALSE
  <2>1. PICK j \in 1..(n + 2) : s[j] = o /\ \A k \in (j + 1)..(n + 2) : ~Releases(s[k], o)
    BY <1>1, <1>a, <1>6 DEF HeldBefore
  <2>2. Acquires(o)
    BY <1>6 DEF HeldBefore
  <2>3. j # n + 2
    BY <1>a, <1>3, <2>1, <2>2
  <2>4. ~Releases(s[n + 2], o)
    BY <1>1, <2>1, <2>3
  <2>5. o \in HeldBefore(s, n + 2)
    <3>1. j \in 1..(n + 1) /\ \A k \in (j + 1)..(n + 1) : ~Releases(s[k], o)
      BY <1>1, <2>1, <2>3
    <3>2. o \in Operations /\ n + 1 \in Nat /\ n + 2 = (n + 1) + 1
      BY <1>1, <1>6 DEF HeldBefore
    <3> QED
      BY <2>1, <2>2, <3>1, <3>2, StaysHeld
  <2>6. o = a \/ o \in HeldBefore(body, n + 1)
    <3>1. n + 1 \in 1..(n + 1) /\ n + 2 = (n + 1) + 1
      BY <1>1
    <3> QED
      BY <1>4, <2>5, <3>1
  <2>7. o # a
    BY <1>a, <1>3, <2>4
  <2>8. o \notin HeldBefore(body, n + 1)
    BY DEF Ordered, n
  <2> QED
    BY <2>6, <2>7, <2>8
<1>7. Ordered(s)
  BY <1>a, <1>5, <1>6 DEF Ordered
<1> QED
  BY <1>7 DEF s

LEMMA AfterThen ==
  ASSUME NEW l \in Locks, NEW s, NEW t, Ordered(s), Ordered(t), After(s, l), After(t, l)
  PROVE  After(s \o t, l)
<1> DEFINE st == s \o t
<1>1. /\ Len(s) \in Nat /\ Len(t) \in Nat /\ Len(st) = Len(s) + Len(t)
      /\ \A i \in 1..Len(s) : st[i] = s[i]
      /\ \A i \in 1..Len(t) : st[Len(s) + i] = t[i]
  BY Concatenated DEF Ordered
<1> HIDE DEF st
<1>2. ASSUME NEW i \in 1..Len(st)
      PROVE  Rank[l] < Rank[st[i].on]
  <2>1. CASE i <= Len(s)
    BY <1>1, <2>1 DEF After
  <2>2. CASE i > Len(s)
    <3>1. i - Len(s) \in 1..Len(t) /\ i = Len(s) + (i - Len(s))
      BY <1>1, <2>2
    <3>2. st[i] = t[i - Len(s)]
      BY <1>1, <3>1
    <3> QED
      BY <3>1, <3>2 DEF After
  <2> QED
    BY <1>1, <2>1, <2>2
<1>3. After(st, l)
  BY <1>2 DEF After
<1> QED
  BY <1>3 DEF st

LEMMA AfterWithin ==
  ASSUME NEW h \in Locks, NEW l \in Locks, Rank[h] < Rank[l],
         NEW body, Ordered(body), After(body, h),
         NEW acq \in {"lock", "rlock"}, NEW rel \in {"unlock", "runlock"}
  PROVE  After(Do(acq, l) \o body \o Do(rel, l), h)
<1> DEFINE s == Do(acq, l) \o body \o Do(rel, l)
           n == Len(body)
           a == [op |-> acq, on |-> l]
           r == [op |-> rel, on |-> l]
<1>1. body \in Seq(Operations) /\ n \in Nat
  BY DEF Ordered
<1>a. Bracketed(s, body, a, r)
  BY <1>1, AroundDo
<1>b. a.on = l /\ r.on = l
  OBVIOUS
<1> HIDE DEF s, a, r
<1>2. /\ Len(s) = n + 2 /\ s[1].on = l /\ s[n + 2].on = l
      /\ \A i \in 1..n : s[i + 1] = body[i]
  BY <1>a, <1>b DEF Bracketed
<1> HIDE DEF n
<1>3. ASSUME NEW i \in 1..Len(s)
      PROVE  Rank[h] < Rank[s[i].on]
  <2>1. CASE i = 1 \/ i = n + 2
    BY <1>2, <2>1
  <2>2. CASE i # 1 /\ i # n + 2
    <3>1. PICK k \in 1..n : i = k + 1
      BY <1>1, <1>2, <2>2
    <3>2. s[i] = body[k]
      BY <1>2, <3>1
    <3> QED
      BY <3>2 DEF After, n
  <2> QED
    BY <2>1, <2>2
<1>4. After(s, h)
  BY <1>3 DEF After
<1> QED
  BY <1>4 DEF s

\* The two ways to take a lock, both with what they keep to.
LEMMA LockedOrdered ==
  ASSUME NEW l \in Locks, NEW body, Ordered(body), After(body, l)
  PROVE  /\ Ordered(Locked(l, body)) /\ Ordered(RLocked(l, body))
         /\ \A h \in Locks : Rank[h] < Rank[l] /\ After(body, h) =>
               After(Locked(l, body), h) /\ After(RLocked(l, body), h)
<1>1. Ordered(Locked(l, body))
  BY OrderedWithin DEF Locked
<1>2. Ordered(RLocked(l, body))
  BY OrderedWithin DEF RLocked
<1>3. \A h \in Locks : Rank[h] < Rank[l] /\ After(body, h) => After(Locked(l, body), h)
  BY AfterWithin DEF Locked
<1>4. \A h \in Locks : Rank[h] < Rank[l] /\ After(body, h) => After(RLocked(l, body), h)
  BY AfterWithin DEF RLocked
<1> QED
  BY <1>1, <1>2, <1>3, <1>4

LEMMA Nothing == Ordered(<<>>) /\ \A l \in Locks : After(<<>>, l)
<1>1. HeldBefore(<<>>, 1) = {}
  BY DEF HeldBefore
<1> QED
  BY <1>1 DEF Ordered, After

\* What is done to a lock that is taken last may be done under the charger's
\* and the manager's.
Leaf(s) == Ordered(s) /\ After(s, "charger") /\ After(s, "manager")

LEMMA Ranks ==
  /\ Locks = {"manager", "charger", "write", "meter", "hub"}
  /\ Rank["manager"] < Rank["charger"]
  /\ \A l \in {"write", "meter", "hub"} :
        Rank["charger"] < Rank[l] /\ Rank["manager"] < Rank[l]
  BY DEF Rank, Locks

LEMMA LeafThen == ASSUME NEW s, NEW t, Leaf(s), Leaf(t) PROVE Leaf(s \o t)
  BY OrderedThen, AfterThen, Ranks DEF Leaf

LEMMA LockedLeaf ==
  ASSUME NEW l \in {"write", "meter", "hub"}
  PROVE  Leaf(Locked(l, <<>>)) /\ Leaf(RLocked(l, <<>>))
  BY LockedOrdered, Nothing, Ranks DEF Leaf

LEMMA Leaves == Leaf(Emit) /\ Leaf(SetMeter) /\ Leaf(ReadMeter) /\ Leaf(CloseConn)
  BY LockedLeaf DEF Emit, SetMeter, ReadMeter, CloseConn

\* What is done under the charger's lock may be done under the manager's too.
LEMMA ChargerMethod ==
  ASSUME NEW body, Leaf(body)
  PROVE  /\ Ordered(Locked("charger", body)) /\ After(Locked("charger", body), "manager")
         /\ Ordered(RLocked("charger", body))
  BY LockedOrdered, Ranks DEF Leaf

\* The writer writes under writeMu.
LEMMA WriteFrameOrdered == Ordered(WriteFrame)
<1> DEFINE body == Do("send", "write")
           s == Do("lock", "write") \o body \o Do("unlock", "write")
           a == [op |-> "lock", on |-> "write"]
           r == [op |-> "unlock", on |-> "write"]
           w == [op |-> "send", on |-> "write"]
<1>a. body \in Seq(Operations) /\ Len(body) = 1 /\ body[1] = w
  BY DoType, Ranks
<1>b. Bracketed(s, body, a, r)
  BY <1>a, AroundDo, Ranks
<1>c. /\ Acquires(a) /\ ~Acquires(w) /\ ~Acquires(r) /\ Releases(r, a)
  BY DEF Acquires, Releases
<1> HIDE DEF body, s, a, r, w
<1>1. s \in Seq(Operations) /\ Len(s) = 3 /\ s[1] = a /\ s[2] = w /\ s[3] = r
  <2>1. 1 \in 1..Len(body) /\ 1 + 1 = 2 /\ Len(body) + 2 = 3
    BY <1>a
  <2> QED
    BY <1>a, <1>b, <2>1 DEF Bracketed
<1>2. HeldBefore(s, 1) = {}
  BY DEF HeldBefore
<1>3. HeldBefore(s, 4) = {}
  <2>1. ASSUME NEW o \in HeldBefore(s, 4)
        PROVE  FALSE
    <3>1. PICK j \in 1..3 : s[j] = o /\ \A k \in (j + 1)..3 : ~Releases(s[k], o)
      BY DEF HeldBefore
    <3>2. Acquires(o)
      BY DEF HeldBefore
    <3>3. j = 1
      BY <1>1, <1>c, <3>1, <3>2
    <3> QED
      BY <1>1, <1>c, <3>1, <3>3
  <2> QED
    BY <2>1
<1>4. ASSUME NEW i \in 1..3, Acquires(s[i])
      PROVE  i = 1
  BY <1>1, <1>c, <1>4
<1>5. Ordered(s)
  BY <1>1, <1>2, <1>3, <1>4 DEF Ordered
<1> QED
  BY <1>5 DEF s, body, WriteFrame, Locked

\* Every method takes its locks in the order of their ranks.
LEMMA MethodsOrdered == \A m \in Names : Ordered(Methods[m])
<1>1. Ordered(Change) /\ After(Change, "manager")
  BY Leaves, ChargerMethod DEF Change
<1>2. Ordered(Disconnect)
  BY Leaves, LeafThen, ChargerMethod DEF Disconnect
<1>3. Ordered(ReadError)
  BY Leaves, LeafThen, ChargerMethod DEF ReadError
<1>4. Ordered(Stop)
  BY Leaves, LeafThen, ChargerMethod DEF Stop
<1>5. Ordered(SetTargetCurrent)
  BY Leaves, LeafThen, ChargerMethod DEF SetTargetCurrent
<1>6. Ordered(SetSOC)
  BY Leaves, LeafThen, ChargerMethod DEF SetSOC
<1>7. Ordered(sendStartTransaction)
  BY Leaves, LeafThen, ChargerMethod DEF sendStartTransaction
<1>8. Ordered(Tick)
  BY Leaves, LeafThen, ChargerMethod, OrderedThen DEF Tick, Leaf
<1>9. Ordered(Receive)
  <2>1. Leaf(<<>>)
    BY Nothing, Ranks DEF Leaf
  <2> QED
    BY <2>1, Leaves, ChargerMethod, OrderedThen DEF Receive, Leaf
<1>10. Ordered(handleState)
  <2>1. Leaf(<<>>)
    BY Nothing, Ranks DEF Leaf
  <2>2. Ordered(GetCharger)
    BY Nothing, LockedOrdered, Ranks DEF GetCharger
  <2>3. Ordered(RLocked("charger", <<>>)) /\ Ordered(RLocked("hub", <<>>))
    BY <2>1, ChargerMethod, LockedLeaf DEF Leaf
  <2>4. Ordered(Snapshot)
    BY Leaves, ChargerMethod DEF Snapshot
  <2> QED
    BY <2>2, <2>3, <2>4, OrderedThen DEF handleState
<1>11. Ordered(Subscribe)
  BY LockedLeaf DEF Subscribe, Leaf
<1>12. Ordered(SetEndpoint)
  BY <1>1, LockedOrdered, Ranks DEF SetEndpoint
<1>13. Ordered(GetCharger) /\ Ordered(AllChargers)
  BY Nothing, LockedOrdered, Ranks DEF GetCharger, AllChargers
<1>14. /\ Ordered(handleStart) /\ Ordered(handleDisconnect) /\ Ordered(handleStop)
       /\ Ordered(handleTargetCurrent) /\ Ordered(handleFault) /\ Ordered(handleSetSOC)
       /\ Ordered(StopAll)
  BY <1>1, <1>2, <1>4, <1>5, <1>6, <1>13, OrderedThen
     DEF handleStart, handleDisconnect, handleStop, handleTargetCurrent, handleFault,
         handleSetSOC, StopAll
<1> QED
  BY <1>1, <1>2, <1>3, <1>4, <1>5, <1>6, <1>7, <1>8, <1>9, <1>10, <1>11, <1>12, <1>14,
     WriteFrameOrdered DEF Methods, Names

-----------------------------------------------------------------------------
(* The goroutines. *)

\* What a goroutine holds is what its method has taken so far; one that keeps
\* readers out is about to take the lock.
Kept ==
    \A t \in Tasks, l \in Locks :
        /\ owner[l] = t =>
              /\ method[t] # Idle
              /\ [op |-> "lock", on |-> l] \in HeldBefore(Methods[method[t]], next[t])
        /\ t \in readers[l] =>
              /\ method[t] # Idle
              /\ [op |-> "rlock", on |-> l] \in HeldBefore(Methods[method[t]], next[t])

InMethod ==
    \A t \in Tasks : method[t] # Idle => next[t] \in 1..(Len(Methods[method[t]]) + 1)

Announcing == \A t \in Tasks, l \in Locks : announced[l] = t => AtOp(t, "lock", l)

IInv == TypeOK /\ InMethod /\ Kept /\ Announcing

LEMMA HeldAfter ==
  ASSUME NEW s \in Seq(Operations), NEW i \in 1..Len(s)
  PROVE  /\ \A o \in HeldBefore(s, i) : ~Releases(s[i], o) => o \in HeldBefore(s, i + 1)
         /\ Acquires(s[i]) => s[i] \in HeldBefore(s, i + 1)
<1>1. ASSUME NEW o \in HeldBefore(s, i), ~Releases(s[i], o)
      PROVE  o \in HeldBefore(s, i + 1)
  <2>1. PICK j \in 1..(i - 1) : s[j] = o /\ \A k \in (j + 1)..(i - 1) : ~Releases(s[k], o)
    BY <1>1 DEF HeldBefore
  <2>2. j \in 1..i /\ \A k \in (j + 1)..i : ~Releases(s[k], o)
    BY <1>1, <2>1
  <2> QED
    BY <1>1, <2>1, <2>2 DEF HeldBefore
<1>2. ASSUME Acquires(s[i])
      PROVE  s[i] \in HeldBefore(s, i + 1)
  BY <1>2 DEF HeldBefore
<1> QED
  BY <1>1, <1>2

\* A method that goes on keeps what the operation does not release.
LEMMA Advanced ==
  ASSUME IInv, NEW t \in Tasks, NEW op, NEW l \in Locks, AtOp(t, op, l), Advance(t)
  PROVE  /\ method' = method /\ method[t] \in Names /\ method[t] # Idle
         /\ next' \in [Tasks -> Nat \ {0}]
         /\ next'[t] \in 1..(Len(Methods[method[t]]) + 1)
         /\ \A u \in Tasks : u # t => next'[u] = next[u]
         /\ \A o \in HeldBefore(Methods[method[t]], next[t]) :
               ~Releases([op |-> op, on |-> l], o)
                  => o \in HeldBefore(Methods[method[t]], next'[t])
         /\ Acquires([op |-> op, on |-> l])
               => [op |-> op, on |-> l] \in HeldBefore(Methods[method[t]], next'[t])
<1> DEFINE s == Methods[method[t]]
           o1 == [op |-> op, on |-> l]
<1>1. method' = method /\ method[t] \in Names /\ method[t] # Idle
  BY DEF IInv, TypeOK, AtOp, Advance
<1>2. s \in Seq(Operations)
  BY <1>1, MethodsOrdered DEF Ordered
<1>3. next[t] \in 1..Len(s) /\ s[next[t]] = o1
  BY <1>1, <1>2 DEF IInv, TypeOK, InMethod, AtOp
<1>4. /\ next' \in [Tasks -> Nat \ {0}] /\ next'[t] = next[t] + 1
      /\ \A u \in Tasks : u # t => next'[u] = next[u]
  BY DEF IInv, TypeOK, Advance
<1> HIDE DEF s, o1
<1>5. next'[t] \in 1..(Len(s) + 1)
  BY <1>2, <1>3, <1>4
<1>6. /\ \A o \in HeldBefore(s, next[t]) :
            ~Releases(o1, o) => o \in HeldBefore(s, next'[t])
      /\ Acquires(o1) => o1 \in HeldBefore(s, next'[t])
  BY <1>2, <1>3, <1>4, HeldAfter
<1> QED
  BY <1>1, <1>4, <1>5, <1>6 DEF s, o1

\* A step of t that goes on, takes at most the lock of its operation, leaves
\* only what it releases and announces nothing keeps the invariant.
LEMMA AdvanceKeeps ==
  ASSUME IInv, TypeOK', NEW t \in Tasks, NEW op, NEW l \in Locks,
         AtOp(t, op, l), Advance(t),
         \A k \in Locks, u \in Tasks : owner'[k] = u =>
            \/ owner[k] = u /\ ~(k = l /\ op = "unlock")
            \/ u = t /\ k = l /\ op = "lock",
         \A k \in Locks, u \in Tasks : u \in readers'[k] =>
            \/ u \in readers[k] /\ ~(k = l /\ u = t /\ op = "runlock")
            \/ u = t /\ k = l /\ op = "rlock",
         \A k \in Locks, u \in Tasks : announced'[k] = u =>
            announced[k] = u /\ ~(k = l /\ u = t)
  PROVE  IInv'
<1> DEFINE o1 == [op |-> op, on |-> l]
           W(k) == [op |-> "lock", on |-> k]
           R(k) == [op |-> "rlock", on |-> k]
<1>1. /\ method' = method /\ method[t] \in Names /\ method[t] # Idle
      /\ next' \in [Tasks -> Nat \ {0}]
      /\ next'[t] \in 1..(Len(Methods[method[t]]) + 1)
      /\ \A u \in Tasks : u # t => next'[u] = next[u]
      /\ \A o \in HeldBefore(Methods[method[t]], next[t]) :
            ~Releases(o1, o) => o \in HeldBefore(Methods[method[t]], next'[t])
      /\ Acquires(o1) => o1 \in HeldBefore(Methods[method[t]], next'[t])
  BY Advanced
<1>2. InMethod'
  BY <1>1 DEF InMethod, IInv
<1>3. ASSUME NEW u \in Tasks, NEW k \in Locks, owner'[k] = u
      PROVE  /\ method'[u] # Idle
             /\ W(k) \in HeldBefore(Methods[method'[u]], next'[u])
  <2>1. CASE owner[k] = u /\ u # t
    BY <1>1, <2>1 DEF IInv, Kept
  <2>2. CASE owner[k] = u /\ u = t /\ ~(k = l /\ op = "unlock")
    <3>1. ~Releases(o1, W(k))
      BY <2>2 DEF Releases
    <3> QED
      BY <1>1, <2>2, <3>1 DEF IInv, Kept
  <2>3. CASE u = t /\ k = l /\ op = "lock"
    <3>1. Acquires(o1) /\ o1 = W(k)
      BY <2>3 DEF Acquires
    <3> QED
      BY <1>1, <2>3, <3>1
  <2> QED
    BY <1>3, <2>1, <2>2, <2>3
<1>4. ASSUME NEW u \in Tasks, NEW k \in Locks, u \in readers'[k]
      PROVE  /\ method'[u] # Idle
             /\ R(k) \in HeldBefore(Methods[method'[u]], next'[u])
  <2>1. CASE u \in readers[k] /\ u # t
    BY <1>1, <2>1 DEF IInv, Kept
  <2>2. CASE u \in readers[k] /\ u = t /\ ~(k = l /\ op = "runlock")
    <3>1. ~Releases(o1, R(k))
      BY <2>2 DEF Releases
    <3> QED
      BY <1>1, <2>2, <3>1 DEF IInv, Kept
  <2>3. CASE u = t /\ k = l /\ op = "rlock"
    <3>1. Acquires(o1) /\ o1 = R(k)
      BY <2>3 DEF Acquires
    <3> QED
      BY <1>1, <2>3, <3>1
  <2> QED
    BY <1>4, <2>1, <2>2, <2>3
<1>5. Kept'
  BY <1>3, <1>4 DEF Kept
<1>6. ASSUME NEW u \in Tasks, NEW k \in Locks, announced'[k] = u
      PROVE  AtOp(u, "lock", k)'
  <2>1. announced[k] = u /\ ~(k = l /\ u = t) /\ AtOp(u, "lock", k)
    BY <1>6 DEF IInv, Announcing
  <2>2. u # t
    BY <2>1 DEF AtOp
  <2> QED
    BY <1>1, <2>1, <2>2 DEF AtOp
<1>7. Announcing'
  BY <1>6 DEF Announcing
<1> QED
  BY <1>2, <1>5, <1>7 DEF IInv

LEMMA NotAnnouncing ==
  ASSUME IInv, NEW t \in Tasks, NEW op \in {"unlock", "rlock", "runlock", "send"},
         NEW l \in Locks, AtOp(t, op, l)
  PROVE  ~\E k \in Locks : announced[k] = t
<1>1. SUFFICES ASSUME NEW k \in Locks, announced[k] = t PROVE FALSE
  OBVIOUS
<1>2. AtOp(t, "lock", k)
  BY <1>1 DEF IInv, Announcing
<1>3. [op |-> op, on |-> l] = [op |-> "lock", on |-> k]
  BY <1>2 DEF AtOp
<1>4. [op |-> op, on |-> l].op = op /\ [op |-> "lock", on |-> k].op = "lock"
  OBVIOUS
<1> QED
  BY <1>3, <1>4

\* The invariant is inductive.
LEMMA Initial == Init => IInv
  BY NilAssumption DEF Init, IInv, TypeOK, InMethod, Kept, Announcing

LEMMA Inductive == IInv /\ [Next]_orderVars => IInv'
<1> SUFFICES ASSUME IInv, [Next]_orderVars PROVE IInv'
  OBVIOUS
<1> USE DEF lockVars, taskVars
<1>1. ASSUME NEW t \in Tasks, Call(t)
      PROVE  IInv'
  <2>1. PICK m \in Calls[t] : method' = [method EXCEPT ![t] = m]
    BY <1>1 DEF Call
  <2>2. m \in Names
    BY CallAssumption
  <2>3. next' = [next EXCEPT ![t] = 1] /\ UNCHANGED lockVars /\ method[t] = Idle
    BY <1>1 DEF Call
  <2>4. TypeOK'
    BY <2>1, <2>2, <2>3 DEF IInv, TypeOK
  <2>5. /\ method'[t] = m /\ next'[t] = 1
        /\ \A u \in Tasks : u # t => method'[u] = method[u] /\ next'[u] = next[u]
    BY <2>1, <2>3 DEF IInv, TypeOK
  <2>6. Len(Methods[m]) \in Nat
    BY <2>2, MethodsOrdered DEF Ordered
  <2>7. InMethod'
    BY <2>5, <2>6 DEF IInv, InMethod
  <2>8. Kept'
    BY <2>3, <2>5 DEF IInv, Kept
  <2>9. Announcing'
    BY <2>3, <2>5 DEF IInv, Announcing, AtOp
  <2> QED
    BY <2>4, <2>7, <2>8, <2>9 DEF IInv
<1>2. ASSUME NEW t \in Tasks, Return(t)
      PROVE  IInv'
  <2>1. /\ method' = [method EXCEPT ![t] = Idle] /\ next' = [next EXCEPT ![t] = 1]
        /\ UNCHANGED lockVars
        /\ method[t] # Idle /\ next[t] > Len(Methods[method[t]])
    BY <1>2 DEF Return
  <2>2. TypeOK'
    BY <2>1 DEF IInv, TypeOK
  <2>3. /\ method'[t] = Idle
        /\ \A u \in Tasks : u # t => method'[u] = method[u] /\ next'[u] = next[u]
    BY <2>1 DEF IInv, TypeOK
  <2>4. method[t] \in Names /\ Ordered(Methods[method[t]])
    BY <2>1, MethodsOrdered DEF IInv, TypeOK
  <2>5. next[t] = Len(Methods[method[t]]) + 1
    BY <2>1, <2>4 DEF IInv, InMethod, Ordered
  <2>6. HeldBefore(Methods[method[t]], next[t]) = {}
    BY <2>4, <2>5 DEF Ordered
  <2>7. InMethod'
    BY <2>3 DEF IInv, InMethod
  <2>8. \A k \in Locks : owner[k] # t /\ t \notin readers[k]
    BY <2>6 DEF IInv, Kept
  <2>9. Kept'
    BY <2>1, <2>3, <2>8 DEF IInv, Kept
  <2>10. ~\E k \in Locks : AtOp(t, "lock", k)
    <3>1. Len(Methods[method[t]]) \in Nat
      BY <2>4 DEF Ordered
    <3>2. ~(next[t] <= Len(Methods[method[t]]))
      BY <2>5, <3>1
    <3> QED
      BY <3>2 DEF AtOp
  <2>11. Announcing'
    BY <2>1, <2>3, <2>10 DEF IInv, Announcing, AtOp
  <2> QED
    BY <2>2, <2>7, <2>9, <2>11 DEF IInv
<1>3. ASSUME NEW t \in Tasks, NEW l \in Locks, Announce(t, l)
      PROVE  IInv'
  <2>1. AtOp(t, "lock", l) /\ announced' = [announced EXCEPT ![l] = t]
    BY <1>3 DEF Announce
  <2>2. UNCHANGED <<taskVars, owner, readers>>
    BY <1>3 DEF Announce
  <2>3. TypeOK'
    BY <2>1, <2>2 DEF IInv, TypeOK
  <2>4. InMethod' /\ Kept'
    BY <2>2 DEF IInv, InMethod, Kept
  <2>5. Announcing'
    BY <2>1, <2>2 DEF IInv, TypeOK, Announcing, AtOp
  <2> QED
    BY <2>3, <2>4, <2>5 DEF IInv
<1>4. ASSUME NEW t \in Tasks, NEW l \in Locks, Lock(t, l)
      PROVE  IInv'
  <2>1. AtOp(t, "lock", l) /\ Advance(t)
    BY <1>4 DEF Lock
  <2>2. /\ owner' = [owner EXCEPT ![l] = t]
        /\ announced' = [announced EXCEPT ![l] = NoTask] /\ readers' = readers
        /\ readers[l] = {}
    BY <1>4 DEF Lock
  <2>3. TypeOK'
    BY <2>1, <2>2, Advanced DEF IInv, TypeOK
  <2> QED
    BY <2>1, <2>2, <2>3, AdvanceKeeps, NilAssumption DEF IInv, TypeOK
<1>5. ASSUME NEW t \in Tasks, NEW l \in Locks, Unlock(t, l)
      PROVE  IInv'
  <2>1. AtOp(t, "unlock", l) /\ Advance(t)
    BY <1>5 DEF Unlock
  <2>2. owner' = [owner EXCEPT ![l] = NoTask] /\ UNCHANGED <<announced, readers>>
    BY <1>5 DEF Unlock
  <2>3. TypeOK'
    BY <2>1, <2>2, Advanced DEF IInv, TypeOK
  <2>4. ~(\E k \in Locks : announced[k] = t)
    BY <2>1, NotAnnouncing
  <2> QED
    BY <2>1, <2>2, <2>3, <2>4, AdvanceKeeps, NilAssumption DEF IInv, TypeOK
<1>6. ASSUME NEW t \in Tasks, NEW l \in Locks, RLock(t, l)
      PROVE  IInv'
  <2>1. AtOp(t, "rlock", l) /\ Advance(t)
    BY <1>6 DEF RLock
  <2>2. /\ readers' = [readers EXCEPT ![l] = @ \union {t}] /\ UNCHANGED <<announced, owner>>
        /\ owner[l] = NoTask
    BY <1>6 DEF RLock
  <2>3. TypeOK'
    BY <2>1, <2>2, Advanced DEF IInv, TypeOK
  <2>4. ~(\E k \in Locks : announced[k] = t)
    BY <2>1, NotAnnouncing
  <2> QED
    BY <2>1, <2>2, <2>3, <2>4, AdvanceKeeps DEF IInv, TypeOK
<1>7. ASSUME NEW t \in Tasks, NEW l \in Locks, RUnlock(t, l)
      PROVE  IInv'
  <2>1. AtOp(t, "runlock", l) /\ Advance(t)
    BY <1>7 DEF RUnlock
  <2>2. readers' = [readers EXCEPT ![l] = @ \ {t}] /\ UNCHANGED <<announced, owner>>
    BY <1>7 DEF RUnlock
  <2>3. TypeOK'
    BY <2>1, <2>2, Advanced DEF IInv, TypeOK
  <2>4. ~(\E k \in Locks : announced[k] = t)
    BY <2>1, NotAnnouncing
  <2> QED
    BY <2>1, <2>2, <2>3, <2>4, AdvanceKeeps DEF IInv, TypeOK
<1>8. ASSUME NEW t \in Tasks, NEW l \in Locks, Send(t, l)
      PROVE  IInv'
  <2>1. AtOp(t, "send", l) /\ Advance(t) /\ UNCHANGED lockVars
    BY <1>8 DEF Send
  <2>2. TypeOK'
    BY <2>1, Advanced DEF IInv, TypeOK
  <2>3. ~(\E k \in Locks : announced[k] = t)
    BY <2>1, NotAnnouncing
  <2> QED
    BY <2>1, <2>2, <2>3, AdvanceKeeps DEF IInv, TypeOK
<1>9. CASE UNCHANGED orderVars
  BY <1>9 DEF orderVars, IInv, TypeOK, InMethod, Kept, Announcing, AtOp
<1> QED
  BY <1>1, <1>2, <1>3, <1>4, <1>5, <1>6, <1>7, <1>8, <1>9 DEF Next, Step

LEMMA Invariant == Spec => []IInv
  BY Initial, Inductive, PTL DEF Spec

LEMMA Ascending == IInv => LocksAscend
<1> SUFFICES ASSUME IInv, NEW t \in Tasks, NEW h \in Locks, Holds(t, h)
             PROVE  /\ method[t] # Idle
                    /\ \A l \in Locks : Wants(t, l) => Rank[h] < Rank[l]
  BY DEF LocksAscend
<1>1. method[t] # Idle
  BY DEF IInv, Kept, Holds
<1>2. ASSUME NEW l \in Locks, Wants(t, l)
      PROVE  Rank[h] < Rank[l]
  <2> DEFINE s == Methods[method[t]]
  <2>1. Ordered(s)
    BY <1>1, MethodsOrdered DEF IInv, TypeOK
  <2>2. PICK o \in HeldBefore(s, next[t]) : o.on = h
    <3>1. /\ [op |-> "lock", on |-> h].on = h /\ [op |-> "rlock", on |-> h].on = h
      OBVIOUS
    <3> QED
      BY <3>1 DEF IInv, Kept, Holds
  <2>3. PICK op \in {"lock", "rlock"} : AtOp(t, op, l)
    BY <1>2 DEF Wants
  <2>4. next[t] \in 1..Len(s) /\ s[next[t]] = [op |-> op, on |-> l]
    <3>1. Len(s) \in Nat
      BY <2>1 DEF Ordered
    <3> QED
      BY <2>3, <3>1 DEF IInv, TypeOK, AtOp
  <2> HIDE DEF s
  <2>5. Acquires(s[next[t]]) /\ s[next[t]].on = l
    BY <2>4 DEF Acquires
  <2> QED
    BY <2>1, <2>2, <2>4, <2>5 DEF Ordered
<1> QED
  BY <1>1, <1>2

\* The locks are taken in their order, by any goroutines in any calls.
THEOREM LocksAscendHolds == Spec => []LocksAscend
  BY Ascending, Invariant, PTL

\* Who waits for someone that waits in turn waits for someone that wants a
\* lock of a higher rank, at the first or at the second step: a writer that
\* keeps readers out wants the same lock, and no two keep readers out.
LEMMA Climbing ==
  ASSUME IInv, NEW S \in SUBSET Tasks, \A t \in S : \E u \in S : WaitsFor(t, u),
         NEW t \in S, NEW l \in Locks, Wants(t, l)
  PROVE  \E v \in S, k \in Locks : Wants(v, k) /\ Rank[l] < Rank[k]
<1>0. LocksAscend
  BY Ascending
<1>1. ASSUME NEW u \in S, Wants(u, l)
      PROVE  \E v \in S : Holds(v, l) \/ (announced[l] = v /\ v # u)
  <2>1. PICK v \in S : WaitsFor(u, v)
    OBVIOUS
  <2>2. PICK k \in Locks : Wants(u, k) /\ (Holds(v, k) \/ (announced[k] = v /\ v # u))
    BY <2>1 DEF WaitsFor
  <2>3. k = l
    <3>1. PICK o \in {"lock", "rlock"} : AtOp(u, o, l)
      BY <1>1 DEF Wants
    <3>2. PICK p \in {"lock", "rlock"} : AtOp(u, p, k)
      BY <2>2 DEF Wants
    <3>3. [op |-> o, on |-> l] = [op |-> p, on |-> k]
      BY <3>1, <3>2 DEF AtOp
    <3>4. [op |-> o, on |-> l].on = l /\ [op |-> p, on |-> k].on = k
      OBVIOUS
    <3> QED
      BY <3>3, <3>4
  <2> QED
    BY <2>2, <2>3
<1>2. ASSUME NEW v \in S, Holds(v, l)
      PROVE  \E k \in Locks : Wants(v, k) /\ Rank[l] < Rank[k]
  <2>1. PICK w \in S : WaitsFor(v, w)
    OBVIOUS
  <2>2. PICK k \in Locks : Wants(v, k)
    BY <2>1 DEF WaitsFor
  <2> QED
    BY <1>0, <1>2, <2>2 DEF LocksAscend
<1>3. PICK v \in S : Holds(v, l) \/ (announced[l] = v /\ v # t)
  BY <1>1
<1>4. CASE Holds(v, l)
  BY <1>2, <1>4
<1>5. CASE announced[l] = v
  <2>1. Wants(v, l)
    BY <1>5 DEF IInv, Announcing, Wants
  <2>2. PICK w \in S : Holds(w, l) \/ (announced[l] = w /\ w # v)
    BY <1>1, <2>1
  <2>3. Holds(w, l)
    BY <1>5, <2>2
  <2> QED
    BY <1>2, <2>3
<1> QED
  BY <1>3, <1>4, <1>5

LEMMA Uncircular == IInv => NoCircularWait
<1> SUFFICES ASSUME IInv, NEW S \in SUBSET Tasks, S # {},
                    \A t \in S : \E u \in S : WaitsFor(t, u)
             PROVE  FALSE
  BY DEF NoCircularWait
<1> DEFINE Above(n) == \E t \in S, l \in Locks : Wants(t, l) /\ n < Rank[l]
<1>1. Above(0)
  <2>1. PICK t \in S, u \in S : WaitsFor(t, u)
    OBVIOUS
  <2> QED
    BY <2>1, RankType DEF WaitsFor
<1>2. ASSUME NEW n \in Nat, Above(n)
      PROVE  Above(n + 1)
  <2>1. PICK t \in S, l \in Locks : Wants(t, l) /\ n < Rank[l]
    BY <1>2
  <2>2. PICK v \in S, k \in Locks : Wants(v, k) /\ Rank[l] < Rank[k]
    BY <2>1, Climbing
  <2>3. n + 1 < Rank[k]
    BY <2>1, <2>2, RankType
  <2> QED
    BY <2>2, <2>3
<1> HIDE DEF Above
<1>3. Above(1)
  BY <1>1, <1>2
<1>4. Above(2)
  BY <1>2, <1>3
<1>5. Above(3)
  BY <1>2, <1>4
<1>6. Above(4)
  BY <1>2, <1>5
<1>7. Above(5)
  BY <1>2, <1>6
<1> QED
  BY <1>7, RankType DEF Above

\* No goroutines wait for each other in a circle, however many there are.
THEOREM NoCircularWaitHolds == Spec => []NoCircularWait
  BY Uncircular, Invariant, PTL
=============================================================================
