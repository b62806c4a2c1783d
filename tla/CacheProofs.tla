------------------------------ MODULE CacheProofs ------------------------------
(***************************************************************************)
(* What the caches keep and let go, for any keys, caches, limits, threads  *)
(* and lists, and wherever memory runs out: nothing that can be reached is *)
(* freed, nothing that can not be reached is kept, the books of the shards *)
(* balance, and what a list shows does not change.                         *)
(***************************************************************************)
EXTENDS Cache, FiniteSetTheorems, WellFoundedInduction, SequenceTheorems, TLAPS

-----------------------------------------------------------------------------
(* The inductive invariant                                                 *)

\* What the keys of a chain are built from, directly or not, and no key of the
\* chain itself: a key and what it is built from are in different chains.
Below(b, D) ==
  /\ D \subseteq Keys /\ \A k \in D : Uses[k] \subseteq D
  /\ \A k \in Keys : Bucket[k] = b => Uses[k] \subseteq D /\ k \notin D
ChainsApart == \A b \in Buckets : \E D \in SUBSET Keys : Below(b, D)
Under(b) == CHOOSE D \in SUBSET Keys : Below(b, D)

Lists == /\ \A b \in Buckets : IsInjective(chain[b])
         /\ \A c \in Caches : IsInjective(queue[c])

\* Which operations may wait below one.
Loops == {"cut", "empty"}
Alone == {"lookup", "build", "publish"}
Steps == {"walk", "orphan", "evict", "unref", "release"}
MayWait(o) == IF o \in Alone THEN {}
              ELSE IF o \in Loops \cup Steps THEN Loops
              ELSE Loops \cup {"walk", "release", "destruct"}

\* Who may do an operation.
MayDo(o) == IF o \in Alone THEN Workers
            ELSE IF o \in Loops \cup {"walk", "orphan", "evict"} THEN {Driver}
            ELSE IF o \in {"unref", "release"} THEN {Driver, Consumer}
            ELSE Threads

Stacks ==
  \A t \in Threads : \A j \in DOMAIN todo[t] :
    /\ t \in MayDo(todo[t][j].op)
    /\ \A i \in DOMAIN todo[t] : i < j => todo[t][i].op \in MayWait(todo[t][j].op)
    /\ todo[t][j].op \in {"walk", "orphan", "evict"} => j # 1

\* At most one operation is about to destroy, or to publish, an item.
Custody == {"zero", "destruct", "evict", "publish"}
InCustody(s, t, i) ==
  i \in DOMAIN todo[t] /\ todo[t][i].op \in Custody /\ todo[t][i].x = s
OneCustodian ==
  \A s \in Slots : \A t, u \in Threads : \A i \in DOMAIN todo[t], j \in DOMAIN todo[u] :
    InCustody(s, t, i) /\ InCustody(s, u, j) => t = u /\ i = j

\* Nobody holds the item, and nobody finds it.
Lost(s) == item[s].ref_count = 0 /\ ~InQueue(s) /\ ~Linked(s)

\* What an operation finds.
Ready(o) ==
  /\ o.op \in OnItems \ {"walk"} => o.x \in Slots
  /\ o.op = "zero" => /\ Live(o.x)
                      /\ InQueue(o.x) \/ item[o.x].ref_count = 0
                      /\ item[o.x].shard => Linked(o.x)
  /\ o.op = "destruct" => Live(o.x) /\ Lost(o.x)
  /\ o.op = "publish" => Live(o.x) /\ Lost(o.x) /\ item[o.x].shard
  /\ o.op = "evict" => Linked(o.x) /\ item[o.x].ref_count = 0 /\ ~InQueue(o.x)
  /\ o.op = "orphan" => Linked(o.x)
  /\ o.op = "walk" => o.x = None \/ (o.x \in Slots /\ Linked(o.x))
AllReady == \A t \in Threads : \A i \in DOMAIN todo[t] : Ready(todo[t][i])

\* Where items are.
InHand(s) == \E t \in Threads : \E i \in DOMAIN todo[t] : InCustody(s, t, i)
Placed(s) ==
  /\ ~Live(s) => item[s] = Unallocated
  /\ Live(s) => item[s].key \in Keys
  /\ \A d \in item[s].uses : item[d].key \in Uses[item[s].key]
  /\ Linked(s) => Live(s) /\ item[s].shard
  /\ InQueue(s) => Linked(s)
  /\ \A b \in Buckets : s \in ToSet(chain[b]) => Bucket[item[s].key] = b
  /\ \A c \in Caches : s \in ToSet(queue[c]) => CacheOf[item[s].key] = c
  /\ Live(s) /\ ~Linked(s) /\ (item[s].shard \/ item[s].ref_count = 0) => InHand(s)
AllPlaced == \A s \in Slots : Placed(s)

\* The counts of the items.
Counted == \A s \in Slots : item[s].ref_count = Refs(s)

Distinct ==
  \A s, r \in Slots : Linked(s) /\ Linked(r) /\ item[s].key = item[r].key
                        /\ item[s].uses = item[r].uses => s = r

LinkedIn(c) == {s \in Slots : Linked(s) /\ HomeOf(s) = c}
Sizes ==
  \A c \in Caches :
    /\ Cardinality(LinkedIn(c)) <= cache_size[c]
    /\ ~Pending(Driver, "empty", c) =>
         cache_size[c] = Cardinality(LinkedIn(c))

\* What is walked is being emptied, and destroying an item of a chain does not
\* reach the rest of the chain.
Walks ==
  \A p \in DOMAIN todo[Driver] :
    todo[Driver][p].op = "walk" /\ todo[Driver][p].x # None =>
      Pending(Driver, "empty", HomeOf(todo[Driver][p].x))
Off(o, n) ==
  /\ o.x # n
  /\ o.op \in {"dec", "zero"} => item[o.x].key \in Under(ChainOf(n))
  /\ o.op = "destruct" =>
       ChainOf(o.x) = ChainOf(n) \/ item[o.x].key \in Under(ChainOf(n))
Paths ==
  \A p, q \in DOMAIN todo[Driver] :
    p < q /\ todo[Driver][p].op = "walk" /\ todo[Driver][p].x # None =>
      Off(todo[Driver][q], todo[Driver][p].x)

\* What a worker has, and what it looks up.
Gotten ==
  \A w \in Workers :
    /\ \A k \in Keys : got[w][k] # None => InQueue(got[w][k]) /\ item[got[w][k]].key = k
    /\ \A i \in DOMAIN todo[w] : todo[w][i].op \in {"lookup", "build"} =>
         /\ todo[w][i].x \in Keys
         /\ \A d \in Uses[todo[w][i].x] : got[w][d] # None

\* References to a list of images.
One(b) == IF b THEN 1 ELSE 0
Unrefs(t)   == {f \in Frames : Pending(t, "unref", f)}
Releases(t) == {f \in Frames : Pending(t, "release", f)}
Books(t, u, f) ==
  /\ frame[f].refs = held[f] + One(images_root = f) + One(prev_images_root = f)
       + One(f \in Unrefs(t)) + One(f \in Unrefs(u))
  /\ frame[f].refs = 0 \/ f \notin Releases(t) \cup Releases(u)
  /\ f \notin Releases(t) \cap Releases(u)
  /\ frame[f].refs = 0 /\ f \notin Releases(t) \cup Releases(u) => frame[f].images = {}
ListsCounted == \A f \in Frames : Books(Driver, Consumer, f)

\* Who is at work when.
Maintaining == \E i \in DOMAIN todo[Driver] : todo[Driver][i].op \in Loops
Turns ==
  /\ \A w \in Workers : ~Idle(w) => phase = "frame" /\ Idle(Driver)
  /\ Maintaining => Idle(Consumer) /\ \A w \in Workers : got[w] = Nothing
  /\ phase # "frame" => /\ images = {} /\ prev_images_root = None
                        /\ \A w \in Workers : got[w] = Nothing
  /\ phase # "between" => images_root = None
  /\ phase = "closing" => \A s \in Slots : Linked(s) => Pending(Driver, "empty", HomeOf(s))
  /\ phase = "gone" => Idle(Driver) /\ \A s \in Slots : ~Linked(s)

IInv ==
  /\ TypeOK /\ Lists /\ Stacks /\ OneCustodian /\ AllReady /\ AllPlaced /\ Counted
  /\ Distinct /\ Sizes /\ Walks /\ Paths /\ Gotten /\ ListsCounted /\ Turns

-----------------------------------------------------------------------------
(* Lists without repetitions                                               *)

\* The elements of a list.
LEMMA Elements ==
  ASSUME NEW S, NEW q \in Seq(S)
  PROVE  /\ ToSet(q) \subseteq S
         /\ \A i \in 1 .. Len(q) : q[i] \in ToSet(q)
         /\ \A s \in ToSet(q) : \E i \in 1 .. Len(q) : q[i] = s
         /\ q # <<>> => Head(q) \in ToSet(q)
         /\ q = <<>> => ToSet(q) = {}
<1>1. Len(q) \in Nat /\ DOMAIN q = 1 .. Len(q) /\ \A i \in 1 .. Len(q) : q[i] \in S
  BY LenProperties, ElementOfSeq
<1>2. q # <<>> => Head(q) = q[1] /\ 1 \in 1 .. Len(q)
  BY <1>1, EmptySeq
<1>3. q = <<>> => Len(q) = 0
  OBVIOUS
<1> QED BY <1>1, <1>2, <1>3 DEF ToSet

\* Taking an element out.
LEMMA WithoutOne ==
  ASSUME NEW S, NEW q \in Seq(S), IsInjective(q), NEW s
  PROVE  /\ Without(q, s) \in Seq(S) /\ IsInjective(Without(q, s))
         /\ ToSet(Without(q, s)) = ToSet(q) \ {s}
<1> DEFINE n == Len(q)
           k == CHOOSE i \in DOMAIN q : q[i] = s
           l == SubSeq(q, 1, k - 1)
           r == SubSeq(q, k + 1, n)
           w == Without(q, s)
<1>1. n \in Nat /\ DOMAIN q = 1 .. n /\ \A i \in 1 .. n : q[i] \in S
  BY LenProperties, ElementOfSeq
<1>2. CASE s \notin ToSet(q)
  BY <1>2 DEF Without
<1>3. CASE s \in ToSet(q)
  <2>1. k \in 1 .. n /\ q[k] = s
    BY <1>1, <1>3 DEF ToSet
  <2>2. w = l \o r
    BY <1>3 DEF Without, RemoveAt
  <2> HIDE DEF w, k
  <2>3. /\ l \in Seq(S) /\ Len(l) = k - 1
        /\ \A i \in 1 .. k - 1 : l[i] = q[i]
    <3>1. k - 1 \in Int /\ k - 1 + 1 <= n + 1 /\ k - 1 - 1 + 1 = k - 1 /\ 1 \in 1 .. k
      BY <1>1, <2>1
    <3>2. \A i \in 1 .. k - 1 : i \in 1 .. n
      BY <1>1, <2>1
    <3> QED BY <1>1, <2>1, <3>1, <3>2, SubSeqProperties
  <2>4. /\ r \in Seq(S) /\ Len(r) = n - k
        /\ \A i \in 1 .. n - k : r[i] = q[k + i]
    <3>1. k + 1 \in 1 .. n + 1 /\ n \in (k + 1) - 1 .. n
      BY <1>1, <2>1
    <3>2. /\ r \in Seq(S)
          /\ Len(r) = IF k + 1 <= n THEN n - (k + 1) + 1 ELSE 0
          /\ \A i \in 1 .. n - (k + 1) + 1 : r[i] = q[(k + 1) + i - 1]
      BY <3>1, SubSeqProperties
    <3>3. \A i \in 1 .. n - k : i \in 1 .. n - (k + 1) + 1 /\ (k + 1) + i - 1 = k + i
      BY <1>1, <2>1
    <3> HIDE DEF r
    <3>4. Len(r) = n - k
      <4>1. n \in Int /\ k \in Int /\ k <= n
        BY <1>1, <2>1
      <4> HIDE DEF n
      <4>2. CASE k + 1 <= n
        <5>1. n - (k + 1) + 1 = n - k
          BY <4>1
        <5> QED BY <3>2, <4>2, <5>1
      <4>3. CASE ~ (k + 1 <= n)
        <5>1. n - k = 0
          BY <4>1, <4>3
        <5> QED BY <3>2, <4>3, <5>1
      <4> QED BY <4>2, <4>3
    <3> QED BY <3>2, <3>3, <3>4
  <2> HIDE DEF l, r
  <2>5. /\ w \in Seq(S) /\ Len(w) = Len(l) + Len(r)
        /\ \A i \in 1 .. Len(l) + Len(r) :
             w[i] = IF i <= Len(l) THEN l[i] ELSE r[i - Len(l)]
    BY <2>2, <2>3, <2>4, ConcatProperties
  <2>6. Len(w) = n - 1 /\ n - 1 \in Nat /\ DOMAIN w = 1 .. n - 1
    BY <1>1, <2>1, <2>3, <2>4, <2>5, LenProperties
  <2>7. \A i \in 1 .. n - 1 : w[i] = IF i < k THEN q[i] ELSE q[i + 1]
    <3> SUFFICES ASSUME NEW i \in 1 .. n - 1
                 PROVE  w[i] = IF i < k THEN q[i] ELSE q[i + 1]
      OBVIOUS
    <3>1. CASE i < k
      <4>1. i \in 1 .. k - 1 /\ i <= Len(l) /\ i \in 1 .. Len(l) + Len(r)
        BY <1>1, <2>1, <2>3, <2>4, <3>1
      <4> QED BY <2>3, <2>5, <3>1, <4>1
    <3>2. CASE ~ (i < k)
      <4>1. /\ ~ (i <= Len(l)) /\ i \in 1 .. Len(l) + Len(r)
            /\ i - Len(l) \in 1 .. n - k /\ k + (i - Len(l)) = i + 1
        BY <1>1, <2>1, <2>3, <2>4, <3>2
      <4>2. w[i] = r[i - Len(l)]
        BY <2>5, <4>1
      <4>3. r[i - Len(l)] = q[k + (i - Len(l))]
        BY <2>4, <4>1
      <4> QED BY <3>2, <4>1, <4>2, <4>3
    <3> QED BY <3>1, <3>2
  <2>8. \A i, j \in 1 .. n : q[i] = q[j] => i = j
    BY <1>1 DEF IsInjective
  <2>9. IsInjective(w)
    <3> SUFFICES ASSUME NEW i \in 1 .. n - 1, NEW j \in 1 .. n - 1, w[i] = w[j]
                 PROVE  i = j
      BY <2>6 DEF IsInjective
    <3>1. i \in 1 .. n /\ j \in 1 .. n /\ i + 1 \in 1 .. n /\ j + 1 \in 1 .. n
      BY <1>1
    <3> HIDE DEF n
    <3> QED BY <2>1, <2>7, <2>8, <3>1
  <2>10. ToSet(w) = ToSet(q) \ {s}
    <3>1. ASSUME NEW x \in ToSet(w) PROVE x \in ToSet(q) /\ x # s
      <4>1. PICK i \in 1 .. n - 1 : w[i] = x
        BY <2>6, <3>1 DEF ToSet
      <4>2. i \in 1 .. n /\ i + 1 \in 1 .. n
        BY <1>1
      <4>3. \E j \in 1 .. n : q[j] = x /\ j # k
        BY <1>1, <2>1, <2>7, <4>1, <4>2
      <4> QED BY <1>1, <2>1, <2>8, <4>3 DEF ToSet
    <3>2. ASSUME NEW x \in ToSet(q), x # s PROVE x \in ToSet(w)
      <4>1. PICK j \in 1 .. n : q[j] = x
        BY <1>1 DEF ToSet
      <4>2. j # k
        BY <2>1, <3>2, <4>1
      <4>3. CASE j < k
        <5>1. j \in 1 .. n - 1 /\ w[j] = x
          BY <1>1, <2>1, <2>7, <4>1, <4>3
        <5> QED BY <2>6, <5>1 DEF ToSet
      <4>4. CASE j > k
        <5>1. j - 1 \in 1 .. n - 1 /\ ~ (j - 1 < k) /\ j - 1 + 1 = j
          BY <1>1, <2>1, <4>4
        <5>2. w[j - 1] = x
          BY <2>7, <4>1, <5>1
        <5> QED BY <2>6, <5>1, <5>2 DEF ToSet
      <4> QED BY <1>1, <2>1, <4>2, <4>3, <4>4
    <3> QED BY <3>1, <3>2
  <2> QED BY <2>5, <2>9, <2>10 DEF w
<1> QED BY <1>2, <1>3

\* Putting one at the end.
LEMMA WithOneBehind ==
  ASSUME NEW S, NEW q \in Seq(S), IsInjective(q), NEW s \in S, s \notin ToSet(q)
  PROVE  /\ Append(q, s) \in Seq(S) /\ IsInjective(Append(q, s))
         /\ ToSet(Append(q, s)) = ToSet(q) \cup {s}
<1> DEFINE n == Len(q)
           a == Append(q, s)
<1>1. n \in Nat /\ DOMAIN q = 1 .. n /\ \A i \in 1 .. n : q[i] \in S
  BY LenProperties, ElementOfSeq
<1>2. \A i, j \in 1 .. n : q[i] = q[j] => i = j
  BY <1>1 DEF IsInjective
<1>3. \A i \in 1 .. n : q[i] # s
  BY <1>1 DEF ToSet
<1>4. /\ a \in Seq(S) /\ DOMAIN a = 1 .. n + 1 /\ a[n + 1] = s
      /\ \A i \in 1 .. n : a[i] = q[i]
  BY <1>1, AppendProperties, LenProperties
<1> HIDE DEF a
<1>6. IsInjective(a) /\ ToSet(a) = ToSet(q) \cup {s}
  <2>1. \A i \in 1 .. n + 1 : i = n + 1 \/ i \in 1 .. n
    BY <1>1
  <2>2. \A i \in 1 .. n : i \in 1 .. n + 1
    BY <1>1
  <2>3. n + 1 \in 1 .. n + 1
    BY <1>1
  <2> HIDE DEF n
  <2>4. IsInjective(a)
    BY <1>2, <1>3, <1>4, <2>1 DEF IsInjective
  <2>5. ToSet(a) = ToSet(q) \cup {s}
    BY <1>1, <1>4, <2>1, <2>2, <2>3 DEF ToSet
  <2> QED BY <2>4, <2>5
<1> QED BY <1>4, <1>6 DEF a

\* Putting one in front.
LEMMA WithOneInFront ==
  ASSUME NEW S, NEW q \in Seq(S), IsInjective(q), NEW s \in S, s \notin ToSet(q)
  PROVE  /\ <<s>> \o q \in Seq(S) /\ IsInjective(<<s>> \o q)
         /\ ToSet(<<s>> \o q) = ToSet(q) \cup {s}
<1> DEFINE n == Len(q)
           p == <<s>> \o q
<1>1. n \in Nat /\ DOMAIN q = 1 .. n /\ \A i \in 1 .. n : q[i] \in S
  BY LenProperties, ElementOfSeq
<1>2. \A i, j \in 1 .. n : q[i] = q[j] => i = j
  BY <1>1 DEF IsInjective
<1>3. \A i \in 1 .. n : q[i] # s
  BY <1>1 DEF ToSet
<1>5. /\ p \in Seq(S) /\ DOMAIN p = 1 .. n + 1 /\ p[1] = s
      /\ \A i \in 1 .. n : p[i + 1] = q[i]
  <2> DEFINE o == <<s>>
  <2>1. o \in Seq(S) /\ Len(o) = 1 /\ o[1] = s
    OBVIOUS
  <2> HIDE DEF o
  <2>2. /\ o \o q \in Seq(S) /\ Len(o \o q) = Len(o) + Len(q)
        /\ \A i \in 1 .. Len(o) + Len(q) :
             (o \o q)[i] = IF i <= Len(o) THEN o[i] ELSE q[i - Len(o)]
    BY <2>1, ConcatProperties
  <2>3. p = o \o q
    BY DEF o
  <2>4. p \in Seq(S) /\ Len(p) = n + 1 /\ DOMAIN p = 1 .. n + 1
    BY <1>1, <2>1, <2>2, <2>3, LenProperties
  <2>5. p[1] = s
    BY <1>1, <2>1, <2>2, <2>3
  <2>6. ASSUME NEW i \in 1 .. n PROVE p[i + 1] = q[i]
    <3>1. i + 1 \in 1 .. Len(o) + Len(q) /\ ~ (i + 1 <= Len(o)) /\ i + 1 - Len(o) = i
      BY <1>1, <2>1
    <3>2. (o \o q)[i + 1] = q[i + 1 - Len(o)]
      BY <2>2, <3>1
    <3> QED BY <2>3, <3>1, <3>2
  <2> QED BY <2>4, <2>5, <2>6
<1> HIDE DEF p
<1>7. IsInjective(p) /\ ToSet(p) = ToSet(q) \cup {s}
  <2>1. \A i \in 1 .. n + 1 : i = 1 \/ (i - 1 \in 1 .. n /\ i = (i - 1) + 1)
    BY <1>1
  <2>2. \A i \in 1 .. n : i + 1 \in 1 .. n + 1
    BY <1>1
  <2>3. 1 \in 1 .. n + 1
    BY <1>1
  <2>4. \A i \in 1 .. n + 1 : i # 1 => p[i] = q[i - 1] /\ i - 1 \in 1 .. n
    BY <1>5, <2>1
  <2> HIDE DEF n
  <2>5. IsInjective(p)
    <3> SUFFICES ASSUME NEW i \in 1 .. n + 1, NEW j \in 1 .. n + 1, p[i] = p[j]
                 PROVE  i = j
      BY <1>5 DEF IsInjective
    <3>1. CASE i = 1 \/ j = 1
      BY <1>3, <1>5, <2>4, <3>1
    <3>2. CASE i # 1 /\ j # 1
      BY <1>2, <2>1, <2>4, <3>2
    <3> QED BY <3>1, <3>2
  <2>6. ToSet(p) = ToSet(q) \cup {s}
    <3>1. ASSUME NEW x \in ToSet(p) PROVE x = s \/ x \in ToSet(q)
      <4>1. PICK i \in 1 .. n + 1 : p[i] = x
        BY <1>5 DEF ToSet
      <4> QED BY <1>1, <1>5, <2>4, <4>1 DEF ToSet
    <3>2. \A x \in ToSet(q) : x \in ToSet(p)
      BY <1>1, <1>5, <2>2 DEF ToSet
    <3>3. s \in ToSet(p)
      BY <1>5, <2>3 DEF ToSet
    <3> QED BY <3>1, <3>2, <3>3
  <2> QED BY <2>5, <2>6
<1> QED BY <1>5, <1>7 DEF p

\* Taking the first one off.
LEMMA WithoutFirst ==
  ASSUME NEW S, NEW q \in Seq(S), IsInjective(q), q # <<>>
  PROVE  /\ Tail(q) \in Seq(S) /\ IsInjective(Tail(q))
         /\ Head(q) \in ToSet(q) /\ ToSet(Tail(q)) = ToSet(q) \ {Head(q)}
<1> DEFINE n == Len(q)
           r == Tail(q)
<1>1. /\ n \in Nat \ {0} /\ DOMAIN q = 1 .. n /\ Head(q) = q[1]
  BY LenProperties, EmptySeq
<1>2. /\ r \in Seq(S) /\ DOMAIN r = 1 .. n - 1
      /\ \A i \in 1 .. n - 1 : r[i] = q[i + 1]
  BY <1>1, HeadTailProperties, LenProperties
<1>3. \A i, j \in 1 .. n : q[i] = q[j] => i = j
  BY <1>1 DEF IsInjective
<1> HIDE DEF r
<1>4. 1 \in 1 .. n /\ \A i \in 1 .. n - 1 : i + 1 \in 1 .. n /\ i + 1 # 1
  BY <1>1
<1>5. \A i, j \in 1 .. n - 1 : i + 1 = j + 1 => i = j
  BY <1>1
<1>6. \A i \in 1 .. n : i = 1 \/ (i - 1 \in 1 .. n - 1 /\ (i - 1) + 1 = i)
  BY <1>1
<1> HIDE DEF n
<1>7. IsInjective(r)
  BY <1>2, <1>3, <1>4, <1>5 DEF IsInjective
<1>8. ASSUME NEW x \in ToSet(r) PROVE x \in ToSet(q) /\ x # q[1]
  <2>1. PICK i \in 1 .. n - 1 : r[i] = x
    BY <1>2 DEF ToSet
  <2>2. i + 1 \in 1 .. n /\ q[i + 1] = x /\ i + 1 # 1
    BY <1>2, <1>4, <2>1
  <2>3. x # q[1]
    BY <1>3, <1>4, <2>2
  <2> QED BY <1>1, <2>2, <2>3 DEF ToSet
<1>9. ASSUME NEW x \in ToSet(q), x # q[1] PROVE x \in ToSet(r)
  <2>1. PICK i \in 1 .. n : q[i] = x
    BY <1>1 DEF ToSet
  <2>2. i - 1 \in 1 .. n - 1 /\ r[i - 1] = x
    BY <1>2, <1>6, <1>9, <2>1
  <2> QED BY <1>2, <2>2 DEF ToSet
<1>10. q[1] \in ToSet(q)
  BY <1>1, <1>4 DEF ToSet
<1> QED BY <1>1, <1>2, <1>7, <1>8, <1>9, <1>10 DEF r

-----------------------------------------------------------------------------
(* What threads are in the middle of                                       *)

\* What stays of a thread's operations when it takes up the next.
Rest(t) == IF Idle(t) THEN 0 ELSE Len(todo[t]) - 1
Kept(t, u, j) == j \in DOMAIN todo[u] /\ (u = t => j <= Rest(t))

\* Thread t took up its next operation, if it has any, and has ops instead.
Stepped(t, ops) ==
  /\ t \in Threads /\ Rest(t) \in Nat /\ todo' \in [Threads -> Seq(Ops)]
  /\ \A u \in Threads \ {t} : todo'[u] = todo[u]
  /\ DOMAIN todo'[t] = 1 .. Rest(t) + Len(ops) /\ DOMAIN ops = 1 .. Len(ops)
  /\ \A u \in Threads : \A j \in DOMAIN todo'[u] :
       \/ Kept(t, u, j) /\ todo'[u][j] = todo[u][j]
       \/ u = t /\ \E i \in DOMAIN ops : j = Rest(t) + i /\ todo'[u][j] = ops[i]
  /\ \A u \in Threads : \A j \in DOMAIN todo[u] :
       Kept(t, u, j) => j \in DOMAIN todo'[u] /\ todo'[u][j] = todo[u][j]
  /\ \A i \in DOMAIN ops :
       Rest(t) + i \in DOMAIN todo'[t] /\ todo'[t][Rest(t) + i] = ops[i]

\* The last operation of a thread.
LEMMA Top ==
  ASSUME TypeOK, NEW t \in Threads
  PROVE  /\ todo[t] \in Seq(Ops) /\ Rest(t) \in Nat
         /\ Idle(t) => Rest(t) = 0 /\ DOMAIN todo[t] = {}
         /\ ~Idle(t) => /\ DOMAIN todo[t] = 1 .. Rest(t) + 1
                        /\ Rest(t) + 1 \in DOMAIN todo[t]
                        /\ todo[t][Rest(t) + 1] = Last(todo[t]) /\ Last(todo[t]) \in Ops
         /\ \A j \in DOMAIN todo[t] :
              /\ todo[t][j] \in Ops /\ j \in Nat
              /\ Kept(t, t, j) \/ (~Idle(t) /\ j = Rest(t) + 1)
<1>1. todo[t] \in Seq(Ops)
  BY DEF TypeOK
<1>2. /\ Len(todo[t]) \in Nat /\ DOMAIN todo[t] = 1 .. Len(todo[t])
      /\ \A j \in 1 .. Len(todo[t]) : todo[t][j] \in Ops
  BY <1>1, LenProperties, ElementOfSeq
<1>3. CASE Idle(t)
  <2>1. Len(todo[t]) = 0
    BY <1>3 DEF Idle
  <2> QED BY <1>1, <1>2, <1>3, <2>1 DEF Rest, Kept
<1>4. CASE ~Idle(t)
  <2>1. Len(todo[t]) # 0
    BY <1>1, <1>4, EmptySeq DEF Idle
  <2>2. /\ Rest(t) = Len(todo[t]) - 1 /\ Rest(t) \in Nat
        /\ Rest(t) + 1 = Len(todo[t])
    BY <1>2, <1>4, <2>1 DEF Rest
  <2>3. Last(todo[t]) = todo[t][Len(todo[t])] /\ Len(todo[t]) \in 1 .. Len(todo[t])
    BY <1>2, <2>1 DEF Last
  <2>4. \A j \in 1 .. Len(todo[t]) : j \in Nat /\ (j <= Rest(t) \/ j = Rest(t) + 1)
    BY <1>2, <2>2
  <2> QED BY <1>1, <1>2, <1>4, <2>2, <2>3, <2>4 DEF Kept
<1> QED BY <1>3, <1>4

\* What is new is ops, in general.
LEMMA NewStack ==
  ASSUME TypeOK, NEW t \in Threads, NEW ops \in Seq(Ops),
         NEW l \in Seq(Ops), Len(l) = Rest(t) + Len(ops),
         \A j \in 1 .. Rest(t) : l[j] = todo[t][j],
         \A i \in 1 .. Len(ops) : l[Rest(t) + i] = ops[i],
         todo' = [todo EXCEPT ![t] = l]
  PROVE  Stepped(t, ops)
<1> DEFINE n == Rest(t)
           m == Len(ops)
<1>1. /\ todo \in [Threads -> Seq(Ops)] /\ n \in Nat
      /\ \A j \in DOMAIN todo[t] : j \in Nat
      /\ Idle(t) => DOMAIN todo[t] = {} /\ n = 0
      /\ ~Idle(t) => DOMAIN todo[t] = 1 .. n + 1
  BY Top DEF TypeOK
<1>2. m \in Nat /\ DOMAIN ops = 1 .. m /\ DOMAIN l = 1 .. n + m
  BY LenProperties
<1>3. /\ todo' \in [Threads -> Seq(Ops)] /\ todo'[t] = l
      /\ \A u \in Threads \ {t} : todo'[u] = todo[u]
  BY <1>1
<1>4. \A j \in 1 .. n : j \in DOMAIN l /\ j \in DOMAIN todo[t] /\ Kept(t, t, j)
  <2>1. n # 0 => DOMAIN todo[t] = 1 .. n + 1
    BY <1>1
  <2>2. \A j \in 1 .. n : j \in 1 .. n + 1 /\ n # 0 /\ j \in 1 .. n + m /\ j <= n
    BY <1>1, <1>2
  <2> QED BY <1>2, <2>1, <2>2 DEF Kept
<1>5. \A j \in DOMAIN todo[t] : Kept(t, t, j) => j \in 1 .. n
  <2>1. \A j \in DOMAIN todo[t] : j \in Nat /\ j # 0
    BY <1>1
  <2> QED BY <1>1, <2>1 DEF Kept
<1>6. \A j \in 1 .. n + m : j \in 1 .. n \/ (j - n \in 1 .. m /\ j = n + (j - n))
  BY <1>1, <1>2
<1>7. \A i \in 1 .. m : n + i \in 1 .. n + m
  BY <1>1, <1>2
<1>8. \A u \in Threads \ {t} : \A j : Kept(t, u, j) <=> j \in DOMAIN todo[u]
  BY DEF Kept
<1> HIDE DEF n, m
<1>9. \A j \in DOMAIN l : \/ Kept(t, t, j) /\ l[j] = todo[t][j]
                          \/ \E i \in DOMAIN ops : j = n + i /\ l[j] = ops[i]
  <2> SUFFICES ASSUME NEW j \in 1 .. n + m
               PROVE  \/ Kept(t, t, j) /\ l[j] = todo[t][j]
                      \/ \E i \in DOMAIN ops : j = n + i /\ l[j] = ops[i]
    BY <1>2
  <2>1. CASE j \in 1 .. n
    BY <1>4, <2>1 DEF n
  <2>2. CASE j - n \in 1 .. m /\ j = n + (j - n)
    BY <1>2, <2>2 DEF n, m
  <2> QED BY <1>6, <2>1, <2>2
<1>10. \A u \in Threads : \A j \in DOMAIN todo'[u] :
         \/ Kept(t, u, j) /\ todo'[u][j] = todo[u][j]
         \/ u = t /\ \E i \in DOMAIN ops : j = n + i /\ todo'[u][j] = ops[i]
  BY <1>3, <1>8, <1>9
<1>11. \A u \in Threads : \A j \in DOMAIN todo[u] :
         Kept(t, u, j) => j \in DOMAIN todo'[u] /\ todo'[u][j] = todo[u][j]
  BY <1>3, <1>4, <1>5 DEF n
<1>12. \A i \in DOMAIN ops : n + i \in DOMAIN todo'[t] /\ todo'[t][n + i] = ops[i]
  BY <1>2, <1>3, <1>7 DEF n, m
<1> QED BY <1>1, <1>2, <1>3, <1>10, <1>11, <1>12 DEF Stepped, n, m

\* The operation a thread was on is replaced.
LEMMA ThenSteps ==
  ASSUME TypeOK, NEW t \in Threads, ~Idle(t), NEW ops \in Seq(Ops), Then(t, ops)
  PROVE  Stepped(t, ops)
<1> DEFINE n == Rest(t)
           f == Front(todo[t])
           l == f \o ops
<1>1. /\ todo[t] \in Seq(Ops) /\ n \in Nat /\ Len(todo[t]) = n + 1
      /\ DOMAIN todo[t] = 1 .. n + 1 /\ todo \in [Threads -> Seq(Ops)]
  <2>1. Len(todo[t]) = n + 1
    BY Top, LenProperties DEF Rest
  <2> QED BY Top, <2>1 DEF TypeOK
<1>2. f \in Seq(Ops) /\ Len(f) = n /\ \A j \in 1 .. n : f[j] = todo[t][j]
  <2>1. f = SubSeq(todo[t], 1, n) /\ 1 \in 1 .. n + 2 /\ n \in 1 - 1 .. n + 1
    BY <1>1 DEF Front
  <2>2. /\ SubSeq(todo[t], 1, n) \in Seq(Ops)
        /\ Len(SubSeq(todo[t], 1, n)) = IF 1 <= n THEN n - 1 + 1 ELSE 0
        /\ \A i \in 1 .. n - 1 + 1 : SubSeq(todo[t], 1, n)[i] = todo[t][1 + i - 1]
    BY <1>1, <2>1, SubSeqProperties
  <2>3. n - 1 + 1 = n /\ \A i \in 1 .. n : 1 + i - 1 = i
    BY <1>1
  <2> QED BY <1>1, <2>1, <2>2, <2>3
<1>3. todo' = [todo EXCEPT ![t] = l]
  BY DEF Then
<1>4. Len(ops) \in Nat /\ DOMAIN ops = 1 .. Len(ops)
  BY LenProperties
<1> HIDE DEF f
<1>5. /\ l \in Seq(Ops) /\ Len(l) = n + Len(ops)
      /\ \A i \in 1 .. n + Len(ops) : l[i] = IF i <= n THEN f[i] ELSE ops[i - n]
  <2>1. /\ f \o ops \in Seq(Ops) /\ Len(f \o ops) = Len(f) + Len(ops)
        /\ \A i \in 1 .. Len(f) + Len(ops) :
             (f \o ops)[i] = IF i <= Len(f) THEN f[i] ELSE ops[i - Len(f)]
    BY <1>2, ConcatProperties
  <2> HIDE DEF n
  <2> QED BY <1>2, <2>1
<1>6. \A j \in 1 .. n : l[j] = todo[t][j]
  <2>1. \A j \in 1 .. n : j \in 1 .. n + Len(ops) /\ j <= n
    BY <1>1, <1>4
  <2> QED BY <1>2, <1>5, <2>1
<1>7. \A i \in 1 .. Len(ops) : l[n + i] = ops[i]
  <2> SUFFICES ASSUME NEW i \in 1 .. Len(ops) PROVE l[n + i] = ops[i]
    OBVIOUS
  <2>1. n + i \in 1 .. n + Len(ops) /\ ~ (n + i <= n) /\ n + i - n = i
    BY <1>1, <1>4
  <2> DEFINE j == n + i
  <2> HIDE DEF n, l, j
  <2>2. j \in 1 .. n + Len(ops) /\ ~ (j <= n) /\ j - n = i
    BY <1>1, <1>4, <2>1 DEF j
  <2>3. l[j] = ops[j - n]
    BY <1>5, <2>2
  <2>4. l[n + i] = l[j]
    BY DEF j
  <2> QED BY <2>2, <2>3, <2>4
<1> HIDE DEF l
<1> QED BY <1>3, <1>5, <1>6, <1>7, NewStack

\* A thread that had nothing to do takes something up.
LEMMA PushSteps ==
  ASSUME TypeOK, NEW t \in Threads, Idle(t), NEW ops \in Seq(Ops),
         todo' = [todo EXCEPT ![t] = ops]
  PROVE  Stepped(t, ops)
<1>1. Rest(t) = 0 /\ Len(ops) \in Nat
  BY Top, LenProperties
<1>2. Len(ops) = Rest(t) + Len(ops) /\ \A i \in 1 .. Len(ops) : Rest(t) + i = i
  BY <1>1
<1>3. \A j \in 1 .. Rest(t) : ops[j] = todo[t][j]
  BY <1>1
<1> QED BY <1>2, <1>3, NewStack

\* The same operations, in sets of their own.
LEMMA OpTypes ==
  /\ \A o \in Ops : o.op \in OnItems \cup Loops \cup {"lookup", "build", "unref", "release"}
  /\ \A o \in Ops : o.op \in OnItems \ {"publish"} => o.x \in Slots \cup {None}
  /\ \A o \in Ops : o.op = "publish" => o.x \in Slots
  /\ \A o \in Ops : o.op \in Loops => o.x \in Caches
  /\ \A o \in Ops : o.op \in {"lookup", "build"} => o.x \in Keys
  /\ \A o \in Ops : o.op \in {"unref", "release"} => o.x \in Frames
  /\ \A s \in Slots \cup {None} :
       \A k \in {"dec", "zero", "destruct", "orphan", "evict", "walk"} : Op(k, s) \in Ops
  /\ \A s \in Slots : Op("publish", s) \in Ops
  /\ \A c \in Caches : \A k \in Loops : Op(k, c) \in Ops
  /\ \A k \in Keys : Op("lookup", k) \in Ops /\ Op("build", k) \in Ops
  /\ \A f \in Frames : Op("unref", f) \in Ops /\ Op("release", f) \in Ops
  /\ \A o, x : Op(o, x).op = o /\ Op(o, x).x = x
<1>1. \A o, x : Op(o, x) = [op |-> o, x |-> x] /\ Op(o, x).op = o /\ Op(o, x).x = x
  BY DEF Op
<1> USE DEF Ops, OnItems, Loops
<1>2. \A o \in Ops : o.op \in OnItems \cup Loops \cup {"lookup", "build", "unref", "release"}
  OBVIOUS
<1>3. \A o \in Ops : o.op \in OnItems \ {"publish"} => o.x \in Slots \cup {None}
  OBVIOUS
<1>4. \A o \in Ops : o.op = "publish" => o.x \in Slots
  OBVIOUS
<1>5. \A o \in Ops : o.op \in Loops => o.x \in Caches
  OBVIOUS
<1>6. \A o \in Ops : o.op \in {"lookup", "build"} => o.x \in Keys
  OBVIOUS
<1>7. \A o \in Ops : o.op \in {"unref", "release"} => o.x \in Frames
  OBVIOUS
<1>8. \A s \in Slots \cup {None} :
        \A k \in {"dec", "zero", "destruct", "orphan", "evict", "walk"} : Op(k, s) \in Ops
  BY <1>1
<1>9. \A s \in Slots : Op("publish", s) \in Ops
  BY <1>1
<1>10. \A c \in Caches : \A k \in Loops : Op(k, c) \in Ops
  BY <1>1
<1>11. \A k \in Keys : Op("lookup", k) \in Ops /\ Op("build", k) \in Ops
  BY <1>1
<1>12. \A f \in Frames : Op("unref", f) \in Ops /\ Op("release", f) \in Ops
  BY <1>1
<1> HIDE DEF Ops, OnItems, Loops
<1> QED BY <1>1, <1>2, <1>3, <1>4, <1>5, <1>6, <1>7, <1>8, <1>9, <1>10, <1>11, <1>12

\* Operations that may be put on top of what stays of t's.
Fits(t, ops) ==
  /\ \A i \in DOMAIN ops :
       /\ t \in MayDo(ops[i].op)
       /\ ops[i].op \in {"walk", "orphan", "evict"} => Rest(t) + i # 1
       /\ \A j \in DOMAIN todo[t] :
            Kept(t, t, j) => todo[t][j].op \in MayWait(ops[i].op)
  /\ \A i, j \in DOMAIN ops : i < j => ops[i].op \in MayWait(ops[j].op)

\* Such operations go where the last one was.
LEMMA StacksKept ==
  ASSUME TypeOK, Stacks, NEW t \in Threads, NEW ops, Stepped(t, ops), Fits(t, ops)
  PROVE  Stacks'
<1> SUFFICES ASSUME NEW u \in Threads, NEW j \in DOMAIN todo'[u]
             PROVE  /\ u \in MayDo(todo'[u][j].op)
                    /\ \A i \in DOMAIN todo'[u] :
                         i < j => todo'[u][i].op \in MayWait(todo'[u][j].op)
                    /\ todo'[u][j].op \in {"walk", "orphan", "evict"} => j # 1
  BY DEF Stacks
<1> DEFINE n == Rest(t)
<1>1. n \in Nat /\ DOMAIN todo'[t] = 1 .. n + Len(ops) /\ DOMAIN ops = 1 .. Len(ops)
  BY DEF Stepped
<1>2. \A v \in Threads : \A i \in DOMAIN todo[v] : i \in Nat
  BY Top
<1>3. CASE Kept(t, u, j) /\ todo'[u][j] = todo[u][j]
  <2>1. \A i \in DOMAIN todo'[u] : i < j => Kept(t, u, i) /\ todo'[u][i] = todo[u][i]
    <3> SUFFICES ASSUME NEW i \in DOMAIN todo'[u], i < j
                 PROVE  Kept(t, u, i) /\ todo'[u][i] = todo[u][i]
      OBVIOUS
    <3>1. CASE u = t /\ \E k \in DOMAIN ops : i = n + k
      <4>1. PICK k \in DOMAIN ops : i = n + k
        BY <3>1
      <4>2. j <= n /\ j \in Nat /\ k \in Nat /\ k >= 1
        BY <1>1, <1>2, <1>3, <3>1 DEF Kept
      <4> HIDE DEF n
      <4> QED BY <1>1, <4>1, <4>2
    <3> QED BY <3>1 DEF Stepped
  <2> QED BY <1>3, <2>1 DEF Stacks, Kept
<1>4. ASSUME u = t, NEW k \in DOMAIN ops, j = n + k, todo'[u][j] = ops[k]
      PROVE  /\ u \in MayDo(todo'[u][j].op)
             /\ \A i \in DOMAIN todo'[u] :
                  i < j => todo'[u][i].op \in MayWait(todo'[u][j].op)
             /\ todo'[u][j].op \in {"walk", "orphan", "evict"} => j # 1
  <2>1. ASSUME NEW i \in DOMAIN todo'[t], i < j
        PROVE  todo'[t][i].op \in MayWait(ops[k].op)
    <3>1. CASE Kept(t, t, i) /\ todo'[t][i] = todo[t][i]
      BY <3>1 DEF Fits, Kept
    <3>2. ASSUME NEW h \in DOMAIN ops, i = n + h, todo'[t][i] = ops[h]
          PROVE  todo'[t][i].op \in MayWait(ops[k].op)
      <4>1. h < k
        BY <1>1, <1>4, <2>1, <3>2
      <4> QED BY <3>2, <4>1 DEF Fits
    <3> QED BY <3>1, <3>2 DEF Stepped
  <2> QED BY <1>4, <2>1 DEF Fits
<1> QED BY <1>3, <1>4 DEF Stepped

\* What may wait below an operation may wait below one like it.
LEMMA Nothing_Fits ==
  ASSUME NEW t \in Threads
  PROVE  Fits(t, <<>>)
BY DEF Fits

\* One operation in place of another.
LEMMA OneFits ==
  ASSUME TypeOK, Stacks, NEW t \in Threads, ~Idle(t), NEW p, p = Last(todo[t]).op,
         NEW o, t \in MayDo(o.op), MayWait(p) \subseteq MayWait(o.op),
         o.op \in {"walk", "orphan", "evict"} => p \in {"walk", "orphan", "evict"}
  PROVE  Fits(t, <<o>>)
<1>1. /\ Rest(t) \in Nat /\ Rest(t) + 1 \in DOMAIN todo[t]
      /\ todo[t][Rest(t) + 1].op = p
  BY Top
<1>2. \A j \in DOMAIN todo[t] : Kept(t, t, j) => todo[t][j].op \in MayWait(p)
  <2>1. \A j \in DOMAIN todo[t] : j \in Nat
    BY Top
  <2>2. \A j \in DOMAIN todo[t] : Kept(t, t, j) => j < Rest(t) + 1
    BY <1>1, <2>1 DEF Kept
  <2> QED BY <1>1, <2>2 DEF Stacks
<1>3. p \in {"walk", "orphan", "evict"} => Rest(t) + 1 # 1
  BY <1>1 DEF Stacks
<1>4. /\ DOMAIN <<o>> = {1} /\ <<o>>[1] = o
  OBVIOUS
<1> QED BY <1>2, <1>3, <1>4 DEF Fits

\* Two operations in place of one.
LEMMA TwoFit ==
  ASSUME TypeOK, Stacks, NEW t \in Threads, ~Idle(t), NEW p, p = Last(todo[t]).op,
         NEW o, t \in MayDo(o.op), MayWait(p) \subseteq MayWait(o.op),
         o.op \in {"walk", "orphan", "evict"} => p \in {"walk", "orphan", "evict"},
         NEW r, t \in MayDo(r.op), MayWait(p) \subseteq MayWait(r.op),
         o.op \in MayWait(r.op)
  PROVE  Fits(t, <<o, r>>)
<1>1. Fits(t, <<o>>)
  BY OneFits
<1>2. DOMAIN <<o>> = {1} /\ <<o>>[1] = o
  OBVIOUS
<1>3. DOMAIN <<o, r>> = {1, 2} /\ <<o, r>>[1] = o /\ <<o, r>>[2] = r
  OBVIOUS
<1>4. Rest(t) \in Nat /\ Rest(t) + 1 \in DOMAIN todo[t] /\ todo[t][Rest(t) + 1].op = p
  BY Top
<1>5. \A j \in DOMAIN todo[t] : Kept(t, t, j) => todo[t][j].op \in MayWait(p)
  <2>1. \A j \in DOMAIN todo[t] : j \in Nat
    BY Top
  <2>2. \A j \in DOMAIN todo[t] : Kept(t, t, j) => j < Rest(t) + 1
    BY <1>4, <2>1 DEF Kept
  <2> QED BY <1>4, <2>2 DEF Stacks
<1>6. Rest(t) + 2 # 1
  BY <1>4
<1>7. \A i, j \in {1, 2} : i < j => i = 1 /\ j = 2
  OBVIOUS
<1>8. /\ t \in MayDo(o.op)
      /\ o.op \in {"walk", "orphan", "evict"} => Rest(t) + 1 # 1
      /\ \A j \in DOMAIN todo[t] : Kept(t, t, j) => todo[t][j].op \in MayWait(o.op)
  BY <1>1, <1>2 DEF Fits
<1>9. \A j \in DOMAIN todo[t] : Kept(t, t, j) => todo[t][j].op \in MayWait(r.op)
  BY <1>5
<1> QED BY <1>3, <1>6, <1>7, <1>8, <1>9 DEF Fits

\* With nothing below, there is only the order of the new ones.
LEMMA FreshFit ==
  ASSUME TypeOK, NEW t \in Threads, Idle(t), NEW ops,
         \A i \in DOMAIN ops : /\ t \in MayDo(ops[i].op)
                               /\ ops[i].op \notin {"walk", "orphan", "evict"},
         \A i, j \in DOMAIN ops : i < j => ops[i].op \in MayWait(ops[j].op)
  PROVE  Fits(t, ops)
BY Top DEF Fits

\* Operations that take custody of what nobody has in custody.
Takes(t, ops) ==
  \A i \in DOMAIN ops : ops[i].op \in Custody =>
    /\ \A j \in DOMAIN ops : ops[j].op \in Custody /\ ops[j].x = ops[i].x => i = j
    /\ \A u \in Threads : \A j \in DOMAIN todo[u] :
         Kept(t, u, j) => ~InCustody(ops[i].x, u, j)

\* An item that is taken has one custodian, still.
LEMMA CustodyKept ==
  ASSUME TypeOK, OneCustodian, NEW t \in Threads, NEW ops, Stepped(t, ops),
         Takes(t, ops)
  PROVE  OneCustodian'
<1> SUFFICES ASSUME NEW s \in Slots, NEW u \in Threads, NEW v \in Threads,
                    NEW i \in DOMAIN todo'[u], NEW j \in DOMAIN todo'[v],
                    todo'[u][i].op \in Custody, todo'[u][i].x = s,
                    todo'[v][j].op \in Custody, todo'[v][j].x = s
             PROVE  u = v /\ i = j
  BY DEF OneCustodian, InCustody
<1> DEFINE Old(w, k) == Kept(t, w, k) /\ todo'[w][k] = todo[w][k]
           New(w, k) == w = t /\ \E h \in DOMAIN ops : k = Rest(t) + h /\ todo'[w][k] = ops[h]
<1>1. (Old(u, i) \/ New(u, i)) /\ (Old(v, j) \/ New(v, j))
  BY DEF Stepped
<1>2. CASE Old(u, i) /\ Old(v, j)
  BY <1>2 DEF OneCustodian, InCustody, Kept
<1>3. CASE Old(u, i) /\ New(v, j)
  BY <1>3 DEF Takes, InCustody, Kept
<1>4. CASE New(u, i) /\ Old(v, j)
  BY <1>4 DEF Takes, InCustody, Kept
<1>5. CASE New(u, i) /\ New(v, j)
  <2>1. PICK h \in DOMAIN ops : i = Rest(t) + h /\ todo'[u][i] = ops[h]
    BY <1>5
  <2>2. PICK k \in DOMAIN ops : j = Rest(t) + k /\ todo'[v][j] = ops[k]
    BY <1>5
  <2> QED BY <1>5, <2>1, <2>2 DEF Takes
<1> QED BY <1>1, <1>2, <1>3, <1>4, <1>5

\* An item in custody stays there, unless its custodian was taken up; and one
\* that is taken in custody is.
LEMMA HandKept ==
  ASSUME TypeOK, NEW t \in Threads, NEW ops, Stepped(t, ops)
  PROVE  /\ \A s : InHand(s) => \/ InHand(s)'
                                \/ /\ ~Idle(t) /\ Last(todo[t]).op \in Custody
                                   /\ Last(todo[t]).x = s
         /\ \A i \in DOMAIN ops : ops[i].op \in Custody => InHand(ops[i].x)'
         /\ \A u \in Threads : \A j \in DOMAIN todo'[u] :
              \/ Kept(t, u, j) /\ todo'[u][j] = todo[u][j]
              \/ u = t /\ \E i \in DOMAIN ops : todo'[u][j] = ops[i]
<1>1. ASSUME NEW s, InHand(s)
      PROVE  \/ InHand(s)'
             \/ ~Idle(t) /\ Last(todo[t]).op \in Custody /\ Last(todo[t]).x = s
  <2>1. PICK u \in Threads : \E j \in DOMAIN todo[u] : InCustody(s, u, j)
    BY <1>1 DEF InHand
  <2> PICK j \in DOMAIN todo[u] : InCustody(s, u, j)
    BY <2>1
  <2>2. CASE Kept(t, u, j)
    BY <2>2 DEF InHand, InCustody, Stepped
  <2>3. CASE ~Kept(t, u, j)
    <3>1. u = t
      BY <2>3 DEF Kept
    <3>2. ~Idle(t) /\ j = Rest(t) + 1 /\ todo[t][Rest(t) + 1] = Last(todo[t])
      BY <2>3, <3>1, Top
    <3> QED BY <3>1, <3>2 DEF InCustody
  <2> QED BY <2>2, <2>3
<1>2. ASSUME NEW i \in DOMAIN ops, ops[i].op \in Custody
      PROVE  InHand(ops[i].x)'
  BY <1>2 DEF InHand, InCustody, Stepped
<1> QED BY <1>1, <1>2 DEF Stepped

\* The same for any operation there is one of.
LEMMA PendingKept ==
  ASSUME TypeOK, NEW t \in Threads, NEW ops, Stepped(t, ops), NEW u \in Threads,
         NEW o, NEW x
  PROVE  /\ Pending(u, o, x) => \/ Pending(u, o, x)'
                                \/ /\ u = t /\ ~Idle(t) /\ Last(todo[t]).op = o
                                   /\ Last(todo[t]).x = x
         /\ Pending(u, o, x)' => \/ Pending(u, o, x)
                                 \/ u = t /\ \E i \in DOMAIN ops :
                                      ops[i].op = o /\ ops[i].x = x
         /\ (u = t /\ \E i \in DOMAIN ops : ops[i].op = o /\ ops[i].x = x)
              => Pending(u, o, x)'
<1>1. ASSUME Pending(u, o, x)
      PROVE  \/ Pending(u, o, x)'
             \/ u = t /\ ~Idle(t) /\ Last(todo[t]).op = o /\ Last(todo[t]).x = x
  <2>1. PICK j \in DOMAIN todo[u] : todo[u][j].op = o /\ todo[u][j].x = x
    BY <1>1 DEF Pending
  <2>2. CASE Kept(t, u, j)
    BY <2>1, <2>2 DEF Pending, Stepped
  <2>3. CASE ~Kept(t, u, j)
    <3>1. u = t
      BY <2>3 DEF Kept
    <3>2. ~Idle(t) /\ j = Rest(t) + 1 /\ todo[t][Rest(t) + 1] = Last(todo[t])
      BY <2>3, <3>1, Top
    <3> QED BY <2>1, <3>1, <3>2
  <2> QED BY <2>2, <2>3
<1>2. ASSUME Pending(u, o, x)'
      PROVE  \/ Pending(u, o, x)
             \/ u = t /\ \E i \in DOMAIN ops : ops[i].op = o /\ ops[i].x = x
  <2>1. PICK j \in DOMAIN todo'[u] : todo'[u][j].op = o /\ todo'[u][j].x = x
    BY <1>2 DEF Pending
  <2>2. \/ Kept(t, u, j) /\ todo'[u][j] = todo[u][j]
        \/ u = t /\ \E i \in DOMAIN ops : todo'[u][j] = ops[i]
    BY HandKept
  <2> QED BY <2>1, <2>2 DEF Pending, Kept
<1>3. ASSUME u = t, NEW i \in DOMAIN ops, ops[i].op = o, ops[i].x = x
      PROVE  Pending(u, o, x)'
  BY <1>3 DEF Pending, Stepped
<1> QED BY <1>1, <1>2, <1>3

\* Decrements are on top, so what is below one is none.
LEMMA DecsKept ==
  ASSUME TypeOK, Stacks, NEW t \in Threads, NEW ops, Stepped(t, ops)
  PROVE  /\ (Len(ops) = 0 \/ ops[Len(ops)].op # "dec") =>
              \A s : DecRefs(s)' = DecRefs(s) \ {t}
         /\ (Len(ops) # 0 /\ ops[Len(ops)].op = "dec") =>
              \A s : DecRefs(s)' = IF ops[Len(ops)].x = s THEN DecRefs(s) \cup {t}
                                                          ELSE DecRefs(s) \ {t}
         /\ \A s : t \in DecRefs(s) <=> /\ ~Idle(t) /\ Last(todo[t]).op = "dec"
                                        /\ Last(todo[t]).x = s
<1> DEFINE m == Len(ops)
           n == Rest(t)
<1>1. \A s : t \in DecRefs(s) <=> /\ ~Idle(t) /\ Last(todo[t]).op = "dec"
                                  /\ Last(todo[t]).x = s
  BY DEF DecRefs, Doing, Subject
<1>2. \A s : \A u \in Threads \ {t} : u \in DecRefs(s)' <=> u \in DecRefs(s)
  BY DEF DecRefs, Doing, Subject, Idle, Stepped
<1>3. /\ n \in Nat /\ DOMAIN todo'[t] = 1 .. n + m /\ DOMAIN ops = 1 .. m
      /\ todo'[t] \in Seq(Ops)
  BY DEF Stepped
<1>4. m \in Nat
  <2>1. todo'[t] \in Seq(Ops)
    BY <1>3
  <2>2. CASE m \in Nat
    BY <2>2
  <2> QED BY <1>3, <2>2
<1>5. Len(todo'[t]) = n + m /\ (Idle(t)' <=> n + m = 0)
  BY <1>3, <1>4, LenProperties, EmptySeq DEF Idle
<1>6. ~Idle(t)' => Last(todo'[t]) = todo'[t][n + m]
  BY <1>5 DEF Last
<1>7. CASE m # 0
  <2>1. ~Idle(t)' /\ Last(todo'[t]) = ops[m]
    <3>1. m \in DOMAIN ops /\ n + m # 0
      BY <1>3, <1>4, <1>7
    <3>2. todo'[t][n + m] = ops[m]
      BY <3>1 DEF Stepped
    <3> QED BY <1>5, <1>6, <3>1, <3>2
  <2>2. \A s : t \in DecRefs(s)' <=> ops[m].op = "dec" /\ ops[m].x = s
    BY <2>1 DEF DecRefs, Doing, Subject
  <2>3. \A s : DecRefs(s) \subseteq Threads /\ DecRefs(s)' \subseteq Threads
    BY DEF DecRefs
  <2> QED BY <1>1, <1>2, <1>7, <2>2, <2>3
<1>8. CASE m = 0
  <2>1. \A s : t \notin DecRefs(s)'
    <3> SUFFICES ASSUME ~Idle(t)', Last(todo'[t]).op = "dec" PROVE FALSE
      BY DEF DecRefs, Doing
    <3>1. n # 0 /\ Last(todo'[t]) = todo'[t][n] /\ n \in DOMAIN todo'[t]
      BY <1>3, <1>5, <1>6, <1>8
    <3>2. Kept(t, t, n) /\ todo'[t][n] = todo[t][n]
      <4>1. \A i \in DOMAIN ops : FALSE
        BY <1>3, <1>8
      <4> QED BY <3>1, <4>1 DEF Stepped
    <3>3. ~Idle(t) /\ n + 1 \in DOMAIN todo[t] /\ n \in DOMAIN todo[t]
      BY <3>2, Top DEF Kept
    <3>4. todo[t][n].op \in MayWait(todo[t][n + 1].op)
      BY <1>3, <3>3 DEF Stacks
    <3>5. \A o : "dec" \notin MayWait(o)
      BY DEF MayWait, Alone, Loops, Steps
    <3> QED BY <3>1, <3>2, <3>4, <3>5
  <2>2. \A s : DecRefs(s) \subseteq Threads /\ DecRefs(s)' \subseteq Threads
    BY DEF DecRefs
  <2> QED BY <1>1, <1>2, <1>8, <2>1, <2>2
<1> QED BY <1>1, <1>7, <1>8

-----------------------------------------------------------------------------
(* Chains and queues as sets of items                                      *)

\* An item's fields, and what is said of item in TypeOK.
LEMMA ItemTypes ==
  ASSUME TypeOK, NEW s \in Slots
  PROVE  /\ item[s] \in Item /\ item[s].live \in BOOLEAN
         /\ item[s].key \in Keys \cup {None} /\ item[s].uses \in SUBSET Slots
         /\ item[s].ref_count \in Int /\ item[s].shard \in BOOLEAN
BY DEF TypeOK, Item

\* Chains, queues: their elements.
LEMMA ListElements ==
  ASSUME TypeOK, AllPlaced
  PROVE  /\ \A b \in Buckets : chain[b] \in Seq(Slots) /\ ToSet(chain[b]) \subseteq Slots
         /\ \A c \in Caches : queue[c] \in Seq(Slots) /\ ToSet(queue[c]) \subseteq Slots
         /\ \A s : Linked(s) => s \in Slots
         /\ \A s : InQueue(s) => s \in Slots /\ Linked(s)
         /\ \A s \in Slots : Linked(s) =>
              /\ Live(s) /\ item[s].shard /\ item[s].key \in Keys
              /\ ChainOf(s) \in Buckets /\ s \in ToSet(chain[ChainOf(s)])
              /\ HomeOf(s) \in Caches
         /\ \A s \in Slots : InQueue(s) => s \in ToSet(queue[HomeOf(s)])
         /\ \A b \in Buckets : \A s \in ToSet(chain[b]) :
              Linked(s) /\ ChainOf(s) = b /\ s \in Slots
         /\ \A c \in Caches : \A s \in ToSet(queue[c]) :
              InQueue(s) /\ HomeOf(s) = c /\ s \in Slots
<1>1. \A b \in Buckets : chain[b] \in Seq(Slots) /\ ToSet(chain[b]) \subseteq Slots
  BY Elements DEF TypeOK
<1>2. \A c \in Caches : queue[c] \in Seq(Slots) /\ ToSet(queue[c]) \subseteq Slots
  BY Elements DEF TypeOK
<1>3. \A s : Linked(s) => s \in Slots
  BY <1>1 DEF Linked
<1>4. \A s : InQueue(s) => s \in Slots /\ Linked(s)
  BY <1>2 DEF InQueue, AllPlaced, Placed
<1>5. \A s \in Slots : Linked(s) =>
        /\ Live(s) /\ item[s].shard /\ item[s].key \in Keys
        /\ ChainOf(s) \in Buckets /\ s \in ToSet(chain[ChainOf(s)])
        /\ HomeOf(s) \in Caches
  BY KeysAssumption DEF AllPlaced, Placed, Linked, ChainOf, HomeOf
<1>6. \A s \in Slots : InQueue(s) => s \in ToSet(queue[HomeOf(s)])
  BY DEF AllPlaced, Placed, InQueue, HomeOf
<1>7. \A b \in Buckets : \A s \in ToSet(chain[b]) :
        Linked(s) /\ ChainOf(s) = b /\ s \in Slots
  BY <1>1 DEF AllPlaced, Placed, Linked, ChainOf
<1>8. \A c \in Caches : \A s \in ToSet(queue[c]) :
        InQueue(s) /\ HomeOf(s) = c /\ s \in Slots
  BY <1>2 DEF AllPlaced, Placed, InQueue, HomeOf
<1> QED BY <1>1, <1>2, <1>3, <1>4, <1>5, <1>6, <1>7, <1>8

\* How the items of the chains, and of the queues, change.
ChainsKeep(S) ==
  /\ chain' \in [Buckets -> Seq(Slots)]
  /\ \A b \in Buckets : IsInjective(chain'[b]) /\ ToSet(chain'[b]) = ToSet(chain[b]) \ S
QueuesKeep(S) ==
  /\ queue' \in [Caches -> Seq(Slots)]
  /\ \A c \in Caches : IsInjective(queue'[c]) /\ ToSet(queue'[c]) = ToSet(queue[c]) \ S

\* The same chains link the same items.
LEMMA SameChains ==
  ASSUME TypeOK, Lists, UNCHANGED chain
  PROVE  ChainsKeep({})
BY DEF ChainsKeep, TypeOK, Lists

\* The same queues hold the same items.
LEMMA SameQueues ==
  ASSUME TypeOK, Lists, UNCHANGED queue
  PROVE  QueuesKeep({})
BY DEF QueuesKeep, TypeOK, Lists

\* Taking s out of its chain, or out of its queue.
LEMMA ChainLoses ==
  ASSUME TypeOK, Lists, AllPlaced, NEW s \in Slots, Linked(s),
         chain' = [chain EXCEPT ![ChainOf(s)] = Without(@, s)]
  PROVE  ChainsKeep({s})
<1> DEFINE a == ChainOf(s)
<1>1. /\ a \in Buckets /\ \A b \in Buckets : s \in ToSet(chain[b]) => a = b
      /\ \A b \in Buckets : chain[b] \in Seq(Slots)
  BY ListElements
<1>2. chain \in [Buckets -> Seq(Slots)]
  BY DEF TypeOK
<1>3. /\ Without(chain[a], s) \in Seq(Slots) /\ IsInjective(Without(chain[a], s))
      /\ ToSet(Without(chain[a], s)) = ToSet(chain[a]) \ {s}
  BY <1>1, WithoutOne DEF Lists
<1>4. chain' \in [Buckets -> Seq(Slots)] /\ chain'[a] = Without(chain[a], s)
      /\ \A b \in Buckets \ {a} : chain'[b] = chain[b]
  BY <1>1, <1>2, <1>3
<1> HIDE DEF a
<1>5. ASSUME NEW b \in Buckets
      PROVE  IsInjective(chain'[b]) /\ ToSet(chain'[b]) = ToSet(chain[b]) \ {s}
  <2>1. CASE b = a
    BY <1>3, <1>4, <2>1
  <2>2. CASE b # a
    <3>1. chain'[b] = chain[b] /\ s \notin ToSet(chain[b]) /\ IsInjective(chain[b])
      BY <1>1, <1>4, <2>2 DEF Lists
    <3> QED BY <3>1
  <2> QED BY <2>1, <2>2
<1> QED BY <1>4, <1>5 DEF ChainsKeep

\* A queue loses an item, the others do not change.
LEMMA QueueLoses ==
  ASSUME TypeOK, Lists, AllPlaced, NEW s \in Slots, NEW a \in Caches,
         InQueue(s) => HomeOf(s) = a,
         queue' = [queue EXCEPT ![a] = Without(@, s)]
  PROVE  QueuesKeep({s})
<1>1. /\ \A c \in Caches : s \in ToSet(queue[c]) => a = c
      /\ \A c \in Caches : queue[c] \in Seq(Slots)
  BY ListElements
<1>2. queue \in [Caches -> Seq(Slots)]
  BY DEF TypeOK
<1>3. /\ Without(queue[a], s) \in Seq(Slots) /\ IsInjective(Without(queue[a], s))
      /\ ToSet(Without(queue[a], s)) = ToSet(queue[a]) \ {s}
  BY <1>1, WithoutOne DEF Lists
<1>4. queue' \in [Caches -> Seq(Slots)] /\ queue'[a] = Without(queue[a], s)
      /\ \A c \in Caches \ {a} : queue'[c] = queue[c]
  BY <1>1, <1>2, <1>3
<1>5. ASSUME NEW c \in Caches
      PROVE  IsInjective(queue'[c]) /\ ToSet(queue'[c]) = ToSet(queue[c]) \ {s}
  <2>1. CASE c = a
    BY <1>3, <1>4, <2>1
  <2>2. CASE c # a
    <3>1. queue'[c] = queue[c] /\ s \notin ToSet(queue[c]) /\ IsInjective(queue[c])
      BY <1>1, <1>4, <2>2 DEF Lists
    <3> QED BY <3>1
  <2> QED BY <2>1, <2>2
<1> QED BY <1>4, <1>5 DEF QueuesKeep

\* Popping the oldest item of a queue.
LEMMA QueuePops ==
  ASSUME TypeOK, Lists, AllPlaced, NEW a \in Caches, queue[a] # <<>>,
         queue' = [queue EXCEPT ![a] = Tail(@)]
  PROVE  /\ QueuesKeep({Head(queue[a])}) /\ Head(queue[a]) \in Slots
         /\ InQueue(Head(queue[a])) /\ HomeOf(Head(queue[a])) = a
<1> DEFINE s == Head(queue[a])
           q == Tail(queue[a])
<1>1. /\ \A c \in Caches : \A r \in ToSet(queue[c]) : HomeOf(r) = c /\ InQueue(r) /\ r \in Slots
      /\ \A c \in Caches : queue[c] \in Seq(Slots)
  BY ListElements
<1>2. queue \in [Caches -> Seq(Slots)]
  BY DEF TypeOK
<1>3. s \in ToSet(queue[a])
  BY <1>1, Elements
<1>4. q \in Seq(Slots) /\ IsInjective(q) /\ ToSet(q) = ToSet(queue[a]) \ {s}
  BY <1>1, WithoutFirst DEF Lists
<1> HIDE DEF s, q
<1>5. /\ queue' \in [Caches -> Seq(Slots)] /\ queue'[a] = q
      /\ \A c \in Caches \ {a} : queue'[c] = queue[c]
  BY <1>1, <1>2, <1>4 DEF q
<1>6. ASSUME NEW c \in Caches
      PROVE  IsInjective(queue'[c]) /\ ToSet(queue'[c]) = ToSet(queue[c]) \ {s}
  <2>1. CASE c = a
    BY <1>4, <1>5, <2>1
  <2>2. CASE c # a
    <3>1. queue'[c] = queue[c] /\ s \notin ToSet(queue[c]) /\ IsInjective(queue[c])
      BY <1>1, <1>3, <1>5, <2>2 DEF Lists
    <3> QED BY <3>1
  <2> QED BY <2>1, <2>2
<1>7. QueuesKeep({s})
  BY <1>5, <1>6 DEF QueuesKeep
<1> QED BY <1>1, <1>3, <1>7 DEF s

\* An item comes to the recently used end of its queue.
QueueHas(s) ==
  /\ queue' \in [Caches -> Seq(Slots)]
  /\ \A c \in Caches :
       /\ IsInjective(queue'[c])
       /\ ToSet(queue'[c]) = IF c = HomeOf(s) THEN ToSet(queue[c]) \cup {s}
                                               ELSE ToSet(queue[c])

\* An item goes to the end of its queue.
LEMMA QueueTakes ==
  ASSUME TypeOK, Lists, AllPlaced, NEW s \in Slots, NEW a, a = HomeOf(s), a \in Caches,
         \/ queue' = [queue EXCEPT ![a] = Append(Without(@, s), s)]
         \/ ~InQueue(s) /\ queue' = [queue EXCEPT ![a] = Append(@, s)]
  PROVE  QueueHas(s)
<1>1. \A c \in Caches : queue[c] \in Seq(Slots)
  BY ListElements
<1>2. queue \in [Caches -> Seq(Slots)]
  BY DEF TypeOK
<1>3. \E q : /\ q \in Seq(Slots) /\ IsInjective(q) /\ ToSet(q) = ToSet(queue[a]) \ {s}
             /\ queue' = [queue EXCEPT ![a] = Append(q, s)]
  <2>1. CASE queue' = [queue EXCEPT ![a] = Append(Without(@, s), s)]
    <3>1. /\ Without(queue[a], s) \in Seq(Slots) /\ IsInjective(Without(queue[a], s))
          /\ ToSet(Without(queue[a], s)) = ToSet(queue[a]) \ {s}
      BY <1>1, WithoutOne DEF Lists
    <3> QED BY <2>1, <3>1
  <2>2. CASE ~InQueue(s) /\ queue' = [queue EXCEPT ![a] = Append(@, s)]
    <3>1. s \notin ToSet(queue[a]) /\ IsInjective(queue[a])
      BY <2>2 DEF InQueue, Lists
    <3> QED BY <1>1, <2>2, <3>1
  <2> QED BY <2>1, <2>2
<1>4. PICK q : /\ q \in Seq(Slots) /\ IsInjective(q) /\ ToSet(q) = ToSet(queue[a]) \ {s}
               /\ queue' = [queue EXCEPT ![a] = Append(q, s)]
  BY <1>3
<1> DEFINE p == Append(q, s)
<1>5. p \in Seq(Slots) /\ IsInjective(p) /\ ToSet(p) = ToSet(q) \cup {s}
  <2>1. s \notin ToSet(q) /\ q \in Seq(Slots) /\ IsInjective(q)
    BY <1>4
  <2>2. /\ Append(q, s) \in Seq(Slots) /\ IsInjective(Append(q, s))
        /\ ToSet(Append(q, s)) = ToSet(q) \cup {s}
    BY <2>1, WithOneBehind
  <2> QED BY <2>2
<1> HIDE DEF p
<1>6. /\ queue' \in [Caches -> Seq(Slots)] /\ queue'[a] = p
      /\ \A c \in Caches \ {a} : queue'[c] = queue[c]
  BY <1>2, <1>4, <1>5 DEF p
<1> QED BY <1>4, <1>5, <1>6 DEF QueueHas, Lists

\* An item comes to the front of its chain.
ChainHas(s, k) ==
  /\ chain' \in [Buckets -> Seq(Slots)]
  /\ \A b \in Buckets :
       /\ IsInjective(chain'[b])
       /\ ToSet(chain'[b]) = IF b = Bucket[k] THEN ToSet(chain[b]) \cup {s}
                                               ELSE ToSet(chain[b])

\* An item goes to the head of its chain.
LEMMA ChainTakes ==
  ASSUME TypeOK, Lists, NEW s \in Slots, ~Linked(s), NEW k, Bucket[k] \in Buckets,
         chain' = [chain EXCEPT ![Bucket[k]] = <<s>> \o @]
  PROVE  ChainHas(s, k)
<1> DEFINE a == Bucket[k]
           p == <<s>> \o chain[a]
<1>1. chain \in [Buckets -> Seq(Slots)]
  BY DEF TypeOK
<1>2. s \notin ToSet(chain[a]) /\ IsInjective(chain[a]) /\ chain[a] \in Seq(Slots)
  BY <1>1 DEF Linked, Lists
<1>3. p \in Seq(Slots) /\ IsInjective(p) /\ ToSet(p) = ToSet(chain[a]) \cup {s}
  BY <1>2, WithOneInFront
<1> HIDE DEF p
<1>4. /\ chain' \in [Buckets -> Seq(Slots)] /\ chain'[a] = p
      /\ \A b \in Buckets \ {a} : chain'[b] = chain[b]
  BY <1>1, <1>3 DEF p
<1> QED BY <1>3, <1>4 DEF ChainHas, Lists

-----------------------------------------------------------------------------
(* What a step leaves alone                                                *)

\* The item is as it was, where it was.
Same(r) ==
  /\ item'[r] = item[r]
  /\ \A b \in Buckets : r \in ToSet(chain'[b]) <=> r \in ToSet(chain[b])
  /\ \A c \in Caches : r \in ToSet(queue'[c]) <=> r \in ToSet(queue[c])

\* Nothing happened but to the items in S.
Moved(S) ==
  /\ item' \in [Slots -> Item]
  /\ chain' \in [Buckets -> Seq(Slots)] /\ queue' \in [Caches -> Seq(Slots)]
  /\ Lists'
  /\ \A r \in Slots \ S : Same(r)

\* What can be said of an item that has not moved.
LEMMA SameView ==
  ASSUME NEW r, Same(r)
  PROVE  /\ item'[r] = item[r] /\ (Linked(r)' <=> Linked(r))
         /\ (InQueue(r)' <=> InQueue(r)) /\ (Live(r)' <=> Live(r))
         /\ HomeOf(r)' = HomeOf(r) /\ ChainOf(r)' = ChainOf(r)
         /\ (Lost(r)' <=> Lost(r))
BY DEF Same, Linked, InQueue, Live, HomeOf, ChainOf, Lost

\* Steps that leave the caches alone.
LEMMA Unmoved ==
  ASSUME TypeOK, Lists, UNCHANGED <<item, chain, queue>>
  PROVE  Moved({})
BY DEF Moved, Same, TypeOK, Lists

\* Steps that take an item out of a chain, or out of a queue, or change it.
LEMMA Removed ==
  ASSUME TypeOK, NEW S, NEW T, NEW s,
         item' \in [Slots -> Item], \A r \in Slots \ {s} : item'[r] = item[r],
         S = {s} \/ S = {}, T = {s} \/ T = {}, ChainsKeep(S), QueuesKeep(T)
  PROVE  /\ Moved({s})
         /\ Linked(s)' <=> Linked(s) /\ s \notin S
         /\ InQueue(s)' <=> InQueue(s) /\ s \notin T
         /\ \A b \in Buckets : s \in ToSet(chain'[b]) => s \in ToSet(chain[b])
         /\ \A c \in Caches : s \in ToSet(queue'[c]) => s \in ToSet(queue[c])
<1>1. Lists'
  BY DEF Lists, ChainsKeep, QueuesKeep
<1>2. \A r \in Slots \ {s} : Same(r)
  BY DEF Same, ChainsKeep, QueuesKeep
<1>3. Linked(s)' <=> Linked(s) /\ s \notin S
  BY DEF Linked, ChainsKeep
<1>4. InQueue(s)' <=> InQueue(s) /\ s \notin T
  BY DEF InQueue, QueuesKeep
<1> QED BY <1>1, <1>2, <1>3, <1>4 DEF Moved, ChainsKeep, QueuesKeep

\* An item that nothing happened to is still where it belongs.
LEMMA PlacedKept ==
  ASSUME TypeOK, NEW t \in Threads, NEW ops, Stepped(t, ops), NEW r, Same(r), Placed(r),
         ~Idle(t) /\ Last(todo[t]).op \in Custody => Last(todo[t]).x # r,
         \A d \in item[r].uses : item'[d].key = item[d].key
  PROVE  Placed(r)'
<1>1. /\ item'[r] = item[r] /\ (Linked(r)' <=> Linked(r))
      /\ (InQueue(r)' <=> InQueue(r)) /\ (Live(r)' <=> Live(r))
  BY SameView
<1>2. InHand(r) => InHand(r)'
  BY HandKept
<1>3. /\ \A b \in Buckets : r \in ToSet(chain'[b]) <=> r \in ToSet(chain[b])
      /\ \A c \in Caches : r \in ToSet(queue'[c]) <=> r \in ToSet(queue[c])
  BY DEF Same
<1> HIDE DEF InHand, Linked, InQueue
<1> QED BY <1>1, <1>2, <1>3 DEF Placed, Live

\* An operation on it finds what it found.
LEMMA ReadyKept ==
  ASSUME NEW o, Ready(o), o.op \in OnItems => Same(o.x) \/ (o.op = "walk" /\ o.x = None)
                                              \/ o.op = "dec"
  PROVE  Ready(o)'
<1>1. CASE o.op \in OnItems /\ Same(o.x)
  <2>1. /\ item'[o.x] = item[o.x] /\ (Linked(o.x)' <=> Linked(o.x))
        /\ (InQueue(o.x)' <=> InQueue(o.x)) /\ (Live(o.x)' <=> Live(o.x))
        /\ (Lost(o.x)' <=> Lost(o.x))
    BY <1>1, SameView
  <2> HIDE DEF Linked, InQueue, Live, Lost
  <2> QED BY <2>1 DEF Ready
<1>2. CASE o.op = "walk" /\ o.x = None
  BY <1>2 DEF Ready
<1>3. CASE o.op = "dec"
  BY <1>3 DEF Ready
<1>4. CASE o.op \notin OnItems
  BY <1>4 DEF Ready, OnItems
<1> QED BY <1>1, <1>2, <1>3, <1>4

\* An operation that is still to be done.
Stays(t, o) == \E u \in Threads : \E j \in DOMAIN todo[u] :
                 Kept(t, u, j) /\ todo[u][j] = o

\* All operations, when the new ones are found ready, and so are those on the
\* items something happened to.
LEMMA AllReadyKept ==
  ASSUME TypeOK, AllReady, NEW t \in Threads, NEW ops, Stepped(t, ops),
         NEW S, Moved(S), \A i \in DOMAIN ops : Ready(ops[i])',
         \A o \in Ops : Stays(t, o) /\ Ready(o) /\ o.op \in OnItems \ {"dec"} /\ o.x \in S
                         => Ready(o)'
  PROVE  AllReady'
<1> SUFFICES ASSUME NEW u \in Threads, NEW j \in DOMAIN todo'[u], NEW o,
                    o = todo'[u][j]
             PROVE  Ready(o)'
  BY DEF AllReady, Ready
<1>1. CASE Kept(t, u, j) /\ todo'[u][j] = todo[u][j]
  <2>1. j \in DOMAIN todo[u] /\ todo[u][j] = o /\ o \in Ops /\ Stays(t, o)
    BY <1>1, Top DEF Kept, Stays
  <2> USE <2>1
  <2>2. Ready(o)
    BY DEF AllReady, Ready
  <2>3. CASE o.op \in OnItems \ {"dec"} /\ o.x \in S
    BY <2>2, <2>3
  <2>4. CASE ~(o.op \in OnItems \ {"dec"} /\ o.x \in S)
    <3>1. o.op \in OnItems => \/ Same(o.x) \/ o.op = "dec"
                              \/ o.op = "walk" /\ o.x = None
      <4>1. o.op \in OnItems \ {"dec", "walk"} => o.x \in Slots
        BY <2>2 DEF Ready
      <4>2. o.op = "walk" => o.x = None \/ o.x \in Slots
        BY <2>2 DEF Ready
      <4> QED BY <2>4, <4>1, <4>2 DEF Moved
    <3> QED BY <2>2, <3>1, ReadyKept
  <2> QED BY <2>3, <2>4
<1>2. CASE \E i \in DOMAIN ops : todo'[u][j] = ops[i]
  <2>1. PICK i \in DOMAIN ops : o = ops[i]
    BY <1>2
  <2>2. Ready(ops[i])'
    BY <2>1
  <2> QED BY <2>1, <2>2
<1> QED BY <1>1, <1>2, HandKept

\* No two linked items of one key, when none became linked.
LEMMA DistinctKept ==
  ASSUME TypeOK, AllPlaced, Distinct, NEW S, Moved(S),
         \A r \in S \cap Slots : Linked(r)' => Linked(r) /\ item'[r].key = item[r].key
                                               /\ item'[r].uses = item[r].uses
  PROVE  Distinct'
<1>1. \A r \in Slots : Linked(r)' => Linked(r) /\ item'[r].key = item[r].key
                                     /\ item'[r].uses = item[r].uses
  BY SameView DEF Moved
<1> HIDE DEF Linked
<1> QED BY <1>1 DEF Distinct

\* The sizes, when no item is linked or unlinked.
LEMMA SizesKept ==
  ASSUME TypeOK, Sizes, NEW S, Moved(S), UNCHANGED cache_size,
         \A r \in S \cap Slots : /\ Linked(r)' <=> Linked(r)
                                 /\ Linked(r) => item'[r].key = item[r].key,
         \A c \in Caches : Pending(Driver, "empty", c) => Pending(Driver, "empty", c)'
  PROVE  Sizes'
<1>1. \A r \in Slots : /\ Linked(r)' <=> Linked(r)
                       /\ Linked(r) => HomeOf(r)' = HomeOf(r)
  <2>1. \A r \in Slots : Same(r) => /\ Linked(r)' <=> Linked(r)
                                    /\ HomeOf(r)' = HomeOf(r)
    BY SameView
  <2>2. \A r \in S \cap Slots : Linked(r) => HomeOf(r)' = HomeOf(r)
    BY DEF HomeOf
  <2> QED BY <2>1, <2>2 DEF Moved
<1>2. \A c \in Caches : LinkedIn(c)' = LinkedIn(c)
  BY <1>1 DEF LinkedIn
<1> HIDE DEF LinkedIn, Pending
<1> QED BY <1>2 DEF Sizes

\* Cardinalities.
LEMMA LinkedInFinite ==
  ASSUME NEW c
  PROVE  IsFiniteSet(LinkedIn(c)) /\ Cardinality(LinkedIn(c)) \in Nat
<1>1. LinkedIn(c) \subseteq Slots
  BY DEF LinkedIn
<1> QED BY <1>1, BoundsAssumption, FS_Subset, FS_CardinalityType

\* A set with one more element.
LEMMA OneMore ==
  ASSUME NEW A, IsFiniteSet(A), NEW x, x \notin A
  PROVE  IsFiniteSet(A \cup {x}) /\ Cardinality(A \cup {x}) = Cardinality(A) + 1
BY FS_AddElement

\* A set with one element less.
LEMMA OneLess ==
  ASSUME NEW A, IsFiniteSet(A), NEW x \in A
  PROVE  /\ IsFiniteSet(A \ {x}) /\ Cardinality(A \ {x}) = Cardinality(A) - 1
         /\ Cardinality(A) - 1 \in Nat
<1>1. IsFiniteSet(A \ {x}) /\ Cardinality(A \ {x}) = Cardinality(A) - 1
  BY FS_RemoveElement
<1>2. Cardinality(A \ {x}) \in Nat
  BY <1>1, FS_CardinalityType
<1> QED BY <1>1, <1>2

-----------------------------------------------------------------------------
(* Counting references                                                     *)

\* Those who refer to an item can be counted.
LEMMA RefSets ==
  ASSUME TypeOK, NEW s
  PROVE  /\ IsFiniteSet(ImageRefs(s)) /\ Cardinality(ImageRefs(s)) \in Nat
         /\ IsFiniteSet(ListRefs(s)) /\ Cardinality(ListRefs(s)) \in Nat
         /\ IsFiniteSet(KeyRefs(s)) /\ Cardinality(KeyRefs(s)) \in Nat
         /\ IsFiniteSet(DecRefs(s)) /\ Cardinality(DecRefs(s)) \in Nat
<1>1. IsFiniteSet(Image)
  BY BoundsAssumption, FS_Product DEF Image
<1>2. IsFiniteSet(Frames \X Image)
  BY <1>1, BoundsAssumption, FS_Product
<1>3. IsFiniteSet(Threads)
  <2>1. Threads = (Workers \cup {Driver}) \cup {Consumer}
    BY DEF Threads
  <2> QED BY <2>1, BoundsAssumption, FS_AddElement
<1>4. ImageRefs(s) \subseteq Image
  BY DEF ImageRefs, TypeOK
<1>5. ListRefs(s) \subseteq Frames \X Image
  BY DEF ListRefs
<1>6. KeyRefs(s) \subseteq Slots /\ DecRefs(s) \subseteq Threads
  BY DEF KeyRefs, DecRefs
<1>7. /\ IsFiniteSet(ImageRefs(s)) /\ IsFiniteSet(ListRefs(s))
      /\ IsFiniteSet(KeyRefs(s)) /\ IsFiniteSet(DecRefs(s))
  BY <1>1, <1>2, <1>3, <1>4, <1>5, <1>6, BoundsAssumption, FS_Subset
<1> QED BY <1>7, FS_CardinalityType

\* Taking nothing, or one, out of a set.
LEMMA TakenOne ==
  ASSUME NEW S, IsFiniteSet(S), NEW A, NEW x, A = {} \/ (A = {x} /\ x \in S)
  PROVE  Cardinality(S \ A) = IF A = {x} THEN Cardinality(S) - 1 ELSE Cardinality(S)
<1>1. CASE A = {x}
  BY <1>1, OneLess
<1>2. CASE A = {}
  <2>1. A # {x} /\ S \ A = S
    BY <1>2
  <2> QED BY <2>1
<1> QED BY <1>1, <1>2

\* Who holds nothing, and who must be held.
LEMMA Holders ==
  ASSUME TypeOK, Counted, AllPlaced, NEW s \in Slots
  PROVE  /\ item[s].ref_count \in Nat
         /\ item[s].ref_count = 0 =>
              /\ ~InQueue(s) /\ ImageRefs(s) = {} /\ ListRefs(s) = {}
              /\ KeyRefs(s) = {} /\ DecRefs(s) = {}
         /\ ~Live(s) => item[s] = Unallocated /\ item[s].ref_count = 0
         /\ InQueue(s) \/ DecRefs(s) # {} \/ ImageRefs(s) # {} => item[s].ref_count # 0
         /\ ListRefs(s) # {} \/ KeyRefs(s) # {} => item[s].ref_count # 0
<1> DEFINE q == IF InQueue(s) THEN 1 ELSE 0
           i == Cardinality(ImageRefs(s))
           l == Cardinality(ListRefs(s))
           k == Cardinality(KeyRefs(s))
           d == Cardinality(DecRefs(s))
<1>1. q \in Nat /\ i \in Nat /\ l \in Nat /\ k \in Nat /\ d \in Nat
  BY RefSets
<1>2. item[s].ref_count = q + i + l + k + d
  BY DEF Counted, Refs
<1>3. /\ i = 0 => ImageRefs(s) = {}
      /\ l = 0 => ListRefs(s) = {}
      /\ k = 0 => KeyRefs(s) = {}
      /\ d = 0 => DecRefs(s) = {}
  BY RefSets, FS_EmptySet
<1>4. q = 0 => ~InQueue(s)
  OBVIOUS
<1>5. ~Live(s) => item[s] = Unallocated /\ item[s].ref_count = 0
  <2>1. ~Live(s) => item[s] = Unallocated
    BY DEF AllPlaced, Placed
  <2>2. Unallocated.ref_count = 0
    BY DEF Unallocated
  <2> QED BY <2>1, <2>2
<1> HIDE DEF q, i, l, k, d
<1>6. item[s].ref_count \in Nat
  BY <1>1, <1>2
<1>7. item[s].ref_count = 0 => q = 0 /\ i = 0 /\ l = 0 /\ k = 0 /\ d = 0
  BY <1>1, <1>2
<1> QED BY <1>3, <1>4, <1>5, <1>6, <1>7

\* Counts that do not change, and those of S, which are right.
LEMMA CountedKept ==
  ASSUME TypeOK, Counted, NEW S,
         \A r \in Slots \ S :
           /\ item'[r].ref_count = item[r].ref_count /\ (InQueue(r)' <=> InQueue(r))
           /\ ImageRefs(r)' = ImageRefs(r) /\ ListRefs(r)' = ListRefs(r)
           /\ KeyRefs(r)' = KeyRefs(r) /\ DecRefs(r)' = DecRefs(r),
         \A r \in S \cap Slots : item'[r].ref_count = Refs(r)'
  PROVE  Counted'
<1> SUFFICES ASSUME NEW r \in Slots PROVE item'[r].ref_count = Refs(r)'
  BY DEF Counted
<1>1. CASE r \notin S
  BY <1>1 DEF Counted, Refs
<1> QED BY <1>1

\* Who refers to what, when no image, list or key changes.
LEMMA SameImages ==
  ASSUME UNCHANGED images
  PROVE  \A r : ImageRefs(r)' = ImageRefs(r)
BY DEF ImageRefs

\* The same lists, the same references from them.
LEMMA SameLists ==
  ASSUME \A f \in Frames : frame'[f].images = frame[f].images
  PROVE  \A r : ListRefs(r)' = ListRefs(r)
BY DEF ListRefs

\* The same keys, the same references from them.
LEMMA SameKeys ==
  ASSUME \A p \in Slots : item'[p].uses = item[p].uses
  PROVE  \A r : KeyRefs(r)' = KeyRefs(r)
BY DEF KeyRefs

\* The books, when the caches, images and lists stay and the step is about no
\* reference.
LEMMA CountedSame ==
  ASSUME TypeOK, Counted, NEW S, Moved(S), UNCHANGED images,
         \A f \in Frames : frame'[f].images = frame[f].images,
         \A r \in S \cap Slots : /\ item'[r].ref_count = item[r].ref_count
                                 /\ item'[r].uses = item[r].uses
                                 /\ InQueue(r)' <=> InQueue(r),
         \A r : DecRefs(r)' = DecRefs(r)
  PROVE  Counted'
<1>1. \A r \in Slots : /\ item'[r].ref_count = item[r].ref_count
                       /\ item'[r].uses = item[r].uses
                       /\ InQueue(r)' <=> InQueue(r)
  BY SameView DEF Moved
<1>2. /\ \A r : ImageRefs(r)' = ImageRefs(r)
      /\ \A r : ListRefs(r)' = ListRefs(r)
  BY SameImages, SameLists
<1>3. \A r : KeyRefs(r)' = KeyRefs(r)
  BY <1>1, SameKeys
<1> HIDE DEF InQueue
<1> QED BY <1>1, <1>2, <1>3 DEF Counted, Refs

-----------------------------------------------------------------------------
(* Whose turn it is                                                        *)

\* While the driver maintains the caches nobody else is at work.
LEMMA AtWork ==
  ASSUME TypeOK, Stacks, Turns
  PROVE  /\ Maintaining => \A u \in Threads \ {Driver} : Idle(u)
         /\ \A u \in Threads : \A j \in DOMAIN todo[u] :
              todo[u][j].op \in Loops \cup {"walk", "orphan", "evict"} =>
                u = Driver /\ Maintaining
         /\ \A u \in Workers : ~Idle(u) => ~Maintaining
         /\ \A u \in Workers : u \in Threads /\ u # Driver /\ u # Consumer
<1>1. \A u \in Workers : u \in Threads /\ u # Driver /\ u # Consumer
  BY BoundsAssumption DEF Threads
<1>2. Maintaining => ~Idle(Driver)
  BY Top DEF Maintaining, Threads
<1>3. \A u \in Threads \ {Driver} : u = Consumer \/ u \in Workers
  BY DEF Threads
<1>4. ASSUME NEW u \in Threads, NEW j \in DOMAIN todo[u],
             todo[u][j].op \in Loops \cup {"walk", "orphan", "evict"}
      PROVE  u = Driver /\ Maintaining
  <2>1. u = Driver
    BY <1>4 DEF Stacks, MayDo, Alone, Loops
  <2>2. CASE todo[u][j].op \in Loops
    BY <2>1, <2>2 DEF Maintaining
  <2>3. CASE todo[u][j].op \in {"walk", "orphan", "evict"}
    <3>1. j # 1 /\ DOMAIN todo[u] = 1 .. Len(todo[u]) /\ j \in Nat
      BY <2>3, Top, LenProperties DEF Stacks
    <3>2. 1 \in DOMAIN todo[u] /\ 1 < j
      <4>1. DOMAIN todo[u] = 1 .. Rest(u) + 1 /\ Rest(u) \in Nat
        BY Top
      <4> QED BY <3>1, <4>1
    <3>3. todo[u][1].op \in MayWait(todo[u][j].op)
      BY <3>2 DEF Stacks
    <3>4. todo[u][1].op \in Loops
      BY <2>3, <3>3 DEF MayWait, Alone, Steps, Loops
    <3> QED BY <2>1, <3>2, <3>4 DEF Maintaining
  <2> QED BY <1>4, <2>2, <2>3
<1> QED BY <1>1, <1>2, <1>3, <1>4 DEF Turns

-----------------------------------------------------------------------------
(* What walks, workers and lists rely on                                   *)

\* A thread that had nothing to do, and has nothing to do.
LEMMA IdleSteps ==
  ASSUME TypeOK, NEW t \in Threads, Idle(t), UNCHANGED todo
  PROVE  Stepped(t, <<>>)
<1>1. todo \in [Threads -> Seq(Ops)]
  BY DEF TypeOK
<1>2. todo' = [todo EXCEPT ![t] = <<>>]
  BY <1>1 DEF Idle
<1>3. <<>> \in Seq(Ops)
  OBVIOUS
<1> QED BY <1>2, <1>3, PushSteps

\* Items that can be found keep their keys.
KeysStay == \A r \in Slots : Linked(r) => item'[r].key = item[r].key

\* What is walked is being emptied, still.
LEMMA WalksKept ==
  ASSUME TypeOK, Stacks, AllReady, Walks, NEW t \in Threads, NEW ops, Stepped(t, ops),
         KeysStay,
         \A i \in DOMAIN ops : ops[i].op = "walk" /\ ops[i].x # None =>
           Pending(Driver, "empty", HomeOf(ops[i].x))'
  PROVE  Walks'
<1> SUFFICES ASSUME NEW p \in DOMAIN todo'[Driver], NEW n, n = todo'[Driver][p].x,
                    todo'[Driver][p].op = "walk", n # None
             PROVE  Pending(Driver, "empty", HomeOf(n))'
  BY DEF Walks, Pending, HomeOf
<1>0. Driver \in Threads
  BY DEF Threads
<1>1. CASE Kept(t, Driver, p) /\ todo'[Driver][p] = todo[Driver][p]
  <2>1. p \in DOMAIN todo[Driver] /\ todo[Driver][p].op = "walk" /\ todo[Driver][p].x = n
    BY <1>1 DEF Kept
  <2>2. Linked(n) /\ n \in Slots
    BY <1>0, <2>1 DEF AllReady, Ready
  <2>3. HomeOf(n)' = HomeOf(n)
    BY <2>2 DEF KeysStay, HomeOf
  <2>4. Pending(Driver, "empty", HomeOf(n))
    BY <2>1 DEF Walks
  <2> DEFINE c == HomeOf(n)
  <2> HIDE DEF c
  <2>5. \/ Pending(Driver, "empty", c)'
        \/ Driver = t /\ ~Idle(t) /\ Last(todo[t]).op = "empty"
    <3>1. PICK d : d = c
      OBVIOUS
    <3>2. Pending(Driver, "empty", d)
      BY <2>4, <3>1 DEF c
    <3>3. \/ Pending(Driver, "empty", d)'
          \/ Driver = t /\ ~Idle(t) /\ Last(todo[t]).op = "empty"
      BY <1>0, <3>2, PendingKept
    <3> QED BY <2>3, <3>1, <3>3 DEF c
  <2>6. CASE Driver = t /\ ~Idle(t) /\ Last(todo[t]).op = "empty"
    <3>1. /\ Rest(t) + 1 \in DOMAIN todo[t] /\ p < Rest(t) + 1
          /\ todo[t][Rest(t) + 1].op = "empty"
      <4>1. p <= Rest(t) /\ p \in Nat /\ Rest(t) \in Nat
        BY <1>1, <2>1, <2>6, Top DEF Kept
      <4> QED BY <2>6, <4>1, Top
    <3>2. todo[t][p].op \in MayWait("empty")
      BY <2>1, <2>6, <3>1 DEF Stacks
    <3> QED BY <2>1, <2>6, <3>2 DEF MayWait, Alone, Loops, Steps
  <2> QED BY <2>3, <2>5, <2>6 DEF c, Pending
<1>2. CASE Driver = t /\ \E i \in DOMAIN ops : todo'[Driver][p] = ops[i]
  BY <1>2
<1> QED BY <1>0, <1>1, <1>2, HandKept

\* The items a walk comes to are out of the way of the rest.
LEMMA PathsKept ==
  ASSUME TypeOK, Stacks, AllReady, OneCustodian, Paths, Turns,
         NEW t \in Threads, NEW ops, Stepped(t, ops), KeysStay,
         t # Driver => ~Maintaining,
         \A r \in Slots : item'[r].key = item[r].key
           \/ ~(\E o \in Ops : Stays(t, o) /\ o.op = "destruct" /\ o.x = r),
         \A n \in Slots : \A i \in DOMAIN ops :
           t = Driver /\ Linked(n) /\ Stays(t, Op("walk", n)) => Off(ops[i], n)',
         \A i, j \in DOMAIN ops : i < j /\ ops[i].op = "walk" /\ ops[i].x # None =>
           Off(ops[j], ops[i].x)'
  PROVE  Paths'
<1> SUFFICES ASSUME NEW p \in DOMAIN todo'[Driver], NEW q \in DOMAIN todo'[Driver],
                    p < q, NEW n, n = todo'[Driver][p].x,
                    todo'[Driver][p].op = "walk", n # None,
                    NEW o, o = todo'[Driver][q]
             PROVE  Off(o, n)'
  BY DEF Paths, Off, ChainOf
<1>0. Driver \in Threads
  BY DEF Threads
<1>1. CASE t # Driver
  <2>1. todo'[Driver] = todo[Driver] /\ ~Maintaining
    BY <1>0, <1>1 DEF Stepped
  <2> QED BY <1>0, <2>1, AtWork
<1>2. CASE t = Driver
  <2> USE <1>0
  <2> DEFINE m == Rest(Driver)
  <2>1. /\ m \in Nat /\ DOMAIN todo'[Driver] = 1 .. m + Len(ops)
        /\ DOMAIN ops = 1 .. Len(ops) /\ p \in Nat /\ q \in Nat
    BY <1>2 DEF Stepped
  <2>2. \/ Kept(t, Driver, p) /\ todo'[Driver][p] = todo[Driver][p]
        \/ \E i \in DOMAIN ops : p = m + i /\ todo'[Driver][p] = ops[i]
    BY <1>2 DEF Stepped
  <2>3. \/ Kept(t, Driver, q) /\ todo'[Driver][q] = todo[Driver][q]
        \/ \E i \in DOMAIN ops : q = m + i /\ todo'[Driver][q] = ops[i]
    BY <1>2 DEF Stepped
  <2>4. CASE Kept(t, Driver, p) /\ todo'[Driver][p] = todo[Driver][p]
    <3>1. /\ p \in DOMAIN todo[Driver] /\ todo[Driver][p].op = "walk"
          /\ todo[Driver][p].x = n /\ todo[Driver][p] \in Ops
      BY <2>4, Top DEF Kept
    <3>2. Linked(n) /\ n \in Slots
      BY <3>1 DEF AllReady, Ready
    <3>3. ChainOf(n)' = ChainOf(n)
      BY <3>2 DEF KeysStay, ChainOf
    <3>4. CASE Kept(t, Driver, q) /\ todo'[Driver][q] = todo[Driver][q]
      <4>1. q \in DOMAIN todo[Driver] /\ todo[Driver][q] = o /\ o \in Ops /\ Stays(t, o)
        BY <3>4, Top DEF Kept, Stays
      <4>2. Off(o, n)
        <5>1. Off(todo[Driver][q], todo[Driver][p].x)
          BY <3>1, <4>1 DEF Paths
        <5> QED BY <3>1, <4>1, <5>1
      <4>3. todo[Driver][p].op \in MayWait(o.op)
        BY <3>1, <4>1 DEF Stacks
      <4>4. o.op \in {"dec", "zero", "destruct"}
        <5>1. o.op \in OnItems \cup Loops \cup {"lookup", "build", "unref", "release"}
          BY <4>1, OpTypes
        <5> QED BY <3>1, <4>3, <5>1 DEF MayWait, Alone, Steps, Loops, OnItems
      <4>5. o.op = "destruct"
        <5>1. CASE Idle(t)
          BY <1>2, <4>1, <5>1, Top
        <5>2. CASE ~Idle(t)
          <6>1. q <= m /\ m + 1 \in DOMAIN todo[Driver] /\ q < m + 1
            BY <1>2, <2>1, <3>4, <5>2, Top DEF Kept
          <6>2. o.op \in MayWait(todo[Driver][m + 1].op)
            BY <4>1, <6>1 DEF Stacks
          <6> QED BY <4>4, <6>2 DEF MayWait, Alone, Steps, Loops
        <5> QED BY <5>1, <5>2
      <4>6. o.x \in Slots
        BY <4>1, <4>5 DEF AllReady, Ready, OnItems
      <4>7. item'[o.x].key = item[o.x].key
        BY <4>1, <4>5, <4>6
      <4> QED BY <3>3, <4>2, <4>5, <4>7 DEF Off, ChainOf
    <3>5. CASE \E i \in DOMAIN ops : q = m + i /\ todo'[Driver][q] = ops[i]
      <4>1. PICK i \in DOMAIN ops : ops[i] = o
        BY <3>5
      <4>2. todo[Driver][p] = Op("walk", n)
        <5>1. \A v \in Ops : v.op = "walk" => v = Op("walk", v.x)
          BY DEF Ops, Op
        <5> QED BY <3>1, <5>1
      <4>3. Stays(t, Op("walk", n))
        BY <2>4, <3>1, <4>2 DEF Stays
      <4>4. Off(ops[i], n)'
        BY <1>2, <3>2, <4>3
      <4> QED BY <4>1, <4>4
    <3> QED BY <2>3, <3>4, <3>5
  <2>5. ASSUME NEW i \in DOMAIN ops, p = m + i, todo'[Driver][p] = ops[i]
        PROVE  Off(o, n)'
    <3>1. ~Kept(t, Driver, q)
      <4>1. ~(q <= m)
        BY <2>1, <2>5
      <4> QED BY <1>2, <4>1 DEF Kept
    <3>2. PICK j \in DOMAIN ops : q = m + j /\ todo'[Driver][q] = ops[j]
      BY <2>3, <3>1
    <3>3. i < j
      BY <2>1, <2>5, <3>2
    <3>4. Off(ops[j], ops[i].x)'
      BY <2>5, <3>3
    <3> QED BY <2>5, <3>2, <3>4
  <2> QED BY <2>2, <2>4, <2>5
<1> QED BY <1>1, <1>2

\* What workers have stays in its queue, and under its key.
LEMMA GottenKept ==
  ASSUME TypeOK, Gotten, NEW t \in Threads, NEW ops, Stepped(t, ops), UNCHANGED got,
         \A w \in Workers : got[w] = Nothing \/ \A k \in Keys : \A s \in Slots :
           got[w][k] = s => InQueue(s)' /\ item'[s].key = k,
         \A i \in DOMAIN ops : ops[i].op \in {"lookup", "build"} =>
           /\ ops[i].x \in Keys
           /\ \A d \in Uses[ops[i].x] : got[t][d] # None
  PROVE  Gotten'
<1> SUFFICES ASSUME NEW w \in Workers
             PROVE  /\ \A k \in Keys : \A s \in Slots :
                         got'[w][k] = s => InQueue(s)' /\ item'[s].key = k
                    /\ \A i \in DOMAIN todo'[w] : todo'[w][i].op \in {"lookup", "build"} =>
                         /\ todo'[w][i].x \in Keys
                         /\ \A d \in Uses[todo'[w][i].x] : got'[w][d] # None
  <2>1. got' \in [Workers -> [Keys -> Slots \cup {None}]]
    BY DEF TypeOK
  <2> QED BY <2>1 DEF Gotten, InQueue
<1>0. w \in Threads
  BY DEF Threads
<1>1. \A k \in Keys : \A s \in Slots :
        got'[w][k] = s => InQueue(s)' /\ item'[s].key = k
  <2>1. CASE got[w] = Nothing
    BY <2>1, BoundsAssumption DEF Nothing
  <2>2. CASE \A k \in Keys : \A s \in Slots :
               got[w][k] = s => InQueue(s)' /\ item'[s].key = k
    BY <2>2
  <2> QED BY <2>1, <2>2
<1>2. ASSUME NEW i \in DOMAIN todo'[w], todo'[w][i].op \in {"lookup", "build"}
      PROVE  /\ todo'[w][i].x \in Keys
             /\ \A d \in Uses[todo'[w][i].x] : got'[w][d] # None
  <2>1. \/ Kept(t, w, i) /\ todo'[w][i] = todo[w][i]
        \/ w = t /\ \E j \in DOMAIN ops : todo'[w][i] = ops[j]
    BY <1>0, HandKept
  <2>2. CASE Kept(t, w, i) /\ todo'[w][i] = todo[w][i]
    BY <1>2, <2>2 DEF Kept, Gotten
  <2>3. CASE w = t /\ \E j \in DOMAIN ops : todo'[w][i] = ops[j]
    BY <1>2, <2>3
  <2> QED BY <2>1, <2>2, <2>3
<1> QED BY <1>1, <1>2

\* Whose turn it is, when a thread goes on with what it was on.
LEMMA TurnsKept ==
  ASSUME TypeOK, Stacks, Turns, NEW t \in Threads, ~Idle(t), NEW ops, Stepped(t, ops),
         UNCHANGED <<phase, images, images_root, prev_images_root>>,
         got' = got \/ (phase = "frame" /\ ~Maintaining),
         \A i \in DOMAIN ops : ops[i].op \in Loops => Last(todo[t]).op \in Loops,
         \A r \in Slots : Linked(r)' => \/ phase = "frame"
                                        \/ Linked(r) /\ HomeOf(r)' = HomeOf(r),
         \A c : Last(todo[t]).op = "empty" /\ Last(todo[t]).x = c =>
           \/ Pending(Driver, "empty", c)'
           \/ \A r \in Slots : Linked(r) => HomeOf(r) # c
  PROVE  Turns'
<1>0. /\ Driver \in Threads /\ Consumer \in Threads /\ Driver # Consumer
      /\ Driver \notin Workers /\ Consumer \notin Workers /\ Workers \subseteq Threads
      /\ Threads = Workers \cup {Driver, Consumer}
  BY BoundsAssumption DEF Threads
<1>1. \A u \in Threads \ {t} : Idle(u)' <=> Idle(u)
  BY DEF Stepped, Idle
<1>2. ~Idle(Driver) => \A w \in Workers : Idle(w)
  BY DEF Turns
<1>3. \A w \in Workers : ~Idle(w)' => phase' = "frame" /\ Idle(Driver)'
  BY <1>0, <1>1, <1>2 DEF Turns
<1>4. Maintaining' => Maintaining
  <2> SUFFICES ASSUME NEW i \in DOMAIN todo'[Driver], todo'[Driver][i].op \in Loops
               PROVE  Maintaining
    BY DEF Maintaining
  <2>1. CASE Kept(t, Driver, i) /\ todo'[Driver][i] = todo[Driver][i]
    BY <2>1 DEF Maintaining, Kept
  <2>2. CASE Driver = t /\ \E j \in DOMAIN ops : todo'[Driver][i] = ops[j]
    <3>1. Last(todo[Driver]).op \in Loops
      BY <2>2
    <3> QED BY <1>0, <2>2, <3>1, Top DEF Maintaining
  <2> QED BY <1>0, <2>1, <2>2, HandKept
<1>5. Maintaining' => Idle(Consumer)' /\ \A w \in Workers : got'[w] = Nothing
  <2> SUFFICES ASSUME Maintaining'
               PROVE  Idle(Consumer)' /\ \A w \in Workers : got'[w] = Nothing
    OBVIOUS
  <2>1. Idle(Consumer) /\ \A w \in Workers : got[w] = Nothing
    BY <1>4 DEF Turns
  <2>2. t # Consumer /\ got' = got
    BY <1>4, <2>1
  <2> QED BY <1>0, <1>1, <2>1, <2>2
<1>6. phase' # "frame" => /\ images' = {} /\ prev_images_root' = None
                          /\ \A w \in Workers : got'[w] = Nothing
  BY DEF Turns
<1>7. phase' # "between" => images_root' = None
  BY DEF Turns
<1>8. phase' = "closing" => \A s \in Slots : Linked(s)' => Pending(Driver, "empty", HomeOf(s))'
  <2> SUFFICES ASSUME phase = "closing", NEW s \in Slots, Linked(s)'
               PROVE  Pending(Driver, "empty", HomeOf(s))'
    OBVIOUS
  <2>1. Linked(s) /\ HomeOf(s)' = HomeOf(s)
    OBVIOUS
  <2>2. Pending(Driver, "empty", HomeOf(s))
    BY <2>1 DEF Turns
  <2>3. PICK c : c = HomeOf(s)
    OBVIOUS
  <2>4. \/ Pending(Driver, "empty", c)'
        \/ Driver = t /\ Last(todo[t]).op = "empty" /\ Last(todo[t]).x = c
    <3>1. Pending(Driver, "empty", c)
      BY <2>2, <2>3
    <3> QED BY <1>0, <3>1, PendingKept
  <2>5. Pending(Driver, "empty", c)'
    BY <2>1, <2>3, <2>4
  <2> QED BY <2>1, <2>3, <2>5 DEF Pending
<1>9. phase' = "gone" => Idle(Driver)' /\ \A s \in Slots : ~Linked(s)'
  <2> SUFFICES ASSUME phase = "gone" PROVE Idle(Driver)' /\ \A s \in Slots : ~Linked(s)'
    OBVIOUS
  <2>1. Idle(Driver) /\ \A s \in Slots : ~Linked(s)
    BY DEF Turns
  <2> QED BY <1>0, <1>1, <2>1
<1> QED BY <1>3, <1>5, <1>6, <1>7, <1>8, <1>9 DEF Turns

\* Lists of images, when the step is about none.
LEMMA ListsKept ==
  ASSUME TypeOK, ListsCounted, NEW t \in Threads, NEW ops, Stepped(t, ops),
         UNCHANGED <<frame, images_root, prev_images_root, held>>,
         ~Idle(t) => Last(todo[t]).op \notin {"unref", "release"},
         \A i \in DOMAIN ops : ops[i].op \notin {"unref", "release"}
  PROVE  ListsCounted'
<1>0. Driver \in Threads /\ Consumer \in Threads
  BY DEF Threads
<1>1. /\ Unrefs(Driver)' = Unrefs(Driver) /\ Releases(Driver)' = Releases(Driver)
      /\ Unrefs(Consumer)' = Unrefs(Consumer) /\ Releases(Consumer)' = Releases(Consumer)
  BY <1>0, PendingKept DEF Unrefs, Releases
<1> QED BY <1>1 DEF ListsCounted, Books, One

\* The driver and the consumer count alike.
LEMMA EitherBooks ==
  ASSUME TypeOK, TypeOK', NEW t, NEW u,
         (t = Driver /\ u = Consumer) \/ (t = Consumer /\ u = Driver)
  PROVE  /\ ListsCounted <=> \A f \in Frames : Books(t, u, f)
         /\ ListsCounted' <=> \A f \in Frames : Books(t, u, f)'
<1>1. ASSUME NEW f \in Frames PROVE Books(t, u, f) <=> Books(u, t, f)
  <2>1. held[f] \in Nat /\ \A b : One(b) \in Nat
    BY DEF TypeOK, One
  <2>2. held[f] + One(images_root = f) + One(prev_images_root = f)
          + One(f \in Unrefs(t)) + One(f \in Unrefs(u))
        = held[f] + One(images_root = f) + One(prev_images_root = f)
          + One(f \in Unrefs(u)) + One(f \in Unrefs(t))
    BY <2>1 DEF One
  <2> QED BY <2>2 DEF Books
<1>2. ASSUME NEW f \in Frames PROVE Books(t, u, f)' <=> Books(u, t, f)'
  <2>1. held'[f] \in Nat
    BY DEF TypeOK
  <2>2. (held[f] + One(images_root = f) + One(prev_images_root = f)
          + One(f \in Unrefs(t)) + One(f \in Unrefs(u))
        = held[f] + One(images_root = f) + One(prev_images_root = f)
          + One(f \in Unrefs(u)) + One(f \in Unrefs(t)))'
    BY <2>1 DEF One
  <2> QED BY <2>2 DEF Books
<1> QED BY <1>1, <1>2 DEF ListsCounted

-----------------------------------------------------------------------------
(* Steps that leave items and chains alone                                 *)

\* Types, after items of S have moved.
LEMMA TypesKept ==
  ASSUME TypeOK, NEW S, Moved(S), NEW t \in Threads, NEW ops, Stepped(t, ops),
         cache_size' \in [Caches -> Nat],
         got' \in [Workers -> [Keys -> Slots \cup {None}]],
         images' \in SUBSET Image, frame' \in [Frames -> List],
         images_root' \in Frames \cup {None}, prev_images_root' \in Frames \cup {None},
         held' \in [Frames -> 0 .. MaxHeld],
         phase' \in {"between", "frame", "closing", "gone"}
  PROVE  TypeOK'
BY DEF TypeOK, Moved, Stepped

\* What is below the operation a thread was on.
LEMMA StaysWhere ==
  ASSUME TypeOK, Stacks, Turns, NEW t \in Threads, NEW o, Stays(t, o),
         t # Driver => ~Maintaining
  PROVE  /\ o \in Ops
         /\ o.op \in Loops \cup {"walk", "orphan", "evict"} =>
              t = Driver /\ ~Idle(t) /\ o.op \in MayWait(Last(todo[t]).op)
         /\ \E u \in Threads : \E j \in DOMAIN todo[u] :
              /\ Kept(t, u, j) /\ todo[u][j] = o
              /\ u = t => ~Idle(t) /\ o.op \in MayWait(Last(todo[t]).op)
<1>1. PICK u \in Threads : \E j \in DOMAIN todo[u] : Kept(t, u, j) /\ todo[u][j] = o
  BY DEF Stays
<1>2. PICK j \in DOMAIN todo[u] : Kept(t, u, j) /\ todo[u][j] = o
  BY <1>1
<1>3. o \in Ops
  BY <1>2, Top
<1>4. u = t => ~Idle(t) /\ o.op \in MayWait(Last(todo[t]).op)
  <2> SUFFICES ASSUME u = t PROVE ~Idle(t) /\ o.op \in MayWait(Last(todo[t]).op)
    OBVIOUS
  <2>1. ~Idle(t)
    BY <1>2, Top
  <2>2. j \in Nat /\ j <= Rest(t) /\ Rest(t) \in Nat
    BY <1>2, Top DEF Kept
  <2>3. j < Rest(t) + 1 /\ Rest(t) + 1 \in DOMAIN todo[t]
        /\ todo[t][Rest(t) + 1] = Last(todo[t])
    BY <2>1, <2>2, Top
  <2>4. todo[t][j].op \in MayWait(todo[t][Rest(t) + 1].op)
    BY <2>3 DEF Stacks
  <2> QED BY <1>2, <2>1, <2>3, <2>4
<1>5. ASSUME o.op \in Loops \cup {"walk", "orphan", "evict"}
      PROVE  t = Driver /\ ~Idle(t) /\ o.op \in MayWait(Last(todo[t]).op)
  <2>1. u = Driver /\ Maintaining
    BY <1>2, <1>5, AtWork
  <2> QED BY <1>4, <2>1
<1> QED BY <1>2, <1>3, <1>4, <1>5

\* A step that leaves the caches alone keeps what is said of them.
LEMMA QuietStep ==
  ASSUME IInv, NEW t \in Threads, NEW ops, Stepped(t, ops), Fits(t, ops),
         UNCHANGED <<item, chain, queue>>, t # Driver => ~Maintaining,
         ~Idle(t) => Last(todo[t]).op \notin Custody \cup {"dec"},
         \A i \in DOMAIN ops : /\ ops[i].op \notin Custody
                               /\ Ready(ops[i])'
                               /\ ops[i].op = "walk" /\ ops[i].x # None =>
                                    /\ Pending(Driver, "empty", HomeOf(ops[i].x))'
                                    /\ i = Len(ops)
  PROVE  /\ Moved({}) /\ Lists' /\ Stacks' /\ OneCustodian' /\ AllReady'
         /\ AllPlaced' /\ Distinct' /\ Walks' /\ Paths'
<1> USE DEF IInv
<1>1. Moved({})
  BY Unmoved
<1>2. Lists' /\ \A r \in Slots : Same(r)
  BY <1>1 DEF Moved
<1>3. Stacks'
  BY StacksKept
<1>4. OneCustodian'
  <2>1. Takes(t, ops)
    BY DEF Takes
  <2> QED BY <2>1, CustodyKept
<1>5. AllReady'
  <2>1. \A o \in Ops : o.x \notin {}
    OBVIOUS
  <2> QED BY <1>1, <2>1, AllReadyKept
<1>6. AllPlaced'
  <2>1. \A r \in Slots : item'[r].key = item[r].key
    OBVIOUS
  <2>2. \A r \in Slots : Placed(r)'
    <3> SUFFICES ASSUME NEW r \in Slots PROVE Placed(r)'
      OBVIOUS
    <3>1. Placed(r) /\ Same(r) /\ \A d \in item[r].uses : item'[d].key = item[d].key
      BY <1>2 DEF AllPlaced
    <3> QED BY <3>1, PlacedKept
  <2> QED BY <2>2 DEF AllPlaced
<1>7. Distinct'
  <2>1. \A r \in {} \cap Slots : FALSE
    OBVIOUS
  <2> QED BY <1>1, <2>1, DistinctKept
<1>8. KeysStay
  BY DEF KeysStay
<1>9. Walks'
  BY <1>8, WalksKept
<1>10. Paths'
  <2>1. \A n \in Slots : \A i \in DOMAIN ops :
          ~(t = Driver /\ Linked(n) /\ Stays(t, Op("walk", n)))
    <3> SUFFICES ASSUME NEW n \in Slots, Stays(t, Op("walk", n)) PROVE FALSE
      OBVIOUS
    <3>1. Op("walk", n).op = "walk"
      BY DEF Op
    <3>2. ~Idle(t) /\ "walk" \in MayWait(Last(todo[t]).op) /\ Last(todo[t]) \in Ops
      BY <3>1, StaysWhere, Top
    <3>3. Last(todo[t]).op \in OnItems \cup Loops \cup {"lookup", "build", "unref", "release"}
      BY <3>2, OpTypes
    <3> QED BY <3>2, <3>3 DEF MayWait, Alone, Steps, Loops, OnItems, Custody
  <2>2. \A i, j \in DOMAIN ops : ~(i < j /\ ops[i].op = "walk" /\ ops[i].x # None)
    <3>1. DOMAIN ops = 1 .. Len(ops)
      BY DEF Stepped
    <3> SUFFICES ASSUME NEW i \in DOMAIN ops, NEW j \in DOMAIN ops, i < j,
                        ops[i].op = "walk", ops[i].x # None
                 PROVE  FALSE
      OBVIOUS
    <3>2. i = Len(ops)
      OBVIOUS
    <3>3. Len(ops) < j /\ j \in 1 .. Len(ops)
      BY <3>1, <3>2
    <3>4. j \in Int
      BY <3>3
    <3>5. Len(ops) \in Int
      BY <3>1, <3>2, <3>3
    <3> QED BY <3>3, <3>4, <3>5
  <2>3. \A r \in Slots : item'[r].key = item[r].key
    OBVIOUS
  <2> QED BY <1>8, <2>1, <2>2, <2>3, PathsKept
<1> QED BY <1>1, <1>2, <1>3, <1>4, <1>5, <1>6, <1>7, <1>9, <1>10

\* ... when the thread goes on with something it was in the middle of.
LEMMA QuietGoesOn ==
  ASSUME IInv, NEW t \in Threads, ~Idle(t), NEW ops, Stepped(t, ops),
         UNCHANGED <<item, chain, queue, cache_size, got, phase, images, images_root,
                     prev_images_root>>,
         \A i \in DOMAIN ops : ops[i].op \in {"lookup", "build"} =>
           /\ ops[i].x \in Keys
           /\ \A d \in Uses[ops[i].x] : got[t][d] # None,
         \A i \in DOMAIN ops : ops[i].op \in Loops => Last(todo[t]).op \in Loops,
         \A c : Last(todo[t]).op = "empty" /\ Last(todo[t]).x = c =>
           Pending(Driver, "empty", c)'
  PROVE  Sizes' /\ Gotten' /\ Turns'
<1> USE DEF IInv
<1>0. Driver \in Threads
  BY DEF Threads
<1>1. Moved({})
  BY Unmoved
<1>2. Sizes'
  <2>1. \A c \in Caches : Pending(Driver, "empty", c) => Pending(Driver, "empty", c)'
    BY <1>0, PendingKept
  <2>2. \A r \in {} \cap Slots : FALSE
    OBVIOUS
  <2> QED BY <1>1, <2>1, <2>2, SizesKept
<1>3. Gotten'
  <2>1. \A w \in Workers : \A k \in Keys : \A s \in Slots :
          got[w][k] = s => InQueue(s)' /\ item'[s].key = k
    BY BoundsAssumption DEF Gotten, InQueue
  <2> QED BY <2>1, GottenKept
<1>4. Turns'
  <2>1. \A r \in Slots : Linked(r)' => Linked(r) /\ HomeOf(r)' = HomeOf(r)
    BY DEF Linked, HomeOf
  <2> QED BY <2>1, TurnsKept
<1> QED BY <1>2, <1>3, <1>4

\* ... and is about no reference.
LEMMA QuietCounted ==
  ASSUME IInv, NEW t \in Threads, NEW ops, Stepped(t, ops),
         UNCHANGED <<item, chain, queue, images>>,
         \A f \in Frames : frame'[f].images = frame[f].images,
         ~Idle(t) => Last(todo[t]).op # "dec",
         \A i \in DOMAIN ops : ops[i].op # "dec"
  PROVE  Counted'
<1> USE DEF IInv
<1>1. Moved({}) /\ \A r \in {} \cap Slots : FALSE
  BY Unmoved
<1>2. \A r : DecRefs(r)' = DecRefs(r)
  <2>1. \A r : t \notin DecRefs(r)
    BY DecsKept
  <2>2. Len(ops) = 0 \/ ops[Len(ops)].op # "dec"
    <3>1. DOMAIN ops = 1 .. Len(ops) /\ DOMAIN todo'[t] = 1 .. Rest(t) + Len(ops)
          /\ todo'[t] \in Seq(Ops) /\ Rest(t) \in Nat
      BY DEF Stepped
    <3>2. Len(ops) \in Nat \/ ops[Len(ops)].op # "dec"
      <4>1. CASE Len(ops) \in DOMAIN ops
        BY <4>1
      <4>2. CASE Len(ops) \notin DOMAIN ops
        BY <3>1, <4>2
      <4> QED BY <4>1, <4>2
    <3>3. CASE Len(ops) \in Nat
      BY <3>1, <3>3
    <3> QED BY <3>2, <3>3
  <2> QED BY <2>1, <2>2, DecsKept
<1> QED BY <1>1, <1>2, CountedSame

\* What waits below the steps of the driver or the consumer.
LEMMA LoopsBelow ==
  ASSUME TypeOK, Stacks, NEW t \in Threads, ~Idle(t), Last(todo[t]).op \in Loops \cup Steps
  PROVE  /\ \A j \in DOMAIN todo[t] : \/ j = Rest(t) + 1 /\ todo[t][j] = Last(todo[t])
                                     \/ todo[t][j].op \in Loops
         /\ \E j \in DOMAIN todo[t] : todo[t][j] = Last(todo[t])
<1> SUFFICES ASSUME NEW j \in DOMAIN todo[t], j # Rest(t) + 1
             PROVE  todo[t][j].op \in Loops
  BY Top
<1>1. Kept(t, t, j) /\ j \in Nat /\ Rest(t) \in Nat
  BY Top
<1>2. /\ j < Rest(t) + 1 /\ Rest(t) + 1 \in DOMAIN todo[t]
      /\ todo[t][Rest(t) + 1] = Last(todo[t])
  BY <1>1, Top DEF Kept
<1>3. todo[t][j].op \in MayWait(Last(todo[t]).op)
  BY <1>2 DEF Stacks
<1> QED BY <1>3 DEF MayWait, Alone, Steps, Loops

\* Below a loop, a step or a release there are only loops.
LEMMA OnlyLoopsBelow ==
  ASSUME TypeOK, Stacks, NEW t \in Threads, ~Idle(t), Last(todo[t]).op \in Loops \cup Steps,
         NEW ops, Stepped(t, ops)
  PROVE  /\ \A j \in DOMAIN todo'[t] : \/ todo'[t][j].op \in Loops
                                      \/ \E i \in DOMAIN ops : todo'[t][j] = ops[i]
         /\ \A i \in DOMAIN ops : \E j \in DOMAIN todo'[t] : todo'[t][j] = ops[i]
<1>1. \A j \in DOMAIN todo'[t] : \/ todo'[t][j].op \in Loops
                                 \/ \E i \in DOMAIN ops : todo'[t][j] = ops[i]
  <2> SUFFICES ASSUME NEW j \in DOMAIN todo'[t], Kept(t, t, j), todo'[t][j] = todo[t][j]
               PROVE  todo[t][j].op \in Loops
    BY HandKept
  <2>1. j \in DOMAIN todo[t] /\ j # Rest(t) + 1
    <3>1. j \in DOMAIN todo[t] /\ j <= Rest(t) /\ j \in Nat /\ Rest(t) \in Nat
      BY Top DEF Kept
    <3> QED BY <3>1
  <2> QED BY <2>1, LoopsBelow
<1>2. \A i \in DOMAIN ops : \E j \in DOMAIN todo'[t] : todo'[t][j] = ops[i]
  BY DEF Stepped
<1> QED BY <1>1, <1>2

\* What a thread is about to do with a list, while it is on it.
LEMMA FrameTop ==
  ASSUME TypeOK, Stacks, NEW t \in Threads, ~Idle(t), Last(todo[t]).op \in {"unref", "release"},
         NEW f, f = Last(todo[t]).x
  PROVE  /\ f \in Frames /\ t \in {Driver, Consumer}
         /\ Unrefs(t) = IF Last(todo[t]).op = "unref" THEN {f} ELSE {}
         /\ Releases(t) = IF Last(todo[t]).op = "release" THEN {f} ELSE {}
<1>1. f \in Frames /\ t \in {Driver, Consumer}
  <2>1. /\ Rest(t) + 1 \in DOMAIN todo[t] /\ todo[t][Rest(t) + 1] = Last(todo[t])
        /\ Last(todo[t]) \in Ops
    BY Top
  <2>2. t \in MayDo(Last(todo[t]).op)
    BY <2>1 DEF Stacks
  <2> QED BY <2>1, <2>2, OpTypes DEF MayDo, Alone, Loops
<1>2. /\ "unref" \notin Loops /\ "release" \notin Loops
      /\ "unref" \in Steps /\ "release" \in Steps
  BY DEF Loops, Steps
<1>3. /\ \A j \in DOMAIN todo[t] : todo[t][j] = Last(todo[t]) \/ todo[t][j].op \in Loops
      /\ \E j \in DOMAIN todo[t] : todo[t][j] = Last(todo[t])
  BY <1>2, LoopsBelow
<1>4. /\ Unrefs(t) = IF Last(todo[t]).op = "unref" THEN {f} ELSE {}
      /\ Releases(t) = IF Last(todo[t]).op = "release" THEN {f} ELSE {}
  BY <1>1, <1>2, <1>3 DEF Unrefs, Releases, Pending
<1> QED BY <1>1, <1>4

\* What it is about to do with lists when it has gone on.
LEMMA FrameOps ==
  ASSUME TypeOK, Stacks, NEW t \in Threads, ~Idle(t), Last(todo[t]).op \in {"unref", "release"},
         NEW f, f = Last(todo[t]).x, NEW ops, Stepped(t, ops)
  PROVE  /\ (\A i \in DOMAIN ops : ops[i].op # "unref") => Unrefs(t)' = {}
         /\ (\A i \in DOMAIN ops : ops[i].op # "release") => Releases(t)' = {}
         /\ (\E i \in DOMAIN ops : ops[i] = Op("release", f))
              /\ (\A i \in DOMAIN ops : ops[i].op = "release" => ops[i].x = f)
              => Releases(t)' = {f}
         /\ \A u \in Threads \ {t} : Unrefs(u)' = Unrefs(u) /\ Releases(u)' = Releases(u)
<1>1. /\ "unref" \notin Loops /\ "release" \notin Loops
      /\ "unref" \in Steps /\ "release" \in Steps /\ f \in Frames
  BY FrameTop DEF Loops, Steps
<1>2. /\ \A j \in DOMAIN todo'[t] : \/ todo'[t][j].op \in Loops
                                   \/ \E i \in DOMAIN ops : todo'[t][j] = ops[i]
      /\ \A i \in DOMAIN ops : \E j \in DOMAIN todo'[t] : todo'[t][j] = ops[i]
  BY <1>1, OnlyLoopsBelow
<1>3. /\ (\A i \in DOMAIN ops : ops[i].op # "unref") => Unrefs(t)' = {}
      /\ (\A i \in DOMAIN ops : ops[i].op # "release") => Releases(t)' = {}
  BY <1>1, <1>2 DEF Unrefs, Releases, Pending
<1>4. ASSUME NEW i \in DOMAIN ops, ops[i] = Op("release", f),
             \A j \in DOMAIN ops : ops[j].op = "release" => ops[j].x = f
      PROVE  Releases(t)' = {f}
  <2>1. ops[i].op = "release" /\ ops[i].x = f
    BY <1>4 DEF Op
  <2> QED BY <1>1, <1>2, <1>4, <2>1 DEF Releases, Pending
<1>5. \A u \in Threads \ {t} : Unrefs(u)' = Unrefs(u) /\ Releases(u)' = Releases(u)
  BY DEF Stepped, Unrefs, Releases, Pending
<1> QED BY <1>3, <1>4, <1>5

\* A reference to a list is given up.
LEMMA StepUnref ==
  ASSUME IInv, NEW t \in Threads, Unref(t)
  PROVE  IInv'
<1> USE DEF IInv
<1> DEFINE o == Last(todo[t])
<1>1. ~Idle(t) /\ o \in Ops /\ o.op = "unref" /\ o.x \in Frames
  BY Top, OpTypes DEF Unref, Doing, Idle
<1>2. PICK f \in Frames : f = o.x
  BY <1>1
<1>3. PICK ops : ops = IF frame[f].refs = 1 THEN <<Op("release", f)>> ELSE <<>>
  OBVIOUS
<1>4. /\ frame' = [frame EXCEPT ![f].refs = @ - 1] /\ Then(t, ops)
      /\ UNCHANGED <<item, chain, queue, cache_size, got, images, images_root,
                     prev_images_root, held, phase>>
  BY <1>2, <1>3 DEF Unref, Subject, caches
<1>5. /\ ops \in Seq(Ops) /\ \A i \in DOMAIN ops : ops[i] = Op("release", f)
      /\ Op("release", f).op = "release" /\ Op("release", f).x = f
      /\ DOMAIN ops = IF frame[f].refs = 1 THEN {1} ELSE {}
  BY <1>3, OpTypes
<1>6. Stepped(t, ops)
  BY <1>1, <1>4, <1>5, ThenSteps
<1>7. t \in {Driver, Consumer} /\ t \in MayDo("release")
  <2>1. Rest(t) + 1 \in DOMAIN todo[t] /\ todo[t][Rest(t) + 1].op = "unref"
    BY <1>1, Top
  <2> QED BY <2>1 DEF Stacks, MayDo, Alone, Loops
<1>8. Fits(t, ops)
  <2>1. MayWait("unref") \subseteq MayWait("release")
    BY DEF MayWait, Alone, Steps, Loops
  <2>2. Fits(t, <<>>) /\ Fits(t, <<Op("release", f)>>)
    BY <1>1, <1>5, <1>7, <2>1, Nothing_Fits, OneFits
  <2> QED BY <1>3, <2>2
<1>9. t # Driver => ~Maintaining
  BY <1>1, AtWork
<1>10. /\ Moved({}) /\ Lists' /\ Stacks' /\ OneCustodian' /\ AllReady'
       /\ AllPlaced' /\ Distinct' /\ Walks' /\ Paths'
  <2>1. \A i \in DOMAIN ops : Ready(ops[i])'
    BY <1>5 DEF Ready, OnItems
  <2> QED BY <1>1, <1>4, <1>5, <1>6, <1>8, <1>9, <2>1, QuietStep DEF Custody
<1>11. Sizes' /\ Gotten' /\ Turns'
  BY <1>1, <1>4, <1>5, <1>6, QuietGoesOn DEF Loops
<1>12. /\ frame \in [Frames -> List] /\ frame[f].refs \in Nat
       /\ frame[f].images \in SUBSET Image
  BY DEF TypeOK, List
<1>13. \A g \in Frames \ {f} : frame'[g] = frame[g]
  BY <1>4, <1>12
<1>14. frame'[f].refs = frame[f].refs - 1 /\ frame'[f].images = frame[f].images
  BY <1>4, <1>12 DEF List
<1>15. Counted'
  BY <1>1, <1>4, <1>5, <1>6, <1>13, <1>14, QuietCounted
<1>16. /\ Unrefs(t) = {f} /\ Releases(t) = {} /\ Unrefs(t)' = {}
       /\ Releases(t)' = IF frame[f].refs = 1 THEN {f} ELSE {}
       /\ \A u \in Threads \ {t} : Unrefs(u)' = Unrefs(u) /\ Releases(u)' = Releases(u)
  BY <1>1, <1>2, <1>5, <1>6, FrameTop, FrameOps
<1>18. TypeOK'
  <2>1. frame[f].refs - 1 \in Nat
    <3>1. Books(Driver, Consumer, f) /\ (t = Driver \/ t = Consumer)
      BY <1>7 DEF ListsCounted
    <3>2. One(f \in Unrefs(t)) = 1
      BY <1>16 DEF One
    <3>3. held[f] \in Nat /\ \A b : One(b) \in Nat
      BY DEF TypeOK, One
    <3> HIDE DEF One
    <3>4. frame[f].refs # 0
      BY <3>1, <3>2, <3>3 DEF Books
    <3> QED BY <1>12, <3>4
  <2>2. frame' \in [Frames -> List]
    BY <1>4, <1>12, <2>1 DEF List
  <2> QED BY <1>4, <1>6, <1>10, <2>2, TypesKept DEF TypeOK
<1>17. ListsCounted'
  <2>1. PICK v \in Threads \ {t} :
          (t = Driver /\ v = Consumer) \/ (t = Consumer /\ v = Driver)
    BY <1>7, BoundsAssumption DEF Threads
  <2>2. Unrefs(v)' = Unrefs(v) /\ Releases(v)' = Releases(v)
    BY <1>16
  <2>3. \A g \in Frames : Books(t, v, g)
    BY <1>18, <2>1, EitherBooks
  <2>4. \A g \in Frames \ {f} : Books(t, v, g)'
    BY <1>4, <1>13, <1>16, <2>2, <2>3 DEF Books, One
  <2>5. Books(t, v, f)'
    <3>1. /\ held[f] \in Nat /\ held' = held
          /\ One(images_root = f) \in Nat /\ One(prev_images_root = f) \in Nat
          /\ One(f \in Unrefs(v)) \in Nat
      BY <1>4 DEF TypeOK, One
    <3>2. /\ One(f \in Unrefs(t)) = 1 /\ One(f \in Unrefs(t)') = 0
          /\ One(f \in Unrefs(v)') = One(f \in Unrefs(v))
          /\ One(images_root' = f) = One(images_root = f)
          /\ One(prev_images_root' = f) = One(prev_images_root = f)
      BY <1>4, <1>16, <2>2 DEF One
    <3> HIDE DEF One
    <3>3. /\ frame[f].refs = held[f] + One(images_root = f) + One(prev_images_root = f)
               + 1 + One(f \in Unrefs(v))
          /\ frame'[f].refs = held[f] + One(images_root = f) + One(prev_images_root = f)
               + 0 + One(f \in Unrefs(v))
      BY <1>12, <1>14, <2>3, <3>1, <3>2 DEF Books
    <3>4. frame[f].refs # 0 /\ (frame'[f].refs = 0 <=> frame[f].refs = 1)
      BY <1>12, <1>14, <3>1, <3>3
    <3>5. f \notin Releases(v)
      BY <2>3, <3>4 DEF Books
    <3> QED BY <1>4, <1>16, <2>2, <3>1, <3>2, <3>3, <3>4, <3>5 DEF Books
  <2> QED BY <1>18, <2>1, <2>4, <2>5, EitherBooks
<1> QED BY <1>10, <1>11, <1>15, <1>17, <1>18

\* A reference goes from an image, or a key, to a thread that gives it up.
LEMMA HandedOver ==
  ASSUME TypeOK, Counted, NEW s \in Slots, NEW t, t \notin DecRefs(s),
         DecRefs(s)' = DecRefs(s) \cup {t},
         NEW A, NEW B, NEW C, A \in SUBSET ImageRefs(s), B \in SUBSET ListRefs(s),
         C \in SUBSET KeyRefs(s),
         ImageRefs(s)' = ImageRefs(s) \ A, ListRefs(s)' = ListRefs(s) \ B,
         KeyRefs(s)' = KeyRefs(s) \ C,
         \E x : \/ A = {x} /\ B = {} /\ C = {}
                \/ A = {} /\ B = {x} /\ C = {}
                \/ A = {} /\ B = {} /\ C = {x},
         \A r \in Slots \ {s} : /\ ImageRefs(r)' = ImageRefs(r) /\ ListRefs(r)' = ListRefs(r)
                                /\ KeyRefs(r)' = KeyRefs(r) /\ DecRefs(r)' = DecRefs(r),
         \A r \in Slots : item'[r].ref_count = item[r].ref_count
                          /\ (InQueue(r)' <=> InQueue(r))
  PROVE  Counted'
<1> DEFINE q == IF InQueue(s) THEN 1 ELSE 0
           i == Cardinality(ImageRefs(s))
           l == Cardinality(ListRefs(s))
           k == Cardinality(KeyRefs(s))
           d == Cardinality(DecRefs(s))
<1>1. q \in Nat /\ i \in Nat /\ l \in Nat /\ k \in Nat /\ d \in Nat
  BY RefSets
<1>2. item[s].ref_count = q + i + l + k + d
  BY DEF Counted, Refs
<1>3. Cardinality(DecRefs(s)') = d + 1
  BY RefSets, OneMore
<1>4. PICK x : \/ A = {x} /\ B = {} /\ C = {}
               \/ A = {} /\ B = {x} /\ C = {}
               \/ A = {} /\ B = {} /\ C = {x}
  OBVIOUS
<1>5. Cardinality(ImageRefs(s)') = IF A = {x} THEN i - 1 ELSE i
  <2>1. IsFiniteSet(ImageRefs(s)) /\ (A = {} \/ (A = {x} /\ x \in ImageRefs(s)))
    BY <1>4, RefSets
  <2>2. Cardinality(ImageRefs(s) \ A) =
          IF A = {x} THEN Cardinality(ImageRefs(s)) - 1 ELSE Cardinality(ImageRefs(s))
    <3> HIDE DEF ImageRefs
    <3>1. PICK S : S = ImageRefs(s)
      OBVIOUS
    <3>2. IsFiniteSet(S) /\ (A = {} \/ (A = {x} /\ x \in S))
      BY <2>1, <3>1
    <3>3. Cardinality(S \ A) = IF A = {x} THEN Cardinality(S) - 1 ELSE Cardinality(S)
      BY <3>2, TakenOne, Zenon
    <3> QED BY <3>1, <3>3
  <2> QED BY <2>2
<1>6. Cardinality(ListRefs(s)') = IF B = {x} THEN l - 1 ELSE l
  <2>1. IsFiniteSet(ListRefs(s)) /\ (B = {} \/ (B = {x} /\ x \in ListRefs(s)))
    BY <1>4, RefSets
  <2>2. Cardinality(ListRefs(s) \ B) =
          IF B = {x} THEN Cardinality(ListRefs(s)) - 1 ELSE Cardinality(ListRefs(s))
    <3> HIDE DEF ListRefs
    <3>1. PICK S : S = ListRefs(s)
      OBVIOUS
    <3>2. IsFiniteSet(S) /\ (B = {} \/ (B = {x} /\ x \in S))
      BY <2>1, <3>1
    <3>3. Cardinality(S \ B) = IF B = {x} THEN Cardinality(S) - 1 ELSE Cardinality(S)
      BY <3>2, TakenOne, Zenon
    <3> QED BY <3>1, <3>3
  <2> QED BY <2>2
<1>7. Cardinality(KeyRefs(s)') = IF C = {x} THEN k - 1 ELSE k
  <2>1. IsFiniteSet(KeyRefs(s)) /\ (C = {} \/ (C = {x} /\ x \in KeyRefs(s)))
    BY <1>4, RefSets
  <2>2. Cardinality(KeyRefs(s) \ C) =
          IF C = {x} THEN Cardinality(KeyRefs(s)) - 1 ELSE Cardinality(KeyRefs(s))
    <3> HIDE DEF KeyRefs
    <3>1. PICK S : S = KeyRefs(s)
      OBVIOUS
    <3>2. IsFiniteSet(S) /\ (C = {} \/ (C = {x} /\ x \in S))
      BY <2>1, <3>1
    <3>3. Cardinality(S \ C) = IF C = {x} THEN Cardinality(S) - 1 ELSE Cardinality(S)
      BY <3>2, TakenOne, Zenon
    <3> QED BY <3>1, <3>3
  <2> QED BY <2>2
<1>8. (IF InQueue(s)' THEN 1 ELSE 0) = q
  OBVIOUS
<1>9. Refs(s)' = q + Cardinality(ImageRefs(s)') + Cardinality(ListRefs(s)')
                 + Cardinality(KeyRefs(s)') + Cardinality(DecRefs(s)')
  BY <1>8 DEF Refs
<1> HIDE DEF q, i, l, k, d
<1>10. Refs(s)' = q + i + l + k + d
  <2>1. CASE A = {x} /\ B = {} /\ C = {}
    BY <1>1, <1>3, <1>5, <1>6, <1>7, <1>9, <2>1
  <2>2. CASE A = {} /\ B = {x} /\ C = {}
    BY <1>1, <1>3, <1>5, <1>6, <1>7, <1>9, <2>2
  <2>3. CASE A = {} /\ B = {} /\ C = {x}
    BY <1>1, <1>3, <1>5, <1>6, <1>7, <1>9, <2>3
  <2> QED BY <1>4, <2>1, <2>2, <2>3
<1>11. \A r \in {s} \cap Slots : item'[r].ref_count = Refs(r)'
  BY <1>2, <1>10
<1> HIDE DEF InQueue
<1> QED BY <1>11, CountedKept

\* The lists of images, while a list is being released.
LEMMA ReleaseBooks ==
  ASSUME TypeOK, ListsCounted, TypeOK', NEW t \in {Driver, Consumer}, NEW f \in Frames,
         Unrefs(t) = {}, Releases(t) = {f},
         UNCHANGED <<images_root, prev_images_root, held>>,
         \A g \in Frames \ {f} : frame'[g] = frame[g],
         frame'[f].refs = frame[f].refs, Unrefs(t)' = {},
         \A u \in Threads \ {t} : Unrefs(u)' = Unrefs(u) /\ Releases(u)' = Releases(u),
         Releases(t)' = {f} \/ (Releases(t)' = {} /\ frame'[f].images = {})
  PROVE  ListsCounted'
<1>1. PICK v \in Threads \ {t} :
        (t = Driver /\ v = Consumer) \/ (t = Consumer /\ v = Driver)
  BY BoundsAssumption DEF Threads
<1>2. Unrefs(v)' = Unrefs(v) /\ Releases(v)' = Releases(v)
  BY <1>1
<1>3. \A g \in Frames : Books(t, v, g)
  BY <1>1, EitherBooks
<1>4. \A g \in Frames \ {f} : Books(t, v, g)'
  BY <1>2, <1>3 DEF Books, One
<1>5. Books(t, v, f)'
  <2>1. frame[f].refs = 0 /\ f \notin Releases(v)
    BY <1>3 DEF Books
  <2>2. /\ One(f \in Unrefs(t)') = One(f \in Unrefs(t))
        /\ One(f \in Unrefs(v)') = One(f \in Unrefs(v))
        /\ One(images_root' = f) = One(images_root = f)
        /\ One(prev_images_root' = f) = One(prev_images_root = f)
    BY <1>2 DEF One
  <2>3. frame'[f].refs = held'[f] + One(images_root' = f) + One(prev_images_root' = f)
           + One(f \in Unrefs(t)') + One(f \in Unrefs(v)')
    BY <1>3, <2>2 DEF Books
  <2> QED BY <1>2, <2>1, <2>3 DEF Books
<1> QED BY <1>1, <1>4, <1>5, EitherBooks

\* An image of a list is freed.
LEMMA StepRelease ==
  ASSUME IInv, NEW t \in Threads, Release(t)
  PROVE  IInv'
<1> USE DEF IInv
<1> DEFINE o == Last(todo[t])
<1>1. ~Idle(t) /\ o \in Ops /\ o.op = "release" /\ o.x \in Frames
  BY Top, OpTypes DEF Release, Doing, Idle
<1>2. PICK f \in Frames : f = o.x
  BY <1>1
<1>3. /\ frame \in [Frames -> List] /\ frame[f].refs \in Nat
      /\ frame[f].images \in SUBSET Image
  BY DEF TypeOK, List
<1>4. t \in {Driver, Consumer} /\ Unrefs(t) = {} /\ Releases(t) = {f}
  BY <1>1, <1>2, FrameTop
<1>5. t # Driver => ~Maintaining
  BY <1>1, AtWork
<1>6. UNCHANGED <<item, chain, queue, cache_size, got, images, images_root,
                  prev_images_root, held, phase>>
  BY DEF Release, caches
<1>7. CASE \E i \in frame[f].images :
             /\ frame' = [frame EXCEPT ![f].images = @ \ {i}]
             /\ Then(t, <<Op("release", f), Op("dec", i[2])>>)
  <2>1. PICK i \in frame[f].images :
             /\ frame' = [frame EXCEPT ![f].images = @ \ {i}]
             /\ Then(t, <<Op("release", f), Op("dec", i[2])>>)
    BY <1>7
  <2>2. PICK s \in Slots : s = i[2]
    BY <1>3 DEF Image
  <2>3. PICK ops : ops = <<Op("release", f), Op("dec", s)>>
    OBVIOUS
  <2>4. /\ ops \in Seq(Ops) /\ Len(ops) = 2 /\ DOMAIN ops = {1, 2}
        /\ ops[1] = Op("release", f) /\ ops[1].op = "release" /\ ops[1].x = f
        /\ ops[2].op = "dec" /\ ops[2].x = s
    BY <2>3, OpTypes
  <2>5. Stepped(t, ops)
    BY <1>1, <2>1, <2>2, <2>3, <2>4, ThenSteps
  <2>6. Fits(t, ops)
    <3>1. /\ MayWait("release") \subseteq MayWait("dec") /\ "release" \in MayWait("dec")
          /\ t \in MayDo("dec") /\ t \in MayDo("release")
      BY <1>4 DEF MayWait, MayDo, Alone, Steps, Loops
    <3> QED BY <1>1, <2>3, <2>4, <3>1, TwoFit
  <2>7. /\ Moved({}) /\ Lists' /\ Stacks' /\ OneCustodian' /\ AllReady'
        /\ AllPlaced' /\ Distinct' /\ Walks' /\ Paths'
    <3>1. Ready(ops[1])' /\ Ready(ops[2])'
      BY <2>4 DEF Ready, OnItems
    <3> QED BY <1>1, <1>5, <1>6, <2>4, <2>5, <2>6, <3>1, QuietStep DEF Custody
  <2>8. Sizes' /\ Gotten' /\ Turns'
    BY <1>1, <1>6, <2>4, <2>5, QuietGoesOn DEF Loops
  <2>9. \A g \in Frames \ {f} : frame'[g] = frame[g]
    BY <1>3, <2>1
  <2>10. frame'[f].refs = frame[f].refs /\ frame'[f].images = frame[f].images \ {i}
    BY <1>3, <2>1 DEF List
  <2>11. frame' \in [Frames -> List]
    BY <1>3, <2>1 DEF List
  <2>12. TypeOK'
    BY <1>6, <2>5, <2>7, <2>11, TypesKept DEF TypeOK
  <2>13. /\ Unrefs(t)' = {} /\ Releases(t)' = {f}
         /\ \A u \in Threads \ {t} : Unrefs(u)' = Unrefs(u) /\ Releases(u)' = Releases(u)
    BY <1>1, <1>2, <2>4, <2>5, FrameOps
  <2>14. ListsCounted'
    BY <1>4, <1>6, <2>9, <2>10, <2>12, <2>13, ReleaseBooks
  <2>15. Counted'
    <3>1. /\ \A r : DecRefs(r)' = IF s = r THEN DecRefs(r) \cup {t} ELSE DecRefs(r) \ {t}
          /\ \A r : t \notin DecRefs(r)
      <4>1. Len(ops) # 0 /\ ops[Len(ops)].op = "dec" /\ ops[Len(ops)].x = s
        BY <2>4
      <4>2. \A r : t \notin DecRefs(r)
        BY <1>1, <2>5, DecsKept
      <4>3. \A r : DecRefs(r)' = IF ops[Len(ops)].x = r THEN DecRefs(r) \cup {t}
                                                         ELSE DecRefs(r) \ {t}
        BY <2>5, <4>1, DecsKept
      <4> QED BY <4>1, <4>2, <4>3
    <3>2. \A r : ImageRefs(r)' = ImageRefs(r) /\ KeyRefs(r)' = KeyRefs(r)
      BY <1>6 DEF ImageRefs, KeyRefs
    <3>3. \A r : ListRefs(r)' = IF r = s THEN ListRefs(r) \ {<<f, i>>} ELSE ListRefs(r)
      BY <1>3, <2>2, <2>9, <2>10 DEF ListRefs
    <3>4. <<f, i>> \in ListRefs(s)
      BY <1>3, <2>2 DEF ListRefs
    <3>5. \A r \in Slots : item'[r].ref_count = item[r].ref_count
                           /\ (InQueue(r)' <=> InQueue(r))
      BY <1>6 DEF InQueue
    <3>6. PICK B : B = {<<f, i>>}
      OBVIOUS
    <3>7. /\ B \in SUBSET ListRefs(s) /\ {} \in SUBSET ImageRefs(s)
          /\ {} \in SUBSET KeyRefs(s) /\ \E x : B = {x}
          /\ ListRefs(s)' = ListRefs(s) \ B /\ ImageRefs(s)' = ImageRefs(s) \ {}
          /\ KeyRefs(s)' = KeyRefs(s) \ {} /\ DecRefs(s)' = DecRefs(s) \cup {t}
      BY <3>1, <3>2, <3>3, <3>4, <3>6
    <3>8. \A r \in Slots \ {s} :
            /\ ImageRefs(r)' = ImageRefs(r) /\ ListRefs(r)' = ListRefs(r)
            /\ KeyRefs(r)' = KeyRefs(r) /\ DecRefs(r)' = DecRefs(r)
      BY <3>1, <3>2, <3>3
    <3> HIDE DEF InQueue
    <3> QED BY <3>1, <3>5, <3>7, <3>8, HandedOver
  <2> QED BY <2>7, <2>8, <2>12, <2>14, <2>15
<1>8. CASE frame[f].images = {} /\ Then(t, <<>>) /\ UNCHANGED frame
  <2>1. Stepped(t, <<>>)
    <3>1. <<>> \in Seq(Ops)
      OBVIOUS
    <3> QED BY <1>1, <1>8, <3>1, ThenSteps
  <2>2. \A i \in DOMAIN <<>> : FALSE
    OBVIOUS
  <2>3. Fits(t, <<>>)
    BY Nothing_Fits
  <2>4. /\ Moved({}) /\ Lists' /\ Stacks' /\ OneCustodian' /\ AllReady'
        /\ AllPlaced' /\ Distinct' /\ Walks' /\ Paths'
    BY <1>1, <1>5, <1>6, <2>1, <2>2, <2>3, QuietStep DEF Custody
  <2>5. Sizes' /\ Gotten' /\ Turns'
    BY <1>1, <1>6, <2>1, <2>2, QuietGoesOn
  <2>6. TypeOK'
    BY <1>6, <1>8, <2>1, <2>4, TypesKept DEF TypeOK
  <2>7. /\ Unrefs(t)' = {} /\ Releases(t)' = {}
        /\ \A u \in Threads \ {t} : Unrefs(u)' = Unrefs(u) /\ Releases(u)' = Releases(u)
    BY <1>1, <1>2, <2>1, <2>2, FrameOps
  <2>8. ListsCounted'
    BY <1>4, <1>6, <1>8, <2>6, <2>7, ReleaseBooks
  <2>9. Counted'
    BY <1>1, <1>6, <1>8, <2>1, <2>2, QuietCounted
  <2> QED BY <2>4, <2>5, <2>6, <2>8, <2>9
<1> QED BY <1>2, <1>7, <1>8 DEF Release, Subject

\* A thread goes on with what it was on, and changes nothing.
LEMMA QuietThread ==
  ASSUME IInv, NEW t \in Threads, ~Idle(t), NEW ops \in Seq(Ops), Then(t, ops),
         Fits(t, ops), t # Driver => ~Maintaining,
         UNCHANGED <<item, chain, queue, cache_size, got, lists, phase>>,
         Last(todo[t]).op \notin Custody \cup {"dec", "unref", "release"},
         \A i \in DOMAIN ops :
           /\ ops[i].op \notin Custody \cup {"dec", "unref", "release"}
           /\ Ready(ops[i])'
           /\ ops[i].op = "walk" /\ ops[i].x # None =>
                /\ Pending(Driver, "empty", HomeOf(ops[i].x))'
                /\ i = Len(ops)
           /\ ops[i].op \in {"lookup", "build"} =>
                /\ ops[i].x \in Keys
                /\ \A d \in Uses[ops[i].x] : got[t][d] # None
           /\ ops[i].op \in Loops => Last(todo[t]).op \in Loops,
         \A c : Last(todo[t]).op = "empty" /\ Last(todo[t]).x = c =>
           Pending(Driver, "empty", c)'
  PROVE  IInv'
<1> USE DEF IInv, lists
<1>1. Stepped(t, ops)
  BY ThenSteps
<1>2. /\ Moved({}) /\ Lists' /\ Stacks' /\ OneCustodian' /\ AllReady'
      /\ AllPlaced' /\ Distinct' /\ Walks' /\ Paths'
  BY <1>1, QuietStep
<1>3. Sizes' /\ Gotten' /\ Turns'
  BY <1>1, QuietGoesOn
<1>4. Counted'
  BY <1>1, QuietCounted
<1>5. ListsCounted'
  BY <1>1, ListsKept
<1>6. TypeOK'
  BY <1>1, <1>2, TypesKept DEF TypeOK
<1> QED BY <1>2, <1>3, <1>4, <1>5, <1>6

\* The end of a loop, of a walk, of the look at an item that is still in use.
LEMMA StepFinish ==
  ASSUME IInv, NEW t \in Threads, ~Idle(t), Then(t, <<>>),
         UNCHANGED <<item, chain, queue, cache_size, got, lists, phase>>,
         Last(todo[t]).op \in {"cut", "orphan", "walk", "build"}
  PROVE  IInv'
<1>1. /\ <<>> \in Seq(Ops) /\ Fits(t, <<>>) /\ \A i \in DOMAIN <<>> : FALSE
  BY Nothing_Fits
<1>2. t # Driver => ~Maintaining
  BY AtWork DEF IInv
<1> QED BY <1>1, <1>2, QuietThread DEF Custody

\* Nothing is found: the item is to be built.
LEMMA StepMiss ==
  ASSUME IInv, NEW w \in Workers, Doing(w, "lookup"), NEW k, k = Subject(w),
         Then(w, <<Op("build", k)>>),
         UNCHANGED <<item, chain, queue, cache_size, got, lists, phase>>
  PROVE  IInv'
<1> USE DEF IInv
<1>1. /\ w \in Threads /\ ~Idle(w) /\ Last(todo[w]).op = "lookup" /\ k = Last(todo[w]).x
  BY DEF Doing, Subject, Threads
<1>2. /\ Rest(w) + 1 \in DOMAIN todo[w] /\ todo[w][Rest(w) + 1] = Last(todo[w])
      /\ Last(todo[w]) \in Ops
  BY <1>1, Top
<1>3. k \in Keys /\ \A d \in Uses[k] : got[w][d] # None
  BY <1>1, <1>2 DEF Gotten
<1>4. PICK ops : ops = <<Op("build", k)>>
  OBVIOUS
<1>5. /\ ops \in Seq(Ops) /\ \A i \in DOMAIN ops : ops[i].op = "build" /\ ops[i].x = k
      /\ Op("build", k).op = "build"
  BY <1>3, <1>4, OpTypes
<1>6. Fits(w, ops)
  <2>1. MayWait("lookup") \subseteq MayWait("build") /\ w \in MayDo("build")
    BY DEF MayWait, MayDo, Alone
  <2> QED BY <1>1, <1>4, <1>5, <2>1, OneFits
<1>7. ~Maintaining
  BY <1>1, AtWork
<1>8. \A i \in DOMAIN ops : Ready(ops[i])'
  BY <1>5 DEF Ready, OnItems
<1>9. Then(w, ops)
  BY <1>4
<1> QED BY <1>1, <1>3, <1>5, <1>6, <1>7, <1>8, <1>9, QuietThread DEF Custody, Loops

\* Another chain is to be walked.
LEMMA StepNextChain ==
  ASSUME IInv, Doing(Driver, "empty"), NEW c, c = Subject(Driver),
         NEW b \in Buckets, chain[b] # <<>>, NEW h, h = Head(chain[b]), HomeOf(h) = c,
         Then(Driver, <<Op("empty", c), Op("walk", h)>>),
         UNCHANGED <<item, chain, queue, cache_size, got, lists, phase>>
  PROVE  IInv'
<1> USE DEF IInv
<1>1. /\ Driver \in Threads /\ ~Idle(Driver)
      /\ Last(todo[Driver]).op = "empty" /\ c = Last(todo[Driver]).x
  BY DEF Doing, Subject, Threads
<1>2. Last(todo[Driver]) \in Ops
  BY <1>1, Top
<1>3. c \in Caches
  BY <1>1, <1>2, OpTypes DEF Loops
<1>4. h \in Slots /\ Linked(h)
  <2>1. h \in ToSet(chain[b]) /\ chain[b] \in Seq(Slots)
    BY Elements, ListElements
  <2> QED BY <2>1, ListElements
<1>5. PICK ops : ops = <<Op("empty", c), Op("walk", h)>>
  OBVIOUS
<1>6. /\ ops \in Seq(Ops) /\ Len(ops) = 2 /\ DOMAIN ops = {1, 2}
      /\ ops[1].op = "empty" /\ ops[1].x = c /\ ops[2].op = "walk" /\ ops[2].x = h
      /\ ops[1] = Op("empty", c) /\ ops[2] = Op("walk", h)
  BY <1>3, <1>4, <1>5, OpTypes DEF Loops
<1>7. Fits(Driver, ops)
  <2>1. /\ MayWait("empty") \subseteq MayWait("walk") /\ "empty" \in MayWait("walk")
        /\ Driver \in MayDo("walk") /\ Driver \in MayDo("empty")
    BY DEF MayWait, MayDo, Alone, Steps, Loops
  <2> QED BY <1>1, <1>5, <1>6, <2>1, TwoFit
<1>8. Stepped(Driver, ops)
  BY <1>1, <1>5, <1>6, ThenSteps
<1>9. Pending(Driver, "empty", c)'
  BY <1>1, <1>6, <1>8, PendingKept
<1>10. HomeOf(h)' = c /\ Linked(h)'
  BY <1>4 DEF HomeOf, Linked
<1>11. Pending(Driver, "empty", HomeOf(h))'
  BY <1>9, <1>10
<1>12. Ready(ops[1])' /\ Ready(ops[2])'
  BY <1>4, <1>6, <1>10 DEF Ready, OnItems
<1>13. Then(Driver, ops)
  BY <1>5
<1>14. \A i \in DOMAIN ops :
         /\ ops[i].op \notin Custody \cup {"dec", "unref", "release"} /\ Ready(ops[i])'
         /\ ops[i].op = "walk" => ops[i].x = h /\ i = Len(ops)
         /\ ops[i].op \notin {"lookup", "build"}
         /\ ops[i].op \in Loops => Last(todo[Driver]).op \in Loops
  BY <1>1, <1>6, <1>12 DEF Custody, Loops
<1>15. \A i \in DOMAIN ops : ops[i].op = "walk" /\ ops[i].x # None =>
         Pending(Driver, "empty", HomeOf(ops[i].x))' /\ i = Len(ops)
  BY <1>11, <1>14
<1>16. Last(todo[Driver]).op \notin Custody \cup {"dec", "unref", "release"}
  BY <1>1 DEF Custody
<1>17. \A d : Last(todo[Driver]).op = "empty" /\ Last(todo[Driver]).x = d =>
         Pending(Driver, "empty", d)'
  BY <1>1, <1>9
<1> QED BY <1>1, <1>6, <1>7, <1>13, <1>14, <1>15, <1>16, <1>17, QuietThread

\* A thread that had nothing to do takes up ops.
LEMMA Started ==
  ASSUME TypeOK, NEW t \in Threads, Idle(t), NEW ops \in Seq(Ops), Stepped(t, ops),
         UNCHANGED <<item, chain>>
  PROVE  /\ \A u \in Threads \ {t} : Idle(u)' <=> Idle(u)
         /\ Idle(t)' <=> ops = <<>>
         /\ Maintaining' <=> \/ Maintaining
                             \/ t = Driver /\ \E i \in DOMAIN ops : ops[i].op \in Loops
         /\ \A s : (Linked(s)' <=> Linked(s)) /\ HomeOf(s)' = HomeOf(s)
         /\ \A c : Pending(Driver, "empty", c) => Pending(Driver, "empty", c)'
         /\ t = Driver => \A i \in DOMAIN ops : Pending(Driver, ops[i].op, ops[i].x)'
<1>1. /\ Rest(t) = 0 /\ Len(ops) \in Nat /\ DOMAIN ops = 1 .. Len(ops)
      /\ \A u \in Threads \ {t} : todo'[u] = todo[u]
      /\ DOMAIN todo'[t] = 1 .. Len(ops) /\ todo'[t] \in Seq(Ops)
      /\ \A i \in DOMAIN ops : todo'[t][i] = ops[i]
  BY DEF Rest, Stepped
<1>2. Idle(t)' <=> ops = <<>>
  BY <1>1 DEF Idle
<1>3. \A u \in Threads \ {t} : Idle(u)' <=> Idle(u)
  BY <1>1 DEF Idle
<1>4. \A s : (Linked(s)' <=> Linked(s)) /\ HomeOf(s)' = HomeOf(s)
  BY DEF Linked, HomeOf
<1>5. CASE t = Driver
  <2>1. todo[Driver] = <<>> /\ ~Maintaining /\ \A c : ~Pending(Driver, "empty", c)
    BY <1>5 DEF Idle, Maintaining, Pending
  <2>2. \A i \in DOMAIN ops : Pending(Driver, ops[i].op, ops[i].x)'
    BY <1>1, <1>5 DEF Pending
  <2>3. Maintaining' <=> \E i \in DOMAIN ops : ops[i].op \in Loops
    BY <1>1, <1>5 DEF Maintaining
  <2> QED BY <1>2, <1>3, <1>4, <1>5, <2>1, <2>2, <2>3
<1>6. CASE t # Driver
  <2>1. todo'[Driver] = todo[Driver]
    BY <1>1, <1>6 DEF Threads
  <2>2. /\ Maintaining' <=> Maintaining
        /\ \A c : Pending(Driver, "empty", c)' <=> Pending(Driver, "empty", c)
    BY <2>1 DEF Maintaining, Pending
  <2> QED BY <1>2, <1>3, <1>4, <1>6, <2>2
<1> QED BY <1>5, <1>6

\* ... and changes nothing else of the caches.
LEMMA QuietStart ==
  ASSUME IInv, NEW t \in Threads, Idle(t), NEW ops \in Seq(Ops), Stepped(t, ops),
         Fits(t, ops), t # Driver => ~Maintaining,
         UNCHANGED <<item, chain, queue, cache_size>>,
         \A i \in DOMAIN ops : ops[i].op \notin Custody \cup {"walk"} /\ Ready(ops[i])'
  PROVE  /\ Moved({}) /\ Lists' /\ Stacks' /\ OneCustodian' /\ AllReady'
         /\ AllPlaced' /\ Distinct' /\ Walks' /\ Paths' /\ Sizes'
<1> USE DEF IInv
<1>1. /\ Moved({}) /\ Lists' /\ Stacks' /\ OneCustodian' /\ AllReady'
      /\ AllPlaced' /\ Distinct' /\ Walks' /\ Paths'
  BY QuietStep
<1>2. \A c \in Caches : Pending(Driver, "empty", c) => Pending(Driver, "empty", c)'
  BY Started
<1>3. \A r \in {} \cap Slots : FALSE
  OBVIOUS
<1>4. Sizes'
  BY <1>1, <1>2, <1>3, SizesKept
<1> QED BY <1>1, <1>4

\* Within a frame, when the driver waits for the workers or they for it.
LEMMA TurnsInFrame ==
  ASSUME phase' = "frame", ~Maintaining', images_root' = None,
         \A w \in Workers : ~Idle(w)' => Idle(Driver)'
  PROVE  Turns'
BY DEF Turns

\* What a worker needs.
LEMMA StepGet ==
  ASSUME IInv, NEW w \in Workers, Get(w)
  PROVE  IInv'
<1> USE DEF IInv
<1>1. PICK k \in Keys : /\ got[w][k] = None /\ \A d \in Uses[k] : got[w][d] # None
                        /\ todo' = [todo EXCEPT ![w] = <<Op("lookup", k)>>]
  BY DEF Get
<1>2. /\ phase = "frame" /\ Idle(Driver) /\ Idle(w) /\ w \in Threads
      /\ UNCHANGED <<item, chain, queue, cache_size, got, images, frame, images_root,
                     prev_images_root, held, phase>>
  BY DEF Get, Rendering, caches, lists, Threads
<1>3. PICK ops : ops = <<Op("lookup", k)>>
  OBVIOUS
<1>4. /\ ops \in Seq(Ops) /\ ops # <<>> /\ DOMAIN ops = {1}
      /\ ops[1].op = "lookup" /\ ops[1].x = k
  BY <1>3, OpTypes
<1>5. Stepped(w, ops)
  BY <1>1, <1>2, <1>3, <1>4, PushSteps
<1>6. Fits(w, ops)
  <2>1. w \in MayDo("lookup")
    BY DEF MayDo, Alone
  <2>2. \A i, j \in DOMAIN ops : i = 1 /\ j = 1 /\ ~(i < j)
    BY <1>4
  <2> QED BY <1>2, <1>4, <2>1, <2>2, FreshFit
<1>7. ~Maintaining
  BY <1>2 DEF Maintaining, Idle
<1>8. /\ Moved({}) /\ Lists' /\ Stacks' /\ OneCustodian' /\ AllReady'
      /\ AllPlaced' /\ Distinct' /\ Walks' /\ Paths' /\ Sizes'
  <2>1. Ready(ops[1])'
    BY <1>4 DEF Ready, OnItems
  <2> QED BY <1>2, <1>4, <1>5, <1>6, <1>7, <2>1, QuietStart DEF Custody
<1>9. Turns'
  <2>1. Driver # w
    BY BoundsAssumption
  <2>2. Idle(Driver)' /\ ~Maintaining'
    BY <1>2, <1>4, <1>5, <1>7, <2>1, Started DEF Threads
  <2>3. images_root' = None /\ phase' = "frame"
    BY <1>2 DEF Turns
  <2> QED BY <2>2, <2>3, TurnsInFrame
<1>10. Gotten'
  <2>1. \A v \in Workers : \A l \in Keys : \A s \in Slots :
          got[v][l] = s => InQueue(s)' /\ item'[s].key = l
    BY <1>2, BoundsAssumption DEF Gotten, InQueue
  <2> QED BY <1>1, <1>2, <1>4, <1>5, <2>1, GottenKept
<1>11. Counted'
  BY <1>2, <1>4, <1>5, QuietCounted
<1>12. ListsCounted'
  BY <1>2, <1>4, <1>5, ListsKept
<1>13. TypeOK'
  BY <1>2, <1>5, <1>8, TypesKept DEF TypeOK
<1> QED BY <1>8, <1>9, <1>10, <1>11, <1>12, <1>13

\* An image loses its source.
LEMMA StepDrop ==
  ASSUME IInv, NEW t \in Threads, Drop(t)
  PROVE  IInv'
<1> USE DEF IInv
<1>1. PICK i \in images : /\ images' = images \ {i}
                          /\ todo' = [todo EXCEPT ![t] = <<Op("dec", i[2])>>]
  BY DEF Drop
<1>2. PICK s \in Slots : s = i[2]
  BY DEF TypeOK, Image
<1>3. /\ phase = "frame" /\ Idle(Driver) /\ Idle(t)
      /\ t = Driver \/ t \in Workers
      /\ t = Driver => \A w \in Workers : Idle(w)
      /\ UNCHANGED <<item, chain, queue, cache_size, got, frame, images_root,
                     prev_images_root, held, phase>>
  BY BoundsAssumption DEF Drop, Rendering, caches, Threads
<1>4. PICK ops : ops = <<Op("dec", s)>>
  OBVIOUS
<1>5. /\ ops \in Seq(Ops) /\ ops # <<>> /\ DOMAIN ops = {1} /\ Len(ops) = 1
      /\ ops[1].op = "dec" /\ ops[1].x = s
  BY <1>4, OpTypes
<1>6. Stepped(t, ops)
  BY <1>1, <1>2, <1>3, <1>4, <1>5, PushSteps
<1>7. Fits(t, ops)
  <2>1. t \in MayDo("dec")
    BY DEF MayDo, Alone, Loops
  <2>2. \A h, j \in DOMAIN ops : h = 1 /\ j = 1 /\ ~(h < j)
    BY <1>5
  <2> QED BY <1>3, <1>5, <2>1, <2>2, FreshFit
<1>8. ~Maintaining
  BY <1>3 DEF Maintaining, Idle
<1>9. /\ Moved({}) /\ Lists' /\ Stacks' /\ OneCustodian' /\ AllReady'
      /\ AllPlaced' /\ Distinct' /\ Walks' /\ Paths' /\ Sizes'
  <2>1. Ready(ops[1])'
    BY <1>5 DEF Ready, OnItems
  <2> QED BY <1>3, <1>5, <1>6, <1>7, <1>8, <2>1, QuietStart DEF Custody
<1>10. Turns'
  <2>1. ~Maintaining'
    <3>1. \A j \in DOMAIN ops : ops[j].op \notin Loops
      BY <1>5 DEF Loops
    <3> QED BY <1>3, <1>5, <1>6, <1>8, <3>1, Started
  <2>2. \A w \in Workers : ~Idle(w)' => Idle(Driver)'
    <3>1. CASE t = Driver
      <4>1. \A w \in Workers : w \in Threads \ {t}
        BY <3>1, BoundsAssumption DEF Threads
      <4> QED BY <1>3, <1>5, <1>6, <3>1, <4>1, Started
    <3>2. CASE t # Driver
      <4>1. Driver \in Threads \ {t}
        BY <3>2 DEF Threads
      <4> QED BY <1>3, <1>5, <1>6, <4>1, Started
    <3> QED BY <3>1, <3>2
  <2>3. images_root' = None /\ phase' = "frame"
    BY <1>3 DEF Turns
  <2> QED BY <2>1, <2>2, <2>3, TurnsInFrame
<1>11. Gotten'
  <2>1. \A v \in Workers : \A l \in Keys : \A r \in Slots :
          got[v][l] = r => InQueue(r)' /\ item'[r].key = l
    BY <1>3, BoundsAssumption DEF Gotten, InQueue
  <2> QED BY <1>3, <1>5, <1>6, <2>1, GottenKept
<1>12. Counted'
  <2>1. /\ \A r : t \notin DecRefs(r)
        /\ \A r : DecRefs(r)' = IF s = r THEN DecRefs(r) \cup {t} ELSE DecRefs(r) \ {t}
    <3>1. Len(ops) # 0 /\ ops[Len(ops)].op = "dec" /\ ops[Len(ops)].x = s
      BY <1>5
    <3>2. \A r : t \notin DecRefs(r)
      BY <1>3, <1>6, DecsKept
    <3>3. \A r : DecRefs(r)' = IF ops[Len(ops)].x = r THEN DecRefs(r) \cup {t}
                                                       ELSE DecRefs(r) \ {t}
      BY <1>6, <3>1, DecsKept
    <3> QED BY <3>1, <3>2, <3>3
  <2>2. \A r : ListRefs(r)' = ListRefs(r) /\ KeyRefs(r)' = KeyRefs(r)
    BY <1>3 DEF ListRefs, KeyRefs
  <2>3. \A r : ImageRefs(r)' = IF r = s THEN ImageRefs(r) \ {i} ELSE ImageRefs(r)
    BY <1>1, <1>2 DEF ImageRefs
  <2>4. i \in ImageRefs(s)
    BY <1>1, <1>2 DEF ImageRefs
  <2>5. \A r \in Slots : item'[r].ref_count = item[r].ref_count
                         /\ (InQueue(r)' <=> InQueue(r))
    BY <1>3 DEF InQueue
  <2>6. PICK A : A = {i}
    OBVIOUS
  <2>7. /\ A \in SUBSET ImageRefs(s) /\ {} \in SUBSET ListRefs(s)
        /\ {} \in SUBSET KeyRefs(s) /\ \E x : A = {x}
        /\ ImageRefs(s)' = ImageRefs(s) \ A /\ ListRefs(s)' = ListRefs(s) \ {}
        /\ KeyRefs(s)' = KeyRefs(s) \ {} /\ DecRefs(s)' = DecRefs(s) \cup {t}
        /\ t \notin DecRefs(s)
    BY <2>1, <2>2, <2>3, <2>4, <2>6
  <2>8. \A r \in Slots \ {s} :
          /\ ImageRefs(r)' = ImageRefs(r) /\ ListRefs(r)' = ListRefs(r)
          /\ KeyRefs(r)' = KeyRefs(r) /\ DecRefs(r)' = DecRefs(r)
    BY <2>1, <2>2, <2>3
  <2> HIDE DEF InQueue
  <2> QED BY <2>5, <2>7, <2>8, HandedOver
<1>13. ListsCounted'
  BY <1>3, <1>5, <1>6, ListsKept
<1>14. TypeOK'
  <2>1. images' \in SUBSET Image
    BY <1>1 DEF TypeOK
  <2> QED BY <1>3, <1>6, <1>9, <2>1, TypesKept DEF TypeOK
<1> QED BY <1>9, <1>10, <1>11, <1>12, <1>13, <1>14

-----------------------------------------------------------------------------
(* Frames, and calls between them                                          *)

\* A loop over caches, in the order given.
LEMMA LoopsOnCaches ==
  ASSUME NEW k \in Loops, NEW cs \in Seq(Caches)
  PROVE  /\ OnCaches(k, cs) \in Seq(Ops) /\ DOMAIN OnCaches(k, cs) = 1 .. Len(cs)
         /\ Len(OnCaches(k, cs)) = Len(cs) /\ Len(cs) \in Nat
         /\ \A i \in DOMAIN OnCaches(k, cs) :
              OnCaches(k, cs)[i].op = k /\ OnCaches(k, cs)[i].x \in Caches
         /\ \A c \in Range(cs) : \E i \in DOMAIN OnCaches(k, cs) : OnCaches(k, cs)[i].x = c
<1> DEFINE n == Len(cs)
           r == Reverse(cs)
           l == OnCaches(k, cs)
<1>1. n \in Nat /\ DOMAIN cs = 1 .. n /\ \A i \in 1 .. n : cs[i] \in Caches
  OBVIOUS
<1>2. DOMAIN l = 1 .. n /\ \A i \in 1 .. n : l[i] = Op(k, r[i])
  BY <1>1 DEF OnCaches
<1>3. \A i \in 1 .. n : r[i] = cs[n - i + 1]
  BY <1>1 DEF Reverse
<1>4. \A i \in 1 .. n : n - i + 1 \in 1 .. n
  BY <1>1
<1>5. \A i \in 1 .. n : r[i] \in Caches
  BY <1>1, <1>3, <1>4
<1>6. \A i \in 1 .. n : l[i].op = k /\ l[i].x = r[i] /\ l[i] \in Ops
  BY <1>2, <1>5, OpTypes
<1>7. l \in Seq(Ops) /\ Len(l) = n
  <2>1. l = [i \in 1 .. n |-> l[i]]
    BY <1>1, <1>2 DEF OnCaches
  <2>2. l \in [1 .. n -> Ops]
    BY <1>6, <2>1
  <2> HIDE DEF l, n
  <2> QED BY <1>1, <2>2
<1>8. ASSUME NEW c \in Range(cs)
      PROVE  \E i \in DOMAIN l : l[i].x = c
  <2>1. PICK j \in 1 .. n : cs[j] = c
    BY <1>1 DEF Range
  <2>2. PICK i \in 1 .. n : n - i + 1 = j
    <3>1. n - j + 1 \in 1 .. n /\ n - (n - j + 1) + 1 = j
      BY <1>1
    <3> QED BY <3>1
  <2>3. l[i].x = c
    BY <1>3, <1>6, <2>1, <2>2
  <2> QED BY <1>2, <2>3
<1> QED BY <1>1, <1>2, <1>5, <1>6, <1>7, <1>8

\* Loops fit on nothing.
LEMMA LoopsFit ==
  ASSUME TypeOK, Idle(Driver), NEW ops, \A i \in DOMAIN ops : ops[i].op \in Loops
  PROVE  Fits(Driver, ops)
<1>1. Driver \in Threads /\ \A k \in Loops : Driver \in MayDo(k)
  BY DEF Threads, MayDo, Alone, Loops
<1>2. \A k, l \in Loops : k \in MayWait(l) /\ k \notin {"walk", "orphan", "evict"}
  BY DEF MayWait, Alone, Loops
<1> QED BY <1>1, <1>2, FreshFit

\* No references to lists but those counted.
LEMMA NoUnrefs ==
  ASSUME NEW t \in Threads, Idle(t)
  PROVE  Unrefs(t) = {} /\ Releases(t) = {} /\ \A o, x : ~Pending(t, o, x)
BY DEF Idle, Unrefs, Releases, Pending

\* A step of one thread leaves what others have to do with lists.
LEMMA OtherUnrefs ==
  ASSUME NEW t, NEW ops, Stepped(t, ops)
  PROVE  \A u \in Threads \ {t} : Unrefs(u)' = Unrefs(u) /\ Releases(u)' = Releases(u)
BY DEF Stepped, Unrefs, Releases, Pending

\* What an idle thread has to do with lists once it has begun.
LEMMA NewUnrefs ==
  ASSUME TypeOK, NEW t \in Threads, Idle(t), NEW ops, Stepped(t, ops)
  PROVE  /\ \A f \in Frames :
              /\ f \in Unrefs(t)' <=>
                   \E i \in DOMAIN ops : ops[i].op = "unref" /\ ops[i].x = f
              /\ f \in Releases(t)' <=>
                   \E i \in DOMAIN ops : ops[i].op = "release" /\ ops[i].x = f
         /\ Unrefs(t)' \subseteq Frames /\ Releases(t)' \subseteq Frames
<1>1. \A o, x : ~Pending(t, o, x)
  BY NoUnrefs
<1>2. \A f \in Frames : Pending(t, "unref", f)' <=>
        \E i \in DOMAIN ops : ops[i].op = "unref" /\ ops[i].x = f
  BY <1>1, PendingKept
<1>3. \A f \in Frames : Pending(t, "release", f)' <=>
        \E i \in DOMAIN ops : ops[i].op = "release" /\ ops[i].x = f
  BY <1>1, PendingKept
<1> QED BY <1>2, <1>3 DEF Unrefs, Releases

\* A new frame: the caches are to be cut.
LEMMA StepStartFrame ==
  ASSUME IInv, Serialised, StartFrame
  PROVE  IInv'
<1> USE DEF IInv
<1>1. PICK ops : ops = OnCaches("cut", Limited)
  OBVIOUS
<1>2. /\ phase = "between" /\ Idle(Driver) /\ Idle(Consumer) /\ Driver \in Threads
      /\ prev_images_root' = images_root /\ images_root' = None /\ phase' = "frame"
      /\ todo' = [todo EXCEPT ![Driver] = ops]
      /\ UNCHANGED <<item, chain, queue, cache_size, got, images, frame, held>>
  BY <1>1 DEF StartFrame, DriverMayStart, caches, Threads
<1>3. ops \in Seq(Ops) /\ \A i \in DOMAIN ops : ops[i].op = "cut"
  BY <1>1, KeysAssumption, LoopsOnCaches DEF Loops
<1>4. Stepped(Driver, ops)
  BY <1>2, <1>3, PushSteps
<1>5. Fits(Driver, ops)
  BY <1>2, <1>3, LoopsFit DEF Loops
<1>6. /\ Moved({}) /\ Lists' /\ Stacks' /\ OneCustodian' /\ AllReady'
      /\ AllPlaced' /\ Distinct' /\ Walks' /\ Paths' /\ Sizes'
  <2>1. \A i \in DOMAIN ops : Ready(ops[i])'
    BY <1>3 DEF Ready, OnItems
  <2> QED BY <1>2, <1>3, <1>4, <1>5, <2>1, QuietStart DEF Custody
<1>7. /\ \A w \in Workers : Idle(w)' /\ got[w] = Nothing
      /\ Idle(Consumer)' /\ prev_images_root = None
  <2>1. \A w \in Workers \cup {Consumer} : w \in Threads \ {Driver}
    BY BoundsAssumption DEF Threads
  <2>2. \A u \in Threads \ {Driver} : Idle(u)' <=> Idle(u)
    BY <1>2, <1>3, <1>4, Started
  <2> QED BY <1>2, <2>1, <2>2 DEF Turns
<1>8. Turns'
  <2>1. \A w \in Workers : got'[w] = Nothing
    BY <1>2, <1>7
  <2>2. phase' = "frame" /\ images_root' = None
    BY <1>2
  <2> QED BY <1>7, <2>1, <2>2 DEF Turns
<1>9. Gotten'
  BY <1>2, <1>3, <1>4, <1>7, GottenKept
<1>10. Counted'
  BY <1>2, <1>3, <1>4, QuietCounted
<1>11. ListsCounted'
  <2>1. /\ Unrefs(Driver) = {} /\ Releases(Driver) = {}
        /\ Unrefs(Driver)' = {} /\ Releases(Driver)' = {}
        /\ Unrefs(Consumer)' = Unrefs(Consumer) /\ Releases(Consumer)' = Releases(Consumer)
    <3>1. Consumer \in Threads \ {Driver}
      BY BoundsAssumption DEF Threads
    <3> QED BY <1>2, <1>3, <1>4, <3>1, NoUnrefs, OtherUnrefs, NewUnrefs
  <2>2. SUFFICES ASSUME NEW f \in Frames PROVE Books(Driver, Consumer, f)'
    BY DEF ListsCounted
  <2>3. One(prev_images_root = f) = 0 /\ One(images_root' = f) = 0
        /\ One(prev_images_root' = f) = One(images_root = f)
        /\ One(f \in Unrefs(Driver)') = 0 /\ One(f \in Unrefs(Driver)) = 0
        /\ One(f \in Unrefs(Consumer)') = One(f \in Unrefs(Consumer))
    BY <1>2, <1>7, <2>1, BoundsAssumption DEF One
  <2>4. /\ held[f] \in Nat /\ One(images_root = f) \in Nat /\ One(f \in Unrefs(Consumer)) \in Nat
    BY DEF TypeOK, One
  <2>5. Books(Driver, Consumer, f)
    BY DEF ListsCounted
  <2> HIDE DEF One
  <2> QED BY <1>2, <2>1, <2>3, <2>4, <2>5 DEF Books
<1>12. TypeOK'
  BY <1>2, <1>4, <1>6, TypesKept DEF TypeOK
<1> QED BY <1>6, <1>8, <1>9, <1>10, <1>11, <1>12

\* Settings change: caches are to be emptied.
LEMMA StepFlush ==
  ASSUME IInv, Serialised, Flush
  PROVE  IInv'
<1> USE DEF IInv
<1>1. PICK cs \in Flushes : todo' = [todo EXCEPT ![Driver] = OnCaches("empty", cs)]
  BY DEF Flush
<1> PICK ops : ops = OnCaches("empty", cs)
  OBVIOUS
<1>2. /\ phase = "between" /\ Idle(Driver) /\ Idle(Consumer) /\ Driver \in Threads
      /\ todo' = [todo EXCEPT ![Driver] = ops]
      /\ UNCHANGED <<item, chain, queue, cache_size, got, images, frame, held, phase,
                     images_root, prev_images_root>>
  BY <1>1 DEF Flush, DriverMayStart, caches, lists, Threads
<1>3. ops \in Seq(Ops) /\ \A i \in DOMAIN ops : ops[i].op = "empty"
  BY KeysAssumption, LoopsOnCaches DEF Loops
<1>4. Stepped(Driver, ops)
  BY <1>2, <1>3, PushSteps
<1>5. Fits(Driver, ops)
  BY <1>2, <1>3, LoopsFit DEF Loops
<1>6. /\ Moved({}) /\ Lists' /\ Stacks' /\ OneCustodian' /\ AllReady'
      /\ AllPlaced' /\ Distinct' /\ Walks' /\ Paths' /\ Sizes'
  <2>1. \A i \in DOMAIN ops : Ready(ops[i])'
    BY <1>3 DEF Ready, OnItems
  <2> QED BY <1>2, <1>3, <1>4, <1>5, <2>1, QuietStart DEF Custody
<1>7. /\ \A w \in Workers : Idle(w)' /\ got[w] = Nothing
      /\ Idle(Consumer)' /\ prev_images_root = None /\ images = {}
  <2>1. \A w \in Workers \cup {Consumer} : w \in Threads \ {Driver}
    BY BoundsAssumption DEF Threads
  <2>2. \A u \in Threads \ {Driver} : Idle(u)' <=> Idle(u)
    BY <1>2, <1>3, <1>4, Started
  <2> QED BY <1>2, <2>1, <2>2 DEF Turns
<1>8. Turns'
  <2>1. \A w \in Workers : got'[w] = Nothing
    BY <1>2, <1>7
  <2>2. phase' = "between" /\ prev_images_root' = None /\ images' = {}
    BY <1>2, <1>7
  <2> QED BY <1>7, <2>1, <2>2 DEF Turns
<1>9. Gotten'
  BY <1>2, <1>3, <1>4, <1>7, GottenKept
<1>10. Counted'
  BY <1>2, <1>3, <1>4, QuietCounted
<1>11. ListsCounted'
  BY <1>2, <1>3, <1>4, ListsKept
<1>12. TypeOK'
  BY <1>2, <1>4, <1>6, TypesKept DEF TypeOK
<1> QED BY <1>6, <1>8, <1>9, <1>10, <1>11, <1>12

\* The font library goes: no cache has anything left.
LEMMA StepFreeLibrary ==
  ASSUME IInv, FreeLibrary
  PROVE  IInv'
<1> USE DEF IInv
<1>1. /\ phase = "closing" /\ phase' = "gone" /\ Idle(Driver) /\ Driver \in Threads
      /\ UNCHANGED <<item, chain, queue, cache_size, todo, got, images, frame, held,
                     images_root, prev_images_root>>
  BY DEF FreeLibrary, caches, lists, Threads
<1>2. Stepped(Driver, <<>>) /\ Fits(Driver, <<>>) /\ <<>> \in Seq(Ops)
      /\ \A i \in DOMAIN <<>> : FALSE
  BY <1>1, IdleSteps, Nothing_Fits
<1>3. /\ Moved({}) /\ Lists' /\ Stacks' /\ OneCustodian' /\ AllReady'
      /\ AllPlaced' /\ Distinct' /\ Walks' /\ Paths' /\ Sizes'
  BY <1>1, <1>2, QuietStart
<1>4. \A s \in Slots : ~Linked(s)
  <2>1. \A c : ~Pending(Driver, "empty", c)
    BY <1>1, NoUnrefs
  <2> QED BY <1>1, <2>1 DEF Turns
<1>5. Turns'
  <2>1. \A s \in Slots : ~Linked(s)'
    BY <1>1, <1>4 DEF Linked
  <2>2. ~Maintaining'
    BY <1>1 DEF Maintaining, Idle
  <2> QED BY <1>1, <2>1, <2>2 DEF Turns, Idle
<1>6. Gotten'
  BY <1>1 DEF Gotten, InQueue
<1>7. Counted'
  BY <1>1, <1>2, QuietCounted
<1>8. ListsCounted'
  BY <1>1, <1>2, ListsKept
<1>9. TypeOK'
  BY <1>1, <1>2, <1>3, TypesKept DEF TypeOK
<1> QED BY <1>3, <1>5, <1>6, <1>7, <1>8, <1>9

\* The consumer keeps the list it was given.
LEMMA StepRef ==
  ASSUME IInv, Ref
  PROVE  IInv'
<1> USE DEF IInv
<1>1. PICK f : f = images_root
  OBVIOUS
<1>2. /\ phase = "between" /\ Idle(Driver) /\ Driver \in Threads
      /\ f \in Frames /\ held[f] < MaxHeld
      /\ held' = [held EXCEPT ![f] = @ + 1] /\ frame' = [frame EXCEPT ![f].refs = @ + 1]
      /\ UNCHANGED <<item, chain, queue, cache_size, todo, got, images, phase,
                     images_root, prev_images_root>>
  BY <1>1 DEF Ref, caches, Threads, TypeOK
<1>3. Stepped(Driver, <<>>) /\ Fits(Driver, <<>>) /\ <<>> \in Seq(Ops)
      /\ \A i \in DOMAIN <<>> : FALSE
  BY <1>2, IdleSteps, Nothing_Fits
<1>4. /\ Moved({}) /\ Lists' /\ Stacks' /\ OneCustodian' /\ AllReady'
      /\ AllPlaced' /\ Distinct' /\ Walks' /\ Paths' /\ Sizes'
  BY <1>2, <1>3, QuietStart
<1>5. Turns' /\ Gotten'
  BY <1>2 DEF Turns, Gotten, Idle, InQueue, Maintaining, Linked, HomeOf, Pending
<1>6. /\ frame \in [Frames -> List] /\ frame[f].refs \in Nat
      /\ held \in [Frames -> 0 .. MaxHeld] /\ held[f] \in Nat /\ MaxHeld \in Nat
  BY <1>2, BoundsAssumption DEF TypeOK, List
<1>7. /\ \A g \in Frames \ {f} : frame'[g] = frame[g] /\ held'[g] = held[g]
      /\ frame'[f].refs = frame[f].refs + 1 /\ frame'[f].images = frame[f].images
      /\ held'[f] = held[f] + 1
  BY <1>2, <1>6 DEF List
<1>8. Counted'
  BY <1>2, <1>3, <1>7, QuietCounted
<1>9. ListsCounted'
  <2>1. /\ Unrefs(Driver)' = Unrefs(Driver) /\ Releases(Driver)' = Releases(Driver)
        /\ Unrefs(Consumer)' = Unrefs(Consumer) /\ Releases(Consumer)' = Releases(Consumer)
    BY <1>2 DEF Unrefs, Releases, Pending
  <2>2. \A g \in Frames : Books(Driver, Consumer, g)
    BY DEF ListsCounted
  <2>3. \A g \in Frames \ {f} : Books(Driver, Consumer, g)'
    BY <1>2, <1>7, <2>1, <2>2 DEF Books, One
  <2>4. Books(Driver, Consumer, f)'
    <3>1. /\ One(images_root = f) = 1 /\ One(images_root' = f) = 1
          /\ One(prev_images_root' = f) = One(prev_images_root = f)
          /\ One(f \in Unrefs(Driver)') = One(f \in Unrefs(Driver))
          /\ One(f \in Unrefs(Consumer)') = One(f \in Unrefs(Consumer))
      BY <1>1, <1>2, <2>1 DEF One
    <3>2. \A b : One(b) \in Nat
      BY DEF One
    <3>3. /\ One(prev_images_root = f) \in Nat /\ One(f \in Unrefs(Driver)) \in Nat
          /\ One(f \in Unrefs(Consumer)) \in Nat
      BY <3>2
    <3> HIDE DEF One
    <3>4. frame[f].refs # 0 /\ frame'[f].refs # 0
      BY <1>2, <1>6, <1>7, <2>2, <3>1, <3>3 DEF Books
    <3> QED BY <1>2, <1>6, <1>7, <2>1, <2>2, <3>1, <3>3, <3>4 DEF Books
  <2> QED BY <2>3, <2>4 DEF ListsCounted
<1>10. TypeOK'
  <2>1. frame' \in [Frames -> List]
    BY <1>2, <1>6 DEF List
  <2>2. held' \in [Frames -> 0 .. MaxHeld]
    BY <1>2, <1>6
  <2> QED BY <1>2, <1>3, <1>4, <2>1, <2>2, TypesKept DEF TypeOK
<1> QED BY <1>4, <1>5, <1>8, <1>9, <1>10

\* The driver's and the consumer's references, when one thread takes up ops.
LEMMA StepConsumerUnref ==
  ASSUME IInv, Serialised, ConsumerUnref
  PROVE  IInv'
<1> USE DEF IInv
<1>1. PICK f \in Frames : /\ held[f] > 0 /\ held' = [held EXCEPT ![f] = @ - 1]
                          /\ todo' = [todo EXCEPT ![Consumer] = UnrefOps(f)]
  BY DEF ConsumerUnref
<1> PICK ops : ops = <<Op("unref", f)>>
  OBVIOUS
<1>2. /\ Idle(Consumer) /\ Consumer \in Threads /\ Driver \in Threads \ {Consumer}
      /\ todo' = [todo EXCEPT ![Consumer] = ops]
      /\ UNCHANGED <<item, chain, queue, cache_size, got, images, frame, phase,
                     images_root, prev_images_root>>
  BY <1>1, BoundsAssumption DEF ConsumerUnref, ConsumerMayStart, UnrefOps, caches, Threads
<1>3. ~Maintaining
  BY DEF ConsumerUnref, ConsumerMayStart, Maintaining, Loops
<1>4. /\ ops \in Seq(Ops) /\ ops # <<>> /\ DOMAIN ops = {1}
      /\ ops[1].op = "unref" /\ ops[1].x = f
  BY OpTypes
<1>5. Stepped(Consumer, ops)
  BY <1>2, <1>4, PushSteps
<1>6. Fits(Consumer, ops)
  <2>1. Consumer \in MayDo("unref")
    BY DEF MayDo, Alone, Loops
  <2>2. \A i, j \in DOMAIN ops : i = 1 /\ j = 1 /\ ~(i < j)
    BY <1>4
  <2> QED BY <1>2, <1>4, <2>1, <2>2, FreshFit
<1>7. /\ Moved({}) /\ Lists' /\ Stacks' /\ OneCustodian' /\ AllReady'
      /\ AllPlaced' /\ Distinct' /\ Walks' /\ Paths' /\ Sizes'
  <2>1. Ready(ops[1])'
    BY <1>4 DEF Ready, OnItems
  <2> QED BY <1>2, <1>3, <1>4, <1>5, <1>6, <2>1, QuietStart DEF Custody
<1>8. Turns'
  <2>1. /\ \A u \in Threads \ {Consumer} : Idle(u)' <=> Idle(u)
        /\ ~Maintaining'
        /\ \A s : (Linked(s)' <=> Linked(s)) /\ HomeOf(s)' = HomeOf(s)
        /\ \A c : Pending(Driver, "empty", c) => Pending(Driver, "empty", c)'
    BY <1>2, <1>3, <1>4, <1>5, Started
  <2>2. \A w \in Workers : w \in Threads \ {Consumer}
    BY BoundsAssumption DEF Threads
  <2>3. /\ \A w \in Workers : Idle(w)' <=> Idle(w)
        /\ Idle(Driver)' <=> Idle(Driver)
    BY <1>2, <2>1, <2>2
  <2>4. \A s \in Slots : Linked(s)' /\ (Linked(s) => Pending(Driver, "empty", HomeOf(s)))
          => Pending(Driver, "empty", HomeOf(s))'
    <3>1. SUFFICES ASSUME NEW s \in Slots, Linked(s), NEW c, c = HomeOf(s),
                          Pending(Driver, "empty", c)
                   PROVE  Pending(Driver, "empty", HomeOf(s))'
      BY <2>1
    <3>2. Pending(Driver, "empty", c)' /\ HomeOf(s)' = c
      BY <2>1, <3>1
    <3> QED BY <3>2
  <2>5. \A s \in Slots : ~Linked(s) => ~Linked(s)'
    BY <2>1
  <2> HIDE DEF Idle, Linked, Pending, HomeOf
  <2> QED BY <1>2, <2>1, <2>3, <2>4, <2>5 DEF Turns
<1>9. Gotten'
  <2>1. \A v \in Workers : \A l \in Keys : \A s \in Slots :
          got[v][l] = s => InQueue(s)' /\ item'[s].key = l
    BY <1>2, BoundsAssumption DEF Gotten, InQueue
  <2> QED BY <1>2, <1>4, <1>5, <2>1, GottenKept
<1>10. Counted'
  BY <1>2, <1>4, <1>5, QuietCounted
<1>11. /\ held \in [Frames -> 0 .. MaxHeld] /\ held[f] \in Nat /\ MaxHeld \in Nat
       /\ \A g \in Frames \ {f} : held'[g] = held[g]
       /\ held'[f] = held[f] - 1 /\ held[f] \in 0 .. MaxHeld
  BY <1>1, BoundsAssumption DEF TypeOK
<1>12. TypeOK'
  <2>1. held[f] - 1 \in 0 .. MaxHeld
    BY <1>1, <1>11
  <2>2. held' \in [Frames -> 0 .. MaxHeld]
    BY <1>1, <1>11, <2>1
  <2> QED BY <1>2, <1>5, <1>7, <2>2, TypesKept DEF TypeOK
<1>13. ListsCounted'
  <2>1. /\ Unrefs(Consumer) = {} /\ Releases(Consumer) = {}
        /\ Unrefs(Consumer)' = {f} /\ Releases(Consumer)' = {}
        /\ Unrefs(Driver)' = Unrefs(Driver) /\ Releases(Driver)' = Releases(Driver)
    BY <1>2, <1>4, <1>5, NoUnrefs, OtherUnrefs, NewUnrefs
  <2>2. \A g \in Frames : Books(Driver, Consumer, g)
    BY DEF ListsCounted
  <2>3. \A g \in Frames \ {f} : Books(Driver, Consumer, g)'
    BY <1>2, <1>11, <2>1, <2>2 DEF Books, One
  <2>4. Books(Driver, Consumer, f)'
    <3>1. /\ One(images_root' = f) = One(images_root = f)
          /\ One(prev_images_root' = f) = One(prev_images_root = f)
          /\ One(f \in Unrefs(Driver)') = One(f \in Unrefs(Driver))
          /\ One(f \in Unrefs(Consumer)') = 1 /\ One(f \in Unrefs(Consumer)) = 0
      BY <1>2, <2>1 DEF One
    <3>2. \A b : One(b) \in Nat
      BY DEF One
    <3>3. /\ One(prev_images_root = f) \in Nat /\ One(f \in Unrefs(Driver)) \in Nat
          /\ One(images_root = f) \in Nat
      BY <3>2
    <3> HIDE DEF One
    <3>4. held'[f] + 1 = held[f] /\ held'[f] \in Nat
      BY <1>1, <1>11
    <3> QED BY <1>2, <1>11, <2>1, <2>2, <3>1, <3>3, <3>4 DEF Books
  <2> QED BY <2>3, <2>4 DEF ListsCounted
<1> QED BY <1>7, <1>8, <1>9, <1>10, <1>12, <1>13

\* What a renderer does at its end.
LEMMA StepClose ==
  ASSUME IInv, Serialised, Close
  PROVE  IInv'
<1> USE DEF IInv
<1>0. PICK a : a = OnCaches("empty", Teardown)
  OBVIOUS
<1>1. PICK z : z = UnrefOps(images_root)
  OBVIOUS
<1>y. PICK ops : ops = a \o z
  OBVIOUS
<1>2. /\ phase = "between" /\ Idle(Driver) /\ Idle(Consumer) /\ Driver \in Threads
      /\ todo' = [todo EXCEPT ![Driver] = ops]
      /\ images_root' = None /\ phase' = "closing"
      /\ UNCHANGED <<item, chain, queue, cache_size, got, images, frame, held,
                     prev_images_root>>
  BY <1>0, <1>1, <1>y DEF Close, DriverMayStart, caches, Threads
<1>3. /\ a \in Seq(Ops) /\ DOMAIN a = 1 .. Len(a) /\ Len(a) \in Nat
      /\ \A i \in DOMAIN a : a[i].op = "empty"
      /\ \A c \in Caches : \E i \in DOMAIN a : a[i].x = c
  <2>1. "empty" \in Loops /\ Teardown \in Seq(Caches) /\ Caches = Range(Teardown)
    BY KeysAssumption DEF Loops, Caches
  <2>2. \A c \in Range(Teardown) : \E i \in DOMAIN a : a[i].x = c
    BY <1>0, <2>1, LoopsOnCaches
  <2>3. /\ a \in Seq(Ops) /\ DOMAIN a = 1 .. Len(a) /\ Len(a) \in Nat
        /\ \A i \in DOMAIN a : a[i].op = "empty"
    BY <1>0, <2>1, LoopsOnCaches
  <2> QED BY <2>1, <2>2, <2>3
<1>4. /\ z \in Seq(Ops) /\ DOMAIN z = IF images_root = None THEN {} ELSE {1}
      /\ Len(z) = IF images_root = None THEN 0 ELSE 1
      /\ images_root # None => z[1].op = "unref" /\ z[1].x = images_root
  <2>1. images_root # None => images_root \in Frames
    BY DEF TypeOK
  <2> QED BY <1>1, <2>1, OpTypes DEF UnrefOps
<1>5. /\ ops \in Seq(Ops) /\ DOMAIN ops = 1 .. Len(a) + Len(z)
      /\ \A i \in 1 .. Len(a) + Len(z) : ops[i] = IF i <= Len(a) THEN a[i] ELSE z[i - Len(a)]
  <2>1. /\ ops \in Seq(Ops) /\ Len(ops) = Len(a) + Len(z)
        /\ \A i \in 1 .. Len(a) + Len(z) :
             ops[i] = IF i <= Len(a) THEN a[i] ELSE z[i - Len(a)]
    <3>1. /\ a \o z \in Seq(Ops) /\ Len(a \o z) = Len(a) + Len(z)
          /\ \A i \in 1 .. Len(a) + Len(z) :
               (a \o z)[i] = IF i <= Len(a) THEN a[i] ELSE z[i - Len(a)]
      BY <1>3, <1>4, ConcatProperties
    <3> QED BY <1>y, <3>1
  <2>2. DOMAIN ops = 1 .. Len(ops)
    BY <2>1
  <2> QED BY <2>1, <2>2
<1>6. /\ \A i \in DOMAIN a : i \in DOMAIN ops /\ ops[i] = a[i]
      /\ \A i \in DOMAIN ops : \/ i \in DOMAIN a /\ ops[i] = a[i]
                               \/ /\ images_root # None /\ i = Len(a) + 1
                                  /\ ops[i] = z[1]
      /\ images_root # None => Len(a) + 1 \in DOMAIN ops /\ ops[Len(a) + 1] = z[1]
  <2>1. Len(z) \in Nat
    BY <1>4
  <2>2. \A i \in DOMAIN a : i \in DOMAIN ops /\ ops[i] = a[i]
    BY <1>3, <1>5, <2>1
  <2>3. ASSUME NEW i \in DOMAIN ops, i \notin DOMAIN a
        PROVE  images_root # None /\ i = Len(a) + 1 /\ ops[i] = z[1]
    <3>1. images_root # None /\ Len(z) = 1
      BY <1>3, <1>4, <1>5, <2>3
    <3>2. i = Len(a) + 1 /\ i - Len(a) = 1 /\ ~(i <= Len(a))
      BY <1>3, <1>5, <2>3, <3>1
    <3> QED BY <1>5, <3>1, <3>2
  <2>4. ASSUME images_root # None
        PROVE  Len(a) + 1 \in DOMAIN ops /\ ops[Len(a) + 1] = z[1]
    <3>1. Len(z) = 1
      BY <1>4, <2>4
    <3>2. Len(a) + 1 \in 1 .. Len(a) + Len(z) /\ ~(Len(a) + 1 <= Len(a))
          /\ Len(a) + 1 - Len(a) = 1
      BY <1>3, <3>1
    <3> QED BY <1>5, <3>2
  <2> QED BY <2>2, <2>3, <2>4
<1>7. /\ \A i \in DOMAIN ops : ops[i].op \in {"empty", "unref"}
      /\ \A i \in DOMAIN ops : ops[i].op = "unref" => i = Len(a) + 1 /\ ops[i].x = images_root
  BY <1>3, <1>4, <1>6
<1>8. Stepped(Driver, ops)
  BY <1>2, <1>5, PushSteps
<1>9. Fits(Driver, ops)
  <2>1. Driver \in MayDo("unref") /\ Driver \in MayDo("empty")
    BY DEF MayDo, Alone, Loops
  <2>2. \A i, j \in DOMAIN ops : i < j => ops[i].op = "empty"
    <3>1. \A i, j \in DOMAIN ops : i < j => i <= Len(a)
      BY <1>3, <1>5, <1>6
    <3>2. \A i \in DOMAIN ops : i <= Len(a) => i # Len(a) + 1
      BY <1>3, <1>5
    <3> QED BY <1>7, <3>1, <3>2
  <2>3. "empty" \in MayWait("unref") /\ "empty" \in MayWait("empty")
    BY DEF MayWait, Alone, Loops, Steps
  <2>4. \A i \in DOMAIN ops : /\ Driver \in MayDo(ops[i].op)
                              /\ ops[i].op \notin {"walk", "orphan", "evict"}
    BY <1>7, <2>1
  <2>5. \A i, j \in DOMAIN ops : i < j => ops[i].op \in MayWait(ops[j].op)
    BY <1>7, <2>2, <2>3
  <2> QED BY <1>2, <2>4, <2>5, FreshFit
<1>10. /\ Moved({}) /\ Lists' /\ Stacks' /\ OneCustodian' /\ AllReady'
       /\ AllPlaced' /\ Distinct' /\ Walks' /\ Paths' /\ Sizes'
  <2>1. \A i \in DOMAIN ops : Ready(ops[i])'
    BY <1>7 DEF Ready, OnItems
  <2>2. \A i \in DOMAIN ops : ops[i].op \notin Custody \cup {"walk"}
    BY <1>7 DEF Custody
  <2> QED BY <1>2, <1>5, <1>8, <1>9, <2>1, <2>2, QuietStart
<1>11. /\ \A w \in Workers : Idle(w)' /\ got[w] = Nothing
       /\ Idle(Consumer)' /\ prev_images_root = None /\ images = {}
  <2>1. \A w \in Workers \cup {Consumer} : w \in Threads \ {Driver}
    BY BoundsAssumption DEF Threads
  <2>2. \A u \in Threads \ {Driver} : Idle(u)' <=> Idle(u)
    BY <1>2, <1>5, <1>8, Started
  <2> QED BY <1>2, <2>1, <2>2 DEF Turns
<1>12. Turns'
  <2>1. \A w \in Workers : got'[w] = Nothing
    BY <1>2, <1>11
  <2>2. phase' = "closing" /\ prev_images_root' = None /\ images' = {} /\ images_root' = None
    BY <1>2, <1>11
  <2>3. ASSUME NEW s \in Slots, Linked(s)' PROVE Pending(Driver, "empty", HomeOf(s))'
    <3>1. Linked(s) /\ HomeOf(s)' = HomeOf(s)
      BY <1>2, <1>5, <1>8, <2>3, Started
    <3>2. HomeOf(s) \in Caches
      BY <3>1, ListElements
    <3>3. PICK i \in DOMAIN ops : ops[i].op = "empty" /\ ops[i].x = HomeOf(s)
      BY <1>3, <1>6, <3>2
    <3>4. PICK c : c = HomeOf(s)
      OBVIOUS
    <3>5. Pending(Driver, "empty", c)'
      BY <1>2, <1>5, <1>8, <3>3, <3>4, Started
    <3>6. HomeOf(s)' = c
      BY <3>1, <3>4
    <3> QED BY <3>5, <3>6
  <2> QED BY <1>11, <2>1, <2>2, <2>3 DEF Turns
<1>13. Gotten'
  BY <1>2, <1>7, <1>8, <1>11, GottenKept
<1>14. Counted'
  BY <1>2, <1>7, <1>8, QuietCounted
<1>15. ListsCounted'
  <2>1. /\ Unrefs(Driver) = {} /\ Releases(Driver) = {}
        /\ \A f \in Frames : f \in Unrefs(Driver)' <=> f = images_root
        /\ Releases(Driver)' = {}
        /\ Unrefs(Consumer)' = Unrefs(Consumer) /\ Releases(Consumer)' = Releases(Consumer)
    <3>1. Consumer \in Threads \ {Driver}
      BY BoundsAssumption DEF Threads
    <3>2. Unrefs(Consumer)' = Unrefs(Consumer) /\ Releases(Consumer)' = Releases(Consumer)
      BY <1>8, <3>1, OtherUnrefs
    <3>3. Unrefs(Driver) = {} /\ Releases(Driver) = {}
      BY <1>2, NoUnrefs
    <3>4. \A f \in Frames : (\E i \in DOMAIN ops : ops[i].op = "unref" /\ ops[i].x = f)
                              <=> f = images_root
      <4>1. \A f \in Frames : f # None
        BY BoundsAssumption
      <4> QED BY <1>4, <1>6, <1>7, <4>1
    <3>5. \A f \in Frames : f \in Unrefs(Driver)' <=> f = images_root
      BY <1>2, <1>8, <3>4, NewUnrefs
    <3>6. Releases(Driver)' = {}
      <4>1. \A i \in DOMAIN ops : ops[i].op # "release"
        BY <1>7
      <4>2. \A f \in Frames : f \notin Releases(Driver)'
        BY <1>2, <1>8, <4>1, NewUnrefs
      <4>3. Releases(Driver)' \subseteq Frames
        BY <1>2, <1>8, NewUnrefs
      <4> QED BY <4>2, <4>3
    <3> QED BY <3>2, <3>3, <3>5, <3>6
  <2>2. SUFFICES ASSUME NEW f \in Frames PROVE Books(Driver, Consumer, f)'
    BY DEF ListsCounted
  <2>3. One(images_root' = f) = 0
        /\ One(prev_images_root' = f) = One(prev_images_root = f)
        /\ One(f \in Unrefs(Driver)') = One(images_root = f) /\ One(f \in Unrefs(Driver)) = 0
        /\ One(f \in Unrefs(Consumer)') = One(f \in Unrefs(Consumer))
    BY <1>2, <2>1, BoundsAssumption DEF One
  <2>4. /\ held[f] \in Nat /\ One(images_root = f) \in Nat /\ One(f \in Unrefs(Consumer)) \in Nat
        /\ One(prev_images_root = f) \in Nat
    BY DEF TypeOK, One
  <2>5. Books(Driver, Consumer, f)
    BY DEF ListsCounted
  <2>6. /\ One(prev_images_root = f) = 0
        /\ frame' = frame /\ held' = held
    BY <1>2, <1>11, BoundsAssumption DEF One
  <2>7. /\ Releases(Driver) = {} /\ Releases(Driver)' = {}
        /\ Releases(Consumer)' = Releases(Consumer)
    BY <2>1
  <2> HIDE DEF One
  <2>8. frame'[f].refs = held'[f] + One(images_root' = f) + One(prev_images_root' = f)
          + One(f \in Unrefs(Driver)') + One(f \in Unrefs(Consumer)')
    BY <2>3, <2>4, <2>5, <2>6 DEF Books
  <2> QED BY <2>5, <2>6, <2>7, <2>8 DEF Books
<1>16. TypeOK'
  BY <1>2, <1>8, <1>10, TypesKept DEF TypeOK
<1> QED BY <1>10, <1>12, <1>13, <1>14, <1>15, <1>16

\* As many pairs with f as there are elements.
LEMMA Paired ==
  ASSUME NEW A, IsFiniteSet(A), NEW f
  PROVE  IsFiniteSet({f} \X A) /\ Cardinality({f} \X A) = Cardinality(A)
<1>1. IsFiniteSet({f}) /\ Cardinality({f}) = 1
  BY FS_Singleton
<1>2. IsFiniteSet({f} \X A) /\ Cardinality({f} \X A) = Cardinality({f}) * Cardinality(A)
  BY <1>1, FS_Product
<1>3. Cardinality(A) \in Nat
  BY FS_CardinalityType
<1>4. \A n \in Nat : 1 * n = n
  OBVIOUS
<1> QED BY <1>1, <1>2, <1>3, <1>4

\* The images of the frame become a list.
LEMMA ImagesListed ==
  ASSUME TypeOK, TypeOK', Counted, UNCHANGED <<item, queue>>, images' = {},
         NEW f, f \in Frames \/ images = {},
         f \in Frames => frame[f].images = {},
         \A g \in Frames : frame'[g].images = IF g = f THEN images ELSE frame[g].images,
         \A r : DecRefs(r)' = DecRefs(r)
  PROVE  Counted'
<1> SUFFICES ASSUME NEW r \in Slots PROVE item'[r].ref_count = Refs(r)'
  BY DEF Counted
<1>1. ImageRefs(r)' = {} /\ KeyRefs(r)' = KeyRefs(r) /\ (InQueue(r)' <=> InQueue(r))
  BY DEF ImageRefs, KeyRefs, InQueue
<1>2. PICK P : P = {f} \X ImageRefs(r)
  OBVIOUS
<1>3. IsFiniteSet(P) /\ Cardinality(P) = Cardinality(ImageRefs(r))
  BY <1>2, RefSets, Paired
<1>4. ListRefs(r)' = ListRefs(r) \cup P
  <2>1. images \in SUBSET Image
    BY DEF TypeOK
  <2>2. CASE f \in Frames
    BY <1>2, <2>1, <2>2 DEF ListRefs, ImageRefs
  <2>3. CASE f \notin Frames
    <3>1. P = {}
      BY <1>2, <2>3 DEF ImageRefs
    <3>2. ListRefs(r)' = ListRefs(r)
      BY <2>3 DEF ListRefs
    <3> QED BY <3>1, <3>2
  <2> QED BY <2>2, <2>3
<1>5. ListRefs(r) \cap P = {}
  BY <1>2 DEF ListRefs, ImageRefs
<1>6. Cardinality(ListRefs(r)') = Cardinality(ListRefs(r)) + Cardinality(ImageRefs(r))
  <2>1. Cardinality(ListRefs(r) \cap P) = 0
    BY <1>5, FS_EmptySet
  <2>2. Cardinality(ListRefs(r) \cup P)
          = Cardinality(ListRefs(r)) + Cardinality(P) - Cardinality(ListRefs(r) \cap P)
    BY <1>3, RefSets, FS_Union
  <2> QED BY <1>3, <1>4, <2>1, <2>2, RefSets
<1>7. Cardinality(ImageRefs(r)') = 0
  BY <1>1, FS_EmptySet
<1> DEFINE q == IF InQueue(r) THEN 1 ELSE 0
<1>8. q \in Nat /\ (IF InQueue(r)' THEN 1 ELSE 0) = q
  BY <1>1
<1>9. item[r].ref_count = q + Cardinality(ImageRefs(r)) + Cardinality(ListRefs(r))
                            + Cardinality(KeyRefs(r)) + Cardinality(DecRefs(r))
  BY DEF Counted, Refs
<1>10. Refs(r)' = q + Cardinality(ImageRefs(r)') + Cardinality(ListRefs(r)')
                    + Cardinality(KeyRefs(r)') + Cardinality(DecRefs(r)')
  BY <1>8 DEF Refs
<1>11. /\ Cardinality(KeyRefs(r)') = Cardinality(KeyRefs(r))
       /\ Cardinality(DecRefs(r)') = Cardinality(DecRefs(r))
  BY <1>1
<1> HIDE DEF q
<1> QED BY <1>6, <1>7, <1>8, <1>9, <1>10, <1>11, RefSets

\* The end of a frame.
LEMMA StepEndFrame ==
  ASSUME IInv, EndFrame
  PROVE  IInv'
<1> USE DEF IInv
<1>1. PICK ops : ops = UnrefOps(prev_images_root)
  OBVIOUS
<1>2. /\ phase = "frame" /\ Idle(Driver) /\ Driver \in Threads
      /\ \A w \in Workers : Idle(w)
      /\ images' = {} /\ got' = [w \in Workers |-> Nothing]
      /\ todo' = [todo EXCEPT ![Driver] = ops]
      /\ prev_images_root' = None /\ phase' = "between"
      /\ UNCHANGED <<item, chain, queue, cache_size, held>>
  BY <1>1 DEF EndFrame, caches, Threads
<1>3. PICK f : f = images_root'
  OBVIOUS
<1>4. \/ f = None /\ images = {} /\ frame' = frame
      \/ /\ f \in Frames /\ Unused(f)
         /\ frame' = [frame EXCEPT ![f] = [refs |-> 1, images |-> images]]
  BY <1>3 DEF EndFrame
<1>5. frame \in [Frames -> List] /\ images \in SUBSET Image
  BY DEF TypeOK
<1>6. /\ \A g \in Frames : g # f => frame'[g] = frame[g]
      /\ f \in Frames => /\ frame[f].refs = 0 /\ frame[f].images = {}
                         /\ frame'[f].refs = 1 /\ frame'[f].images = images
      /\ f \in Frames \/ f = None
      /\ frame' \in [Frames -> List]
  BY <1>4, <1>5, BoundsAssumption DEF Unused, NoList, List
<1>7. /\ ops \in Seq(Ops) /\ DOMAIN ops = IF prev_images_root = None THEN {} ELSE {1}
      /\ prev_images_root # None => ops[1].op = "unref" /\ ops[1].x = prev_images_root
  <2>1. prev_images_root # None => prev_images_root \in Frames
    BY DEF TypeOK
  <2> QED BY <1>1, <2>1, OpTypes DEF UnrefOps
<1>8. \A i \in DOMAIN ops : i = 1 /\ ops[i].op = "unref"
  BY <1>7
<1>9. Stepped(Driver, ops)
  BY <1>2, <1>7, PushSteps
<1>10. Fits(Driver, ops)
  <2>1. Driver \in MayDo("unref")
    BY DEF MayDo, Alone, Loops
  <2>2. \A i, j \in DOMAIN ops : i = 1 /\ j = 1 /\ ~(i < j)
    BY <1>8
  <2> QED BY <1>2, <1>8, <2>1, <2>2, FreshFit
<1>11. /\ Moved({}) /\ Lists' /\ Stacks' /\ OneCustodian' /\ AllReady'
       /\ AllPlaced' /\ Distinct' /\ Walks' /\ Paths' /\ Sizes'
  <2>1. \A i \in DOMAIN ops : Ready(ops[i])'
    BY <1>8 DEF Ready, OnItems
  <2> QED BY <1>2, <1>7, <1>8, <1>9, <1>10, <2>1, QuietStart DEF Custody
<1>12. TypeOK'
  <2>1. got' \in [Workers -> [Keys -> Slots \cup {None}]]
    BY <1>2 DEF Nothing
  <2> QED BY <1>2, <1>3, <1>6, <1>9, <1>11, <2>1, TypesKept DEF TypeOK
<1>13. Turns'
  <2>1. /\ \A w \in Workers : Idle(w)' /\ got'[w] = Nothing
        /\ ~Maintaining'
    <3>1. \A u \in Threads \ {Driver} : Idle(u)' <=> Idle(u)
      BY <1>2, <1>7, <1>9, Started
    <3>2. \A w \in Workers : w \in Threads \ {Driver}
      BY BoundsAssumption DEF Threads
    <3>3. ~Maintaining /\ \A i \in DOMAIN ops : ops[i].op \notin Loops
      BY <1>2, <1>8 DEF Maintaining, Idle, Loops
    <3>4. ~Maintaining'
      BY <1>2, <1>7, <1>9, <3>3, Started
    <3> QED BY <1>2, <3>1, <3>2, <3>4
  <2>2. phase' = "between" /\ prev_images_root' = None /\ images' = {}
    BY <1>2
  <2> QED BY <2>1, <2>2 DEF Turns
<1>14. Gotten'
  <2>1. \A w \in Workers : \A k \in Keys : got'[w][k] = None
    BY <1>2 DEF Nothing
  <2>2. \A w \in Workers : \A i \in DOMAIN todo'[w] : FALSE
    <3>1. \A w \in Workers : w \in Threads \ {Driver}
      BY BoundsAssumption DEF Threads
    <3> QED BY <1>2, <1>9, <3>1 DEF Stepped, Idle
  <2> QED BY <2>1, <2>2 DEF Gotten
<1>15. Counted'
  <2>1. \A r : DecRefs(r)' = DecRefs(r)
    <3>1. \A r : Driver \notin DecRefs(r)
      BY <1>2, <1>9, DecsKept
    <3>2. Len(ops) = 0 \/ ops[Len(ops)].op # "dec"
      <4>1. Len(ops) \in Nat /\ DOMAIN ops = 1 .. Len(ops)
        BY <1>7
      <4> QED BY <1>8, <4>1
    <3>3. \A r : DecRefs(r)' = DecRefs(r) \ {Driver}
      BY <1>2, <1>9, <3>2, DecsKept
    <3> QED BY <3>1, <3>3
  <2>2. /\ UNCHANGED <<item, queue>> /\ images' = {}
        /\ f \in Frames \/ images = {}
        /\ f \in Frames => frame[f].images = {}
    BY <1>2, <1>4, <1>6
  <2>3. \A g \in Frames :
          frame'[g].images = IF g = f THEN images ELSE frame[g].images
    BY <1>6
  <2> QED BY <1>12, <2>1, <2>2, <2>3, ImagesListed
<1>16. ListsCounted'
  <2>1. /\ Unrefs(Driver) = {} /\ Releases(Driver) = {}
        /\ \A g \in Frames : g \in Unrefs(Driver)' <=> g = prev_images_root
        /\ Releases(Driver)' = {}
        /\ Unrefs(Consumer)' = Unrefs(Consumer) /\ Releases(Consumer)' = Releases(Consumer)
    <3>1. Consumer \in Threads \ {Driver}
      BY BoundsAssumption DEF Threads
    <3>2. Unrefs(Consumer)' = Unrefs(Consumer) /\ Releases(Consumer)' = Releases(Consumer)
      BY <1>9, <3>1, OtherUnrefs
    <3>3. Unrefs(Driver) = {} /\ Releases(Driver) = {}
      BY <1>2, NoUnrefs
    <3>4. \A g \in Frames : (\E i \in DOMAIN ops : ops[i].op = "unref" /\ ops[i].x = g)
                              <=> g = prev_images_root
      <4>1. \A g \in Frames : g # None
        BY BoundsAssumption
      <4> QED BY <1>7, <4>1
    <3>5. \A g \in Frames : g \in Unrefs(Driver)' <=> g = prev_images_root
      BY <1>2, <1>9, <3>4, NewUnrefs
    <3>6. Releases(Driver)' = {}
      <4>1. \A i \in DOMAIN ops : ops[i].op # "release"
        BY <1>8
      <4>2. \A g \in Frames : g \notin Releases(Driver)'
        BY <1>2, <1>9, <4>1, NewUnrefs
      <4>3. Releases(Driver)' \subseteq Frames
        BY <1>2, <1>9, NewUnrefs
      <4> QED BY <4>2, <4>3
    <3> QED BY <3>2, <3>3, <3>5, <3>6
  <2>2. SUFFICES ASSUME NEW g \in Frames PROVE Books(Driver, Consumer, g)'
    BY DEF ListsCounted
  <2>3. Books(Driver, Consumer, g)
    BY DEF ListsCounted
  <2>4. images_root = None
    BY <1>2 DEF Turns
  <2>5. /\ One(images_root = g) = 0 /\ One(images_root' = g) = One(f = g)
        /\ One(prev_images_root' = g) = 0
        /\ One(g \in Unrefs(Driver)') = One(prev_images_root = g)
        /\ One(g \in Unrefs(Driver)) = 0
        /\ One(g \in Unrefs(Consumer)') = One(g \in Unrefs(Consumer))
    BY <1>2, <1>3, <2>1, <2>4, BoundsAssumption DEF One
  <2>6. /\ held[g] \in Nat /\ held'[g] = held[g]
        /\ One(prev_images_root = g) \in Nat /\ One(g \in Unrefs(Consumer)) \in Nat
        /\ frame[g].refs \in Nat
    BY <1>2, <1>5 DEF TypeOK, One, List
  <2>7. One(f = g) = IF f = g THEN 1 ELSE 0
    BY DEF One
  <2> HIDE DEF One
  <2>8. frame[g].refs = held[g] + One(prev_images_root = g) + One(g \in Unrefs(Consumer))
    BY <2>3, <2>5, <2>6 DEF Books
  <2>9. frame'[g].refs = held'[g] + One(images_root' = g) + One(prev_images_root' = g)
          + One(g \in Unrefs(Driver)') + One(g \in Unrefs(Consumer)')
    <3>1. frame'[g].refs = frame[g].refs + One(f = g)
      BY <1>6, <2>6, <2>7
    <3> QED BY <2>5, <2>6, <2>7, <2>8, <3>1
  <2>10. CASE g # f
    BY <1>6, <2>1, <2>3, <2>9, <2>10 DEF Books
  <2>11. CASE g = f
    <3>1. Unused(f) /\ Consumer \in Threads
      BY <1>4, <2>11, BoundsAssumption DEF Threads
    <3>2. f \notin Releases(Consumer)
      BY <3>1 DEF Unused, Releases
    <3>3. frame'[g].refs = 1
      BY <1>6, <2>11
    <3> QED BY <2>1, <2>9, <2>11, <3>2, <3>3 DEF Books
  <2> QED BY <2>10, <2>11
<1> QED BY <1>11, <1>12, <1>13, <1>14, <1>15, <1>16

-----------------------------------------------------------------------------
(* Steps that change items, but neither a chain nor a queue                *)

\* What does not depend on counts and on custody.
LEMMA Undisturbed ==
  ASSUME IInv, NEW t \in Threads, NEW ops, Stepped(t, ops), Fits(t, ops), ~Idle(t),
         NEW S, Moved(S), t # Driver => ~Maintaining,
         \A r \in S \cap Slots :
           /\ (Linked(r)' <=> Linked(r)) /\ (InQueue(r)' <=> InQueue(r))
           /\ Linked(r) => item'[r].key = item[r].key /\ item'[r].uses = item[r].uses,
         Last(todo[t]).op \notin {"empty", "unref", "release"},
         \A i \in DOMAIN ops :
           ops[i].op \notin Loops \cup {"walk", "lookup", "build", "unref", "release"},
         UNCHANGED <<cache_size, got, lists, phase>>
  PROVE  /\ TypeOK' /\ Lists' /\ Stacks' /\ Distinct' /\ Sizes' /\ Walks'
         /\ Gotten' /\ ListsCounted' /\ Turns' /\ KeysStay
<1> USE DEF IInv
<1>1. /\ UNCHANGED <<images, frame, images_root, prev_images_root, held>>
      /\ Driver \in Threads
  BY DEF lists, Threads
<1>2. TypeOK' /\ Lists'
  BY <1>1, TypesKept DEF TypeOK, Moved
<1>3. Stacks'
  BY StacksKept
<1>4. KeysStay /\ \A r \in Slots : (Linked(r)' <=> Linked(r)) /\ (InQueue(r)' <=> InQueue(r))
  <2>1. \A r \in Slots \ S : /\ item'[r] = item[r] /\ (Linked(r)' <=> Linked(r))
                             /\ (InQueue(r)' <=> InQueue(r))
    BY SameView DEF Moved
  <2> HIDE DEF Linked, InQueue
  <2> QED BY <2>1 DEF KeysStay
<1>5. Distinct'
  BY DistinctKept
<1>6. \A c \in Caches : Pending(Driver, "empty", c) => Pending(Driver, "empty", c)'
  BY <1>1, PendingKept
<1>7. Sizes'
  BY <1>6, SizesKept
<1>8. Walks'
  BY <1>4, WalksKept
<1>9. Gotten'
  <2>1. \A w \in Workers : \A k \in Keys : \A s \in Slots :
          got[w][k] = s => InQueue(s)' /\ item'[s].key = k
    <3>1. \A w \in Workers : \A k \in Keys : \A s \in Slots :
            got[w][k] = s => InQueue(s) /\ item[s].key = k
      BY BoundsAssumption DEF Gotten
    <3>2. \A s \in Slots : InQueue(s) => Linked(s)
      BY ListElements
    <3> HIDE DEF Linked, InQueue
    <3> QED BY <1>4, <3>1, <3>2 DEF KeysStay
  <2> QED BY <2>1, GottenKept
<1>10. ListsCounted'
  BY <1>1, ListsKept
<1>11. Turns'
  <2>1. \A r \in Slots : Linked(r)' => Linked(r) /\ HomeOf(r)' = HomeOf(r)
    <3> HIDE DEF Linked
    <3> QED BY <1>4 DEF KeysStay, HomeOf
  <2>2. \A i \in DOMAIN ops : ops[i].op \notin Loops
    OBVIOUS
  <2> QED BY <1>1, <2>1, <2>2, TurnsKept
<1> QED BY <1>2, <1>3, <1>4, <1>5, <1>7, <1>8, <1>9, <1>10, <1>11

\* What is on top is not in the way of the items that are walked below.
LEMMA TopOff ==
  ASSUME TypeOK, Stacks, Paths, ~Idle(Driver), NEW n \in Slots,
         Stays(Driver, Op("walk", n))
  PROVE  Off(Last(todo[Driver]), n)
<1>0. PICK u \in Threads : \E j \in DOMAIN todo[u] :
        Kept(Driver, u, j) /\ todo[u][j] = Op("walk", n)
  BY DEF Stays
<1>1. PICK j \in DOMAIN todo[u] : Kept(Driver, u, j) /\ todo[u][j] = Op("walk", n)
  BY <1>0
<1>2. Op("walk", n).op = "walk" /\ Op("walk", n).x = n /\ Driver \in Threads
  BY DEF Op, Threads
<1>3. u = Driver
  <2>1. u \in MayDo("walk")
    BY <1>1, <1>2 DEF Stacks
  <2> QED BY <2>1 DEF MayDo, Alone
<1>4. /\ Rest(Driver) \in Nat /\ Rest(Driver) + 1 \in DOMAIN todo[Driver]
      /\ todo[Driver][Rest(Driver) + 1] = Last(todo[Driver])
      /\ j \in Nat /\ j <= Rest(Driver)
  BY <1>1, <1>2, <1>3, Top DEF Kept
<1>5. n # None
  BY BoundsAssumption
<1> QED BY <1>1, <1>2, <1>3, <1>4, <1>5 DEF Paths

\* Nobody else has in custody what a thread is about to destroy or publish.
LEMMA SoleCustodian ==
  ASSUME TypeOK, OneCustodian, NEW t \in Threads, ~Idle(t), NEW s \in Slots,
         Last(todo[t]).op \in Custody, Last(todo[t]).x = s
  PROVE  /\ \A u \in Threads : \A j \in DOMAIN todo[u] : Kept(t, u, j) => ~InCustody(s, u, j)
         /\ \A o : Stays(t, o) /\ o.op \in Custody => o.x # s
<1>1. /\ Rest(t) + 1 \in DOMAIN todo[t] /\ todo[t][Rest(t) + 1] = Last(todo[t])
      /\ Rest(t) \in Nat /\ \A j \in DOMAIN todo[t] : j \in Nat
  BY Top
<1>2. InCustody(s, t, Rest(t) + 1)
  BY <1>1 DEF InCustody
<1>3. ASSUME NEW u \in Threads, NEW j \in DOMAIN todo[u], Kept(t, u, j), InCustody(s, u, j)
      PROVE  FALSE
  <2>1. u = t /\ j = Rest(t) + 1
    BY <1>1, <1>2, <1>3 DEF OneCustodian
  <2> QED BY <1>1, <1>3, <2>1 DEF Kept
<1>4. ASSUME NEW o, Stays(t, o), o.op \in Custody
      PROVE  o.x # s
  <2>1. PICK u \in Threads : \E j \in DOMAIN todo[u] : Kept(t, u, j) /\ todo[u][j] = o
    BY <1>4 DEF Stays
  <2> QED BY <1>3, <1>4, <2>1 DEF InCustody
<1> QED BY <1>3, <1>4

\* Nobody has in custody what somebody is about to drop the last reference to.
LEMMA NoCustodian ==
  ASSUME TypeOK, AllReady, NEW s \in Slots, item[s].ref_count # 0, ~InQueue(s)
  PROVE  \A u \in Threads : \A j \in DOMAIN todo[u] : ~InCustody(s, u, j)
<1> SUFFICES ASSUME NEW u \in Threads, NEW j \in DOMAIN todo[u], NEW o, o = todo[u][j],
                    o.op \in Custody, o.x = s
             PROVE  FALSE
  BY DEF InCustody
<1>1. Ready(o)
  BY DEF AllReady
<1> QED BY <1>1 DEF Ready, Custody, Lost

\* No decrement is put on top.
LEMMA NoDecOnTop ==
  ASSUME NEW ops \in Seq(Ops), \A i \in DOMAIN ops : ops[i].op # "dec"
  PROVE  Len(ops) = 0 \/ ops[Len(ops)].op # "dec"
<1>1. Len(ops) \in Nat /\ DOMAIN ops = 1 .. Len(ops)
  OBVIOUS
<1>2. Len(ops) # 0 => Len(ops) \in DOMAIN ops
  BY <1>1
<1> QED BY <1>2

\* An item with another count.
LEMMA Recounted ==
  ASSUME NEW i \in Item, NEW n \in Int
  PROVE  /\ [i EXCEPT !.ref_count = n] \in Item
         /\ [i EXCEPT !.ref_count = n].ref_count = n
         /\ [i EXCEPT !.ref_count = n].key = i.key
         /\ [i EXCEPT !.ref_count = n].uses = i.uses
         /\ [i EXCEPT !.ref_count = n].live = i.live
         /\ [i EXCEPT !.ref_count = n].shard = i.shard
BY DEF Item

\* Only items change, and only s.
LEMMA Changed ==
  ASSUME TypeOK, Lists, NEW s, item' \in [Slots -> Item],
         \A r \in Slots \ {s} : item'[r] = item[r], UNCHANGED <<chain, queue>>
  PROVE  /\ Moved({s}) /\ (Linked(s)' <=> Linked(s)) /\ (InQueue(s)' <=> InQueue(s))
         /\ \A b \in Buckets : s \in ToSet(chain'[b]) => s \in ToSet(chain[b])
         /\ \A c \in Caches : s \in ToSet(queue'[c]) => s \in ToSet(queue[c])
<1>1. Lists'
  BY DEF Lists
<1>2. \A r \in Slots \ {s} : Same(r)
  BY DEF Same
<1>3. (Linked(s)' <=> Linked(s)) /\ (InQueue(s)' <=> InQueue(s))
  BY DEF Linked, InQueue
<1> QED BY <1>1, <1>2, <1>3 DEF Moved, TypeOK

\* The decrement.
LEMMA StepDecRef ==
  ASSUME IInv, NEW t \in Threads, DecRef(t)
  PROVE  IInv'
<1> USE DEF IInv
<1>1. /\ ~Idle(t) /\ Last(todo[t]).op = "dec" /\ Last(todo[t]) \in Ops
      /\ Rest(t) + 1 \in DOMAIN todo[t] /\ todo[t][Rest(t) + 1] = Last(todo[t])
  BY Top DEF DecRef, Doing, Idle
<1>2. PICK s \in Slots : s = Last(todo[t]).x
  BY <1>1 DEF AllReady, Ready, OnItems
<1>3. PICK ops : ops = IF item[s].ref_count = 1 THEN <<Op("zero", s)>> ELSE <<>>
  OBVIOUS
<1>4. /\ item' = Dec(s, item) /\ Then(t, ops)
      /\ UNCHANGED <<chain, queue, cache_size, got, lists, phase>>
  BY <1>2, <1>3 DEF DecRef, Subject
<1>5. /\ ops \in Seq(Ops)
      /\ \A i \in DOMAIN ops : ops[i].op = "zero" /\ ops[i].x = s /\ i = 1
      /\ DOMAIN ops = IF item[s].ref_count = 1 THEN {1} ELSE {}
      /\ Op("zero", s).op = "zero"
  BY <1>3, OpTypes
<1>6. Stepped(t, ops)
  BY <1>1, <1>4, <1>5, ThenSteps
<1>7. Fits(t, ops)
  <2>1. t \in MayDo("zero") /\ MayWait("dec") \subseteq MayWait("zero")
    BY DEF MayDo, MayWait, Alone, Loops, Steps
  <2>2. Fits(t, <<>>) /\ Fits(t, <<Op("zero", s)>>)
    BY <1>1, <1>5, <2>1, Nothing_Fits, OneFits
  <2> QED BY <1>3, <2>2
<1>8. /\ t \in DecRefs(s) /\ item[s].ref_count \in Nat /\ item[s].ref_count # 0 /\ Live(s)
      /\ \A r \in Slots \ {s} : t \notin DecRefs(r)
  <2>1. t \in DecRefs(s) /\ \A r \in Slots \ {s} : t \notin DecRefs(r)
    BY <1>1, <1>2 DEF DecRefs, Doing, Subject
  <2> QED BY <2>1, Holders
<1>9. /\ item' \in [Slots -> Item] /\ \A r \in Slots \ {s} : item'[r] = item[r]
      /\ item'[s].ref_count = item[s].ref_count - 1
      /\ item'[s].key = item[s].key /\ item'[s].uses = item[s].uses
      /\ item'[s].live = item[s].live /\ item'[s].shard = item[s].shard
  <2>1. item \in [Slots -> Item] /\ item[s].ref_count - 1 \in Int
    BY <1>8 DEF TypeOK
  <2>2. item' = [item EXCEPT ![s] = [item[s] EXCEPT !.ref_count = item[s].ref_count - 1]]
    BY <1>4 DEF Dec
  <2>3. PICK i \in Item : i = [item[s] EXCEPT !.ref_count = item[s].ref_count - 1]
    BY <2>1, Recounted
  <2>4. item' = [item EXCEPT ![s] = i]
    BY <2>2, <2>3
  <2>5. /\ i.ref_count = item[s].ref_count - 1 /\ i.key = item[s].key
        /\ i.uses = item[s].uses /\ i.live = item[s].live /\ i.shard = item[s].shard
    BY <2>1, <2>3, Recounted
  <2> QED BY <2>1, <2>4, <2>5
<1>11. /\ Moved({s}) /\ (Linked(s)' <=> Linked(s)) /\ (InQueue(s)' <=> InQueue(s))
       /\ \A b \in Buckets : s \in ToSet(chain'[b]) => s \in ToSet(chain[b])
       /\ \A c \in Caches : s \in ToSet(queue'[c]) => s \in ToSet(queue[c])
  BY <1>4, <1>9, Changed
<1>12. t # Driver => ~Maintaining
  <2>1. CASE t \in Workers
    BY <1>1, <2>1, AtWork
  <2>2. CASE t = Consumer
    BY <1>1, <2>2 DEF Turns
  <2> QED BY <2>1, <2>2 DEF Threads
<1>13. /\ TypeOK' /\ Lists' /\ Stacks' /\ Distinct' /\ Sizes' /\ Walks'
       /\ Gotten' /\ ListsCounted' /\ Turns' /\ KeysStay
  <2>1. \A r \in {s} \cap Slots :
           /\ (Linked(r)' <=> Linked(r)) /\ (InQueue(r)' <=> InQueue(r))
           /\ Linked(r) => item'[r].key = item[r].key /\ item'[r].uses = item[r].uses
    BY <1>9, <1>11
  <2>2. \A i \in DOMAIN ops :
          ops[i].op \notin Loops \cup {"walk", "lookup", "build", "unref", "release"}
    BY <1>5 DEF Loops
  <2> QED BY <1>1, <1>4, <1>6, <1>7, <1>11, <1>12, <2>1, <2>2, Undisturbed
<1>14. item[s].ref_count = 1 => ~InQueue(s)
  <2>1. Cardinality(DecRefs(s)) # 0
    BY <1>8, RefSets, FS_EmptySet
  <2>2. item[s].ref_count = Refs(s)
    BY DEF Counted
  <2> HIDE DEF InQueue
  <2> QED BY <2>1, <2>2, RefSets DEF Refs
<1>15. item[s].ref_count = 1 =>
         \A u \in Threads : \A j \in DOMAIN todo[u] : ~InCustody(s, u, j)
  BY <1>14, NoCustodian
<1>16. OneCustodian'
  <2>1. Takes(t, ops)
    BY <1>5, <1>15 DEF Takes
  <2> QED BY <1>6, <2>1, CustodyKept
<1>17. item[s].shard /\ ~Linked(s) => InHand(s)
  BY <1>8 DEF AllPlaced, Placed
<1>18. AllReady'
  <2>1. \A i \in DOMAIN ops : Ready(ops[i])'
    <3>1. SUFFICES ASSUME NEW i \in DOMAIN ops, NEW o, o = ops[i]
                   PROVE  Ready(o)'
      OBVIOUS
    <3>2. o.op = "zero" /\ o.x = s /\ item[s].ref_count = 1
      BY <1>5, <3>1
    <3>3. item'[s].ref_count = 0 /\ item'[s].live
      BY <1>8, <1>9, <3>2 DEF Live
    <3>4. item'[s].shard => Linked(s)'
      BY <1>9, <1>11, <1>15, <1>17, <3>2 DEF InHand
    <3> HIDE DEF Linked, InQueue
    <3> QED BY <3>2, <3>3, <3>4 DEF Ready, Live, OnItems
  <2>2. ASSUME NEW o \in Ops, Ready(o), o.op \in OnItems \ {"dec"}, o.x = s
        PROVE  Ready(o)'
    <3>1. (Live(s)' <=> Live(s)) /\ item[s].ref_count # 0 /\ item'[s].shard = item[s].shard
      BY <1>8, <1>9 DEF Live
    <3> HIDE DEF Linked, InQueue, Live
    <3> QED BY <1>11, <2>2, <3>1 DEF Ready, Lost
  <2> QED BY <1>6, <1>11, <2>1, <2>2, AllReadyKept
<1>19. AllPlaced'
  <2>1. ASSUME NEW r \in Slots \ {s} PROVE Placed(r)'
    <3>1. Same(r) /\ Placed(r)
      BY <1>11 DEF Moved, AllPlaced
    <3>2. \A d \in item[r].uses : item'[d].key = item[d].key
      <4>1. item[r].uses \subseteq Slots
        BY ItemTypes
      <4> QED BY <1>9, <4>1
    <3> QED BY <1>1, <1>6, <3>1, <3>2, PlacedKept DEF Custody
  <2>2. Placed(s)'
    <3>1. InHand(s) => InHand(s)'
      BY <1>1, <1>6, HandKept DEF Custody
    <3>2. item[s].ref_count = 1 => InHand(s)'
      <4>1. ASSUME item[s].ref_count = 1 PROVE InHand(s)'
        <5>1. 1 \in DOMAIN ops /\ ops[1].op \in Custody /\ ops[1].x = s
          BY <1>5, <4>1 DEF Custody
        <5> QED BY <1>6, <5>1, HandKept
      <4> QED BY <4>1
    <3>3. item'[s].ref_count = 0 => item[s].ref_count = 1
      BY <1>8, <1>9
    <3>4. \A d \in item[s].uses : item'[d].key = item[d].key
      <4>1. item[s].uses \subseteq Slots
        BY ItemTypes
      <4> QED BY <1>9, <4>1
    <3>5. Placed(s)
      BY DEF AllPlaced
    <3>6. Live(s)' /\ Live(s)
      BY <1>8, <1>9 DEF Live
    <3> HIDE DEF InHand, Linked, InQueue, Live
    <3> QED BY <1>9, <1>11, <1>17, <3>1, <3>2, <3>3, <3>4, <3>5, <3>6 DEF Placed
  <2> QED BY <2>1, <2>2 DEF AllPlaced
<1>20. Paths'
  <2>1. ASSUME NEW n \in Slots, t = Driver, Stays(t, Op("walk", n)), NEW i \in DOMAIN ops
        PROVE  Off(ops[i], n)'
    <3>1. Off(Last(todo[t]), n)
      BY <1>1, <2>1, TopOff
    <3>2. n # s /\ item[s].key \in Under(ChainOf(n))
      BY <1>1, <1>2, <3>1 DEF Off
    <3>3. /\ item'[s].key = item[s].key /\ ChainOf(n)' = ChainOf(n)
          /\ Under(ChainOf(n))' = Under(ChainOf(n))
      BY <1>9, <3>2 DEF ChainOf
    <3>4. PICK o : o = ops[i]
      OBVIOUS
    <3>5. o.op = "zero" /\ o.x = s
      BY <1>5, <3>4
    <3>6. Off(o, n)'
      BY <3>2, <3>3, <3>5 DEF Off
    <3> QED BY <3>4, <3>6
  <2>2. \A r \in Slots : item'[r].key = item[r].key
    BY <1>9
  <2>3. \A i \in DOMAIN ops : ops[i].op # "walk"
    BY <1>5
  <2> QED BY <1>6, <1>12, <1>13, <2>1, <2>2, <2>3, PathsKept
<1>21. Counted'
  <2>1. \A r : DecRefs(r)' = DecRefs(r) \ {t}
    <3>1. Len(ops) = 0 \/ ops[Len(ops)].op # "dec"
      BY <1>5, NoDecOnTop
    <3> QED BY <1>6, <3>1, DecsKept
  <2>2. \A r : ImageRefs(r)' = ImageRefs(r) /\ ListRefs(r)' = ListRefs(r)
    BY <1>4 DEF lists, ImageRefs, ListRefs
  <2>3. \A r : KeyRefs(r)' = KeyRefs(r)
    BY <1>9, SameKeys
  <2>4. \A r \in Slots \ {s} :
          /\ item'[r].ref_count = item[r].ref_count /\ (InQueue(r)' <=> InQueue(r))
          /\ ImageRefs(r)' = ImageRefs(r) /\ ListRefs(r)' = ListRefs(r)
          /\ KeyRefs(r)' = KeyRefs(r) /\ DecRefs(r)' = DecRefs(r)
    BY <1>4, <1>8, <1>9, <2>1, <2>2, <2>3 DEF InQueue
  <2>5. item'[s].ref_count = Refs(s)'
    <3>1. Cardinality(DecRefs(s)') = Cardinality(DecRefs(s)) - 1
      BY <1>8, <2>1, RefSets, OneLess
    <3>2. PICK q \in Nat : q = (IF InQueue(s) THEN 1 ELSE 0)
      OBVIOUS
    <3>3. (IF InQueue(s)' THEN 1 ELSE 0) = q
      BY <1>11, <3>2
    <3>4. item[s].ref_count = q + Cardinality(ImageRefs(s)) + Cardinality(ListRefs(s))
            + Cardinality(KeyRefs(s)) + Cardinality(DecRefs(s))
      BY <3>2 DEF Counted, Refs
    <3>5. Refs(s)' = q + Cardinality(ImageRefs(s)) + Cardinality(ListRefs(s))
            + Cardinality(KeyRefs(s)) + Cardinality(DecRefs(s)')
      BY <2>2, <2>3, <3>3 DEF Refs
    <3> QED BY <1>9, <3>1, <3>4, <3>5, RefSets
  <2>6. \A r \in {s} \cap Slots : item'[r].ref_count = Refs(r)'
    BY <2>5
  <2> HIDE DEF InQueue
  <2> QED BY <2>4, <2>6, CountedKept
<1> QED BY <1>13, <1>16, <1>18, <1>19, <1>20, <1>21

-----------------------------------------------------------------------------
(* Destroying an item                                                      *)

\* What a thread is on, when that is an item.
LEMMA OnItem ==
  ASSUME IInv, NEW t \in Threads, ~Idle(t),
         Last(todo[t]).op \in OnItems \ {"walk"}
  PROVE  /\ Last(todo[t]).x \in Slots /\ Ready(Last(todo[t])) /\ Last(todo[t]) \in Ops
         /\ t # Driver => ~Maintaining
         /\ Last(todo[t]).op \in {"evict", "orphan"} => t = Driver
<1> USE DEF IInv
<1>1. /\ Last(todo[t]) \in Ops
      /\ Rest(t) + 1 \in DOMAIN todo[t] /\ todo[t][Rest(t) + 1] = Last(todo[t])
  BY Top
<1>2. Ready(Last(todo[t])) /\ Last(todo[t]).x \in Slots
  BY <1>1 DEF AllReady, Ready
<1>3. t # Driver => ~Maintaining
  <2>1. CASE t \in Workers
    BY <2>1, AtWork
  <2>2. CASE t = Consumer
    BY <2>2 DEF Turns
  <2> QED BY <2>1, <2>2 DEF Threads
<1>4. Last(todo[t]).op \in {"evict", "orphan"} => t = Driver
  BY <1>1 DEF Stacks, MayDo, Alone, Loops
<1> QED BY <1>1, <1>2, <1>3, <1>4

\* Nothing but what the thread was on is about an item it had in custody, and
\* that is out of the chains.
LEMMA NothingElse ==
  ASSUME IInv, NEW t \in Threads, ~Idle(t), NEW s \in Slots,
         Last(todo[t]).op \in Custody, Last(todo[t]).x = s, ~Linked(s)
  PROVE  \A o : Stays(t, o) /\ Ready(o) /\ o.op \in OnItems \ {"dec"} => o.x # s
<1> SUFFICES ASSUME NEW o, Stays(t, o), Ready(o), o.op \in OnItems \ {"dec"}, o.x = s
             PROVE  FALSE
  OBVIOUS
<1>1. o.op \notin Custody
  BY SoleCustodian DEF IInv
<1>2. s # None
  BY BoundsAssumption
<1> QED BY <1>1, <1>2 DEF OnItems, Custody, Ready

\* An item with no reference is taken out of its chain, and then destroyed.
LEMMA Unlinked ==
  ASSUME IInv, NEW t \in Threads, ~Idle(t), NEW s \in Slots,
         Last(todo[t]).op \in {"zero", "evict"}, Last(todo[t]).x = s,
         Linked(s), item[s].ref_count = 0, ~InQueue(s),
         Unlink(s), Then(t, <<Op("destruct", s)>>),
         UNCHANGED <<item, queue, got, lists, phase>>
  PROVE  IInv'
<1> USE DEF IInv
<1>1. PICK ops : ops = <<Op("destruct", s)>>
  OBVIOUS
<1>2. /\ ops \in Seq(Ops) /\ DOMAIN ops = {1} /\ ops[1].op = "destruct" /\ ops[1].x = s
      /\ \A i \in DOMAIN ops : ops[i].op = "destruct" /\ ops[i].x = s /\ i = 1
      /\ Op("destruct", s).op = "destruct"
  BY <1>1, OpTypes
<1>3. Stepped(t, ops)
  BY <1>1, <1>2, ThenSteps
<1>4. Fits(t, ops)
  <2>1. /\ t \in MayDo("destruct") /\ MayWait("zero") \subseteq MayWait("destruct")
        /\ MayWait("evict") \subseteq MayWait("destruct")
    BY DEF MayDo, MayWait, Alone, Loops, Steps
  <2> QED BY <1>1, <1>2, <2>1, OneFits
<1>5. /\ t # Driver => ~Maintaining
      /\ Last(todo[t]).op = "evict" => t = Driver
      /\ Driver \in Threads
  BY OnItem DEF OnItems, Threads
<1>6. /\ ChainOf(s) \in Buckets /\ HomeOf(s) \in Caches /\ Live(s)
      /\ item[s].shard /\ item[s].key \in Keys
  BY ListElements
<1>7. /\ chain' = [chain EXCEPT ![ChainOf(s)] = Without(@, s)]
      /\ cache_size' = [cache_size EXCEPT ![HomeOf(s)] = @ - 1]
  BY DEF Unlink
<1>8. ChainsKeep({s}) /\ QueuesKeep({})
  BY <1>7, ChainLoses, SameQueues
<1>9. /\ item' \in [Slots -> Item] /\ item' = item
  BY DEF TypeOK
<1>10. /\ Moved({s}) /\ ~Linked(s)' /\ ~InQueue(s)'
       /\ \A c \in Caches : s \in ToSet(queue'[c]) => s \in ToSet(queue[c])
  <2>1. PICK S : S = {s}
    OBVIOUS
  <2>2. PICK T : T = {}
    OBVIOUS
  <2>3. ChainsKeep(S) /\ QueuesKeep(T) /\ (S = {s} \/ S = {}) /\ (T = {s} \/ T = {})
        /\ s \in S
    BY <1>8, <2>1, <2>2
  <2>4. \A r \in Slots \ {s} : item'[r] = item[r]
    BY <1>9
  <2> QED BY <1>9, <2>3, <2>4, Removed
<1>11. \A r \in Slots : Linked(r)' <=> Linked(r) /\ r # s
  <2>1. \A r \in Slots \ {s} : Linked(r)' <=> Linked(r)
    BY <1>10, SameView DEF Moved
  <2> HIDE DEF Linked
  <2> QED BY <1>10, <2>1
<1>12. \A c : LinkedIn(c)' = LinkedIn(c) \ {s}
  <2>1. \A r \in Slots : HomeOf(r)' = HomeOf(r)
    BY <1>9 DEF HomeOf
  <2> HIDE DEF Linked
  <2> QED BY <1>11, <2>1 DEF LinkedIn
<1>13. /\ cache_size \in [Caches -> Nat] /\ cache_size' \in [Caches -> Nat]
       /\ Sizes'
  <2>0. PICK h : h = HomeOf(s)
    OBVIOUS
  <2>1. cache_size \in [Caches -> Nat] /\ s \in LinkedIn(h)
    BY <2>0 DEF TypeOK, LinkedIn
  <2>2. /\ Cardinality(LinkedIn(h) \ {s}) = Cardinality(LinkedIn(h)) - 1
        /\ Cardinality(LinkedIn(h)) - 1 \in Nat
    BY <2>1, LinkedInFinite, OneLess
  <2>3. Cardinality(LinkedIn(h)) <= cache_size[h] /\ cache_size[h] \in Nat
        /\ Cardinality(LinkedIn(h)) \in Nat /\ h \in Caches
    BY <1>6, <2>0, <2>1, LinkedInFinite DEF Sizes
  <2>4. /\ \A c \in Caches \ {h} : cache_size'[c] = cache_size[c]
        /\ cache_size'[h] = cache_size[h] - 1
        /\ cache_size[h] - 1 \in Nat
    BY <1>7, <2>0, <2>1, <2>2, <2>3
  <2>5. cache_size' \in [Caches -> Nat]
    BY <1>7, <2>0, <2>1, <2>4
  <2>6. \A c \in Caches : Pending(Driver, "empty", c) => Pending(Driver, "empty", c)'
    BY <1>3, <1>5, PendingKept
  <2>7. \A c \in Caches \ {h} : LinkedIn(c)' = LinkedIn(c)
    <3>1. ASSUME NEW c \in Caches \ {h} PROVE LinkedIn(c)' = LinkedIn(c)
      <4>1. s \notin LinkedIn(c)
        BY <2>0, <3>1 DEF LinkedIn
      <4>2. LinkedIn(c)' = LinkedIn(c) \ {s}
        BY <1>12
      <4> QED BY <4>1, <4>2
    <3> QED BY <3>1
  <2> HIDE DEF Pending, LinkedIn
  <2>8. ASSUME NEW c \in Caches \ {h}
        PROVE  /\ Cardinality(LinkedIn(c)') <= cache_size'[c]
               /\ ~Pending(Driver, "empty", c)' =>
                                cache_size'[c] = Cardinality(LinkedIn(c)')
    BY <2>4, <2>6, <2>7 DEF Sizes
  <2>9. /\ Cardinality(LinkedIn(h)') <= cache_size'[h]
        /\ ~Pending(Driver, "empty", h)' => cache_size'[h] = Cardinality(LinkedIn(h)')
    <3>1. ~Pending(Driver, "empty", h)' => ~Pending(Driver, "empty", h)
      BY <2>3, <2>6
    <3>2. LinkedIn(h)' = LinkedIn(h) \ {s}
      BY <1>12
    <3>3. ~Pending(Driver, "empty", h) => cache_size[h] = Cardinality(LinkedIn(h))
      BY <2>3 DEF Sizes
    <3> QED BY <2>2, <2>3, <2>4, <3>1, <3>2, <3>3
  <2>10. \A c \in Caches : /\ Cardinality(LinkedIn(c)') <= cache_size'[c]
                           /\ ~Pending(Driver, "empty", c)' =>
                                cache_size'[c] = Cardinality(LinkedIn(c)')
    BY <2>8, <2>9
  <2> QED BY <2>1, <2>5, <2>10 DEF Sizes
<1>14. /\ UNCHANGED <<images, frame, images_root, prev_images_root, held>>
  BY DEF lists
<1>15. TypeOK' /\ Lists'
  BY <1>3, <1>10, <1>13, <1>14, TypesKept DEF TypeOK, Moved
<1>16. Stacks'
  BY <1>3, <1>4, StacksKept
<1>17. OneCustodian'
  <2>1. \A u \in Threads : \A j \in DOMAIN todo[u] : Kept(t, u, j) => ~InCustody(s, u, j)
    BY SoleCustodian DEF Custody
  <2>2. Takes(t, ops)
    BY <1>2, <2>1 DEF Takes
  <2> QED BY <1>3, <2>2, CustodyKept
<1>18. KeysStay
  BY <1>9 DEF KeysStay
<1>19. AllReady'
  <2>1. Ready(ops[1])'
    <3>1. PICK o : o = ops[1]
      OBVIOUS
    <3>2. Live(s)' /\ Lost(s)'
      BY <1>6, <1>9, <1>10 DEF Live, Lost
    <3> HIDE DEF Live, Lost
    <3>3. Ready(o)'
      BY <1>2, <3>1, <3>2 DEF Ready, OnItems
    <3> QED BY <3>1, <3>3
  <2>2. ASSUME NEW o \in Ops, Stays(t, o), Ready(o), o.op \in OnItems \ {"dec"}, o.x = s
        PROVE  FALSE
    <3>1. o.op \notin Custody
      BY <2>2, SoleCustodian DEF Custody
    <3>2. o.op \in {"walk", "orphan"}
      BY <2>2, <3>1 DEF OnItems, Custody
    <3>3. /\ t = Driver /\ o.op \in MayWait(Last(todo[t]).op)
      BY <1>5, <2>2, <3>2, StaysWhere
    <3>4. o.op = "walk"
      BY <3>2, <3>3 DEF MayWait, Alone, Loops, Steps
    <3>5. o = Op("walk", s)
      BY <2>2, <3>4 DEF Op, Ops
    <3>6. Off(Last(todo[t]), s)
      BY <2>2, <3>3, <3>5, TopOff
    <3> QED BY <3>6 DEF Off
  <2> QED BY <1>2, <1>3, <1>10, <2>1, <2>2, AllReadyKept
<1>20. AllPlaced'
  <2>1. ASSUME NEW r \in Slots \ {s} PROVE Placed(r)'
    <3>1. Same(r) /\ Placed(r)
      BY <1>10 DEF Moved, AllPlaced
    <3> QED BY <1>3, <1>9, <3>1, PlacedKept
  <2>2. Placed(s)'
    <3>1. InHand(s)'
      BY <1>2, <1>3, HandKept DEF Custody
    <3>2. Placed(s) /\ Live(s)' /\ \A b \in Buckets : s \notin ToSet(chain'[b])
      BY <1>6, <1>9, <1>10 DEF AllPlaced, Live, Linked
    <3> HIDE DEF InHand, Linked, InQueue, Live
    <3> QED BY <1>6, <1>9, <1>10, <3>1, <3>2 DEF Placed
  <2> QED BY <2>1, <2>2 DEF AllPlaced
<1>21. Counted'
  <2>1. \A r : DecRefs(r)' = DecRefs(r)
    <3>1. Len(ops) = 0 \/ ops[Len(ops)].op # "dec"
      BY <1>2, NoDecOnTop
    <3>2. \A r : t \notin DecRefs(r)
      BY <1>3, DecsKept
    <3>3. \A r : DecRefs(r)' = DecRefs(r) \ {t}
      BY <1>3, <3>1, DecsKept
    <3> QED BY <3>2, <3>3
  <2>2. \A r \in {s} \cap Slots :
          /\ item'[r].ref_count = item[r].ref_count /\ item'[r].uses = item[r].uses
          /\ InQueue(r)' <=> InQueue(r)
    BY <1>9, <1>10
  <2>3. \A f \in Frames : frame'[f].images = frame[f].images
    BY <1>14
  <2> QED BY <1>10, <1>14, <2>1, <2>2, <2>3, CountedSame
<1>22. Distinct'
  <2>1. \A r \in {s} \cap Slots : Linked(r)' => Linked(r) /\ item'[r].key = item[r].key
                                              /\ item'[r].uses = item[r].uses
    BY <1>10
  <2> QED BY <1>10, <2>1, DistinctKept
<1>23. Walks'
  BY <1>2, <1>3, <1>18, WalksKept
<1>24. Paths'
  <2>1. ASSUME NEW n \in Slots, t = Driver, Stays(t, Op("walk", n))
        PROVE  Off(ops[1], n)'
    <3>1. Off(Last(todo[t]), n)
      BY <2>1, TopOff
    <3>2. Last(todo[t]).op = "zero"
      <4>1. Op("walk", n).op = "walk"
        BY DEF Op
      <4>2. "walk" \in MayWait(Last(todo[t]).op)
        BY <1>5, <2>1, <4>1, StaysWhere
      <4> QED BY <4>2 DEF MayWait, Alone, Loops, Steps
    <3>3. n # s /\ item[s].key \in Under(ChainOf(n))
      BY <3>1, <3>2 DEF Off
    <3>4. item' = item /\ Under(ChainOf(n))' = Under(ChainOf(n))
      BY <1>9 DEF ChainOf
    <3>5. PICK o : o = ops[1]
      OBVIOUS
    <3>6. Off(o, n)'
      BY <1>2, <3>3, <3>4, <3>5 DEF Off
    <3> QED BY <3>5, <3>6
  <2>2. \A n \in Slots : \A i \in DOMAIN ops :
           t = Driver /\ Linked(n) /\ Stays(t, Op("walk", n)) => Off(ops[i], n)'
    BY <1>2, <2>1
  <2> QED BY <1>2, <1>3, <1>5, <1>9, <1>18, <2>2, PathsKept
<1>25. Gotten'
  <2>1. \A w \in Workers : \A k \in Keys : \A r \in Slots :
          got[w][k] = r => InQueue(r)' /\ item'[r].key = k
    BY <1>9, BoundsAssumption DEF Gotten, InQueue
  <2> QED BY <1>2, <1>3, <2>1, GottenKept
<1>26. ListsCounted'
  BY <1>2, <1>3, <1>14, ListsKept
<1>27. Turns'
  <2>1. \A r \in Slots : Linked(r)' => Linked(r) /\ HomeOf(r)' = HomeOf(r)
    BY <1>9, <1>11 DEF HomeOf
  <2> QED BY <1>2, <1>3, <1>14, <2>1, TurnsKept DEF Loops
<1> QED BY <1>13, <1>15, <1>16, <1>17, <1>19, <1>20, <1>21, <1>22, <1>23, <1>24, <1>25,
           <1>26, <1>27

\* The driver unlinks an item that nobody refers to.
LEMMA StepEvict ==
  ASSUME IInv, Evict(Driver)
  PROVE  IInv'
<1>1. /\ Driver \in Threads /\ ~Idle(Driver) /\ Last(todo[Driver]).op = "evict"
  BY DEF Evict, Doing, Threads
<1>2. PICK s \in Slots : s = Last(todo[Driver]).x /\ Ready(Last(todo[Driver]))
  BY <1>1, OnItem DEF OnItems
<1>3. Linked(s) /\ item[s].ref_count = 0 /\ ~InQueue(s)
  BY <1>1, <1>2 DEF Ready
<1>4. /\ Unlink(s) /\ Then(Driver, <<Op("destruct", s)>>)
      /\ UNCHANGED <<item, queue, got, lists, phase>>
  BY <1>2 DEF Evict, Subject
<1> HIDE DEF Unlink, Then, Linked, InQueue
<1> QED BY <1>1, <1>2, <1>3, <1>4, Unlinked

\* An item that is not to be unlinked: it is in use again, or it has been
\* detached from its shard before.
LEMMA Decided ==
  ASSUME IInv, NEW t \in Threads, ~Idle(t), NEW s \in Slots,
         Last(todo[t]).op = "zero", Last(todo[t]).x = s,
         NEW ops, \/ ops = <<>> /\ Linked(s)
                  \/ ops = <<Op("destruct", s)>> /\ Lost(s),
         Then(t, ops), UNCHANGED <<item, chain, queue, cache_size, got, lists, phase>>
  PROVE  IInv'
<1> USE DEF IInv
<1>1. /\ ops \in Seq(Ops)
      /\ \A i \in DOMAIN ops : ops[i].op = "destruct" /\ ops[i].x = s /\ i = 1
      /\ Linked(s) \/ (Lost(s) /\ 1 \in DOMAIN ops /\ ops[1].op = "destruct" /\ ops[1].x = s)
  <2>1. CASE ops = <<>> /\ Linked(s)
    BY <2>1
  <2>2. CASE ops = <<Op("destruct", s)>> /\ Lost(s)
    BY <2>2, OpTypes
  <2> QED BY <2>1, <2>2
<1>2. Stepped(t, ops)
  BY <1>1, ThenSteps
<1>3. Fits(t, ops)
  <2>1. t \in MayDo("destruct") /\ MayWait("zero") \subseteq MayWait("destruct")
    BY DEF MayDo, MayWait, Alone, Loops, Steps
  <2>2. Op("destruct", s).op = "destruct"
    BY DEF Op
  <2>3. Fits(t, <<>>) /\ Fits(t, <<Op("destruct", s)>>)
    BY <2>1, <2>2, OneFits, Nothing_Fits
  <2> QED BY <2>3
<1>4. /\ t # Driver => ~Maintaining
      /\ InQueue(s) \/ item[s].ref_count = 0
      /\ Live(s)
  BY OnItem DEF OnItems, Ready
<1>5. Moved({})
  BY Unmoved
<1>6. \A r \in {} \cap Slots : FALSE
  OBVIOUS
<1>7. /\ TypeOK' /\ Lists' /\ Stacks' /\ Distinct' /\ Sizes' /\ Walks'
      /\ Gotten' /\ ListsCounted' /\ Turns' /\ KeysStay
  BY <1>1, <1>2, <1>3, <1>4, <1>5, <1>6, Undisturbed DEF Loops
<1>8. OneCustodian'
  <2>1. \A u \in Threads : \A j \in DOMAIN todo[u] : Kept(t, u, j) => ~InCustody(s, u, j)
    BY SoleCustodian DEF Custody
  <2>2. Takes(t, ops)
    BY <1>1, <2>1 DEF Takes
  <2> QED BY <1>2, <2>2, CustodyKept
<1>9. AllReady'
  <2>1. ASSUME NEW i \in DOMAIN ops PROVE Ready(ops[i])'
    <3>1. PICK o : o = ops[i]
      OBVIOUS
    <3>2. Lost(s)
      <4>1. CASE ops = <<>>
        BY <4>1
      <4> QED BY <4>1
    <3>3. Live(s)' /\ Lost(s)'
      BY <1>4, <3>2 DEF Live, Lost, Linked, InQueue
    <3> HIDE DEF Live, Lost
    <3>4. Ready(o)'
      BY <1>1, <3>1, <3>3 DEF Ready, OnItems
    <3> QED BY <3>1, <3>4
  <2> QED BY <1>2, <1>5, <1>6, <2>1, AllReadyKept
<1>10. AllPlaced'
  <2>1. \A r \in Slots : Same(r) /\ Placed(r)
    BY <1>5 DEF Moved, AllPlaced
  <2>2. ASSUME NEW r \in Slots \ {s} PROVE Placed(r)'
    BY <1>2, <2>1, PlacedKept
  <2>3. Placed(s)'
    <3>1. Linked(s) \/ InHand(s)'
      <4>1. ASSUME 1 \in DOMAIN ops, ops[1].op = "destruct", ops[1].x = s
            PROVE  InHand(s)'
        BY <1>2, <4>1, HandKept DEF Custody
      <4> QED BY <1>1, <4>1
    <3>2. /\ (Linked(s)' <=> Linked(s)) /\ (InQueue(s)' <=> InQueue(s))
          /\ (Live(s)' <=> Live(s))
      BY <2>1, SameView
    <3> HIDE DEF InHand, Linked, InQueue, Live
    <3> QED BY <2>1, <3>1, <3>2 DEF Placed
  <2> QED BY <2>2, <2>3 DEF AllPlaced
<1>11. Counted'
  <2>1. Len(ops) = 0 \/ ops[Len(ops)].op # "dec"
    BY <1>1, NoDecOnTop
  <2>2. \A r : t \notin DecRefs(r)
    BY <1>2, DecsKept
  <2>3. \A r : DecRefs(r)' = DecRefs(r) \ {t}
    BY <1>2, <2>1, DecsKept
  <2>4. \A r : DecRefs(r)' = DecRefs(r)
    BY <2>2, <2>3
  <2> QED BY <1>5, <1>6, <2>4, CountedSame DEF lists
<1>12. Paths'
  <2>1. ASSUME NEW n \in Slots, t = Driver, Stays(t, Op("walk", n)), NEW i \in DOMAIN ops
        PROVE  Off(ops[i], n)'
    <3>1. Off(Last(todo[t]), n)
      BY <2>1, TopOff
    <3>2. n # s /\ item[s].key \in Under(ChainOf(n))
      BY <3>1 DEF Off
    <3>3. item' = item /\ Under(ChainOf(n))' = Under(ChainOf(n))
      BY DEF ChainOf
    <3>4. PICK o : o = ops[i]
      OBVIOUS
    <3>5. o.op = "destruct" /\ o.x = s
      BY <1>1, <3>4
    <3>6. Off(o, n)'
      BY <3>2, <3>3, <3>5 DEF Off
    <3> QED BY <3>4, <3>6
  <2> QED BY <1>1, <1>2, <1>4, <1>7, <2>1, PathsKept
<1> QED BY <1>7, <1>8, <1>9, <1>10, <1>11, <1>12

\* The second look at the count.
LEMMA StepZeroRef ==
  ASSUME IInv, NEW t \in Threads, ZeroRef(t)
  PROVE  IInv'
<1>1. ~Idle(t) /\ Last(todo[t]).op = "zero"
  BY DEF ZeroRef, Doing
<1>2. PICK s \in Slots : s = Last(todo[t]).x /\ Ready(Last(todo[t]))
  BY <1>1, OnItem DEF OnItems
<1>3. /\ Live(s)
      /\ InQueue(s) \/ item[s].ref_count = 0
      /\ item[s].shard => Linked(s)
  BY <1>1, <1>2 DEF Ready
<1>4. UNCHANGED <<item, queue, got, lists, phase>>
  BY DEF ZeroRef
<1>5. /\ Linked(s) => item[s].shard
      /\ InQueue(s) => Linked(s)
  BY DEF IInv, AllPlaced, Placed
<1>6. item[s].ref_count = 0 => ~InQueue(s)
  BY Holders DEF IInv
<1>7. \/ /\ item[s].shard /\ item[s].ref_count # 0
         /\ Then(t, <<>>) /\ UNCHANGED <<chain, cache_size>>
      \/ /\ item[s].shard /\ item[s].ref_count = 0
         /\ Then(t, <<Op("destruct", s)>>) /\ Unlink(s)
      \/ /\ ~item[s].shard
         /\ Then(t, <<Op("destruct", s)>>) /\ UNCHANGED <<chain, cache_size>>
  BY <1>2 DEF ZeroRef, Subject
<1> HIDE DEF Unlink, Then, Linked, InQueue
<1>8. CASE /\ item[s].shard /\ item[s].ref_count # 0
           /\ Then(t, <<>>) /\ UNCHANGED <<chain, cache_size>>
  <2>1. PICK ops : ops = <<>>
    OBVIOUS
  <2>2. Then(t, ops) /\ ops = <<>> /\ Linked(s)
    BY <1>3, <1>8, <2>1
  <2> QED BY <1>1, <1>2, <1>4, <1>8, <2>2, Decided
<1>9. CASE /\ item[s].shard /\ item[s].ref_count = 0
           /\ Then(t, <<Op("destruct", s)>>) /\ Unlink(s)
  BY <1>1, <1>2, <1>3, <1>4, <1>6, <1>9, Unlinked
<1>10. CASE /\ ~item[s].shard
            /\ Then(t, <<Op("destruct", s)>>) /\ UNCHANGED <<chain, cache_size>>
  <2>1. PICK ops : ops = <<Op("destruct", s)>>
    OBVIOUS
  <2>2. Lost(s)
    BY <1>3, <1>5, <1>10 DEF Lost
  <2>3. Then(t, ops) /\ ops = <<Op("destruct", s)>> /\ Lost(s)
    BY <1>10, <2>1, <2>2
  <2> QED BY <1>1, <1>2, <1>4, <1>10, <2>3, Decided
<1> QED BY <1>7, <1>8, <1>9, <1>10

\* An item that is being destroyed gives up something its key refers to.
LEMMA DropsUse ==
  ASSUME IInv, ChainsApart, NEW t \in Threads, ~Idle(t), NEW s \in Slots,
         Last(todo[t]).op = "destruct", Last(todo[t]).x = s, NEW d \in item[s].uses,
         item' = [item EXCEPT ![s].uses = @ \ {d}],
         Then(t, <<Op("destruct", s), Op("dec", d)>>),
         UNCHANGED <<chain, queue, cache_size, got, lists, phase>>
  PROVE  IInv'
<1> USE DEF IInv
<1>1. PICK ops : ops = <<Op("destruct", s), Op("dec", d)>>
  OBVIOUS
<1>2. d \in Slots
  BY ItemTypes
<1>3. /\ ops \in Seq(Ops) /\ DOMAIN ops = {1, 2} /\ Len(ops) = 2
      /\ ops[1].op = "destruct" /\ ops[1].x = s /\ ops[2].op = "dec" /\ ops[2].x = d
      /\ Op("destruct", s).op = "destruct" /\ Op("dec", d).op = "dec"
  BY <1>1, <1>2, OpTypes
<1>4. Stepped(t, ops)
  BY <1>1, <1>3, ThenSteps
<1>5. Fits(t, ops)
  <2>1. /\ t \in MayDo("destruct") /\ t \in MayDo("dec")
        /\ MayWait("destruct") \subseteq MayWait("dec") /\ "destruct" \in MayWait("dec")
    BY DEF MayDo, MayWait, Alone, Loops, Steps
  <2> QED BY <1>1, <1>3, <2>1, TwoFit
<1>6. /\ t # Driver => ~Maintaining
      /\ Live(s) /\ Lost(s)
  BY OnItem DEF OnItems, Ready
<1>7. /\ item' \in [Slots -> Item] /\ \A r \in Slots \ {s} : item'[r] = item[r]
      /\ item'[s].ref_count = item[s].ref_count /\ item'[s].key = item[s].key
      /\ item'[s].uses = item[s].uses \ {d} /\ item'[s].live = item[s].live
      /\ item'[s].shard = item[s].shard
  <2>1. item \in [Slots -> Item] /\ item[s] \in Item
    BY DEF TypeOK
  <2>2. PICK i : i = [item[s] EXCEPT !.uses = item[s].uses \ {d}]
    OBVIOUS
  <2>3. /\ i \in Item /\ i.uses = item[s].uses \ {d} /\ i.ref_count = item[s].ref_count
        /\ i.key = item[s].key /\ i.live = item[s].live /\ i.shard = item[s].shard
    BY <2>1, <2>2 DEF Item
  <2>4. item' = [item EXCEPT ![s] = i]
    BY <2>2
  <2> QED BY <2>1, <2>3, <2>4
<1>8. /\ Moved({s}) /\ (Linked(s)' <=> Linked(s)) /\ (InQueue(s)' <=> InQueue(s))
      /\ \A b \in Buckets : s \in ToSet(chain'[b]) => s \in ToSet(chain[b])
      /\ \A c \in Caches : s \in ToSet(queue'[c]) => s \in ToSet(queue[c])
  BY <1>7, Changed
<1>9. ~Linked(s) /\ ~InQueue(s) /\ item[s].ref_count = 0
  BY <1>6 DEF Lost
<1>10. /\ TypeOK' /\ Lists' /\ Stacks' /\ Distinct' /\ Sizes' /\ Walks'
       /\ Gotten' /\ ListsCounted' /\ Turns' /\ KeysStay
  <2>1. \A r \in {s} \cap Slots :
           /\ (Linked(r)' <=> Linked(r)) /\ (InQueue(r)' <=> InQueue(r))
           /\ Linked(r) => item'[r].key = item[r].key /\ item'[r].uses = item[r].uses
    BY <1>8, <1>9
  <2>2. \A i \in DOMAIN ops :
          ops[i].op \notin Loops \cup {"walk", "lookup", "build", "unref", "release"}
    BY <1>3 DEF Loops
  <2> QED BY <1>4, <1>5, <1>6, <1>8, <2>1, <2>2, Undisturbed
<1>11. OneCustodian'
  <2>1. \A u \in Threads : \A j \in DOMAIN todo[u] : Kept(t, u, j) => ~InCustody(s, u, j)
    BY SoleCustodian DEF Custody
  <2>2. Takes(t, ops)
    <3>1. \A i \in DOMAIN ops : ops[i].op \in Custody => i = 1 /\ ops[i].x = s
      BY <1>3 DEF Custody
    <3> QED BY <2>1, <3>1 DEF Takes
  <2> QED BY <1>4, <2>2, CustodyKept
<1>12. AllReady'
  <2>1. Ready(ops[1])' /\ Ready(ops[2])'
    <3>1. Live(s)' /\ Lost(s)'
      BY <1>6, <1>7, <1>8, <1>9 DEF Live, Lost
    <3>2. PICK o : o = ops[1]
      OBVIOUS
    <3>3. PICK p : p = ops[2]
      OBVIOUS
    <3> HIDE DEF Live, Lost
    <3>4. Ready(o)' /\ Ready(p)'
      BY <1>2, <1>3, <3>1, <3>2, <3>3 DEF Ready, OnItems
    <3> QED BY <3>2, <3>3, <3>4
  <2>2. ASSUME NEW o \in Ops, Stays(t, o), Ready(o), o.op \in OnItems \ {"dec"}, o.x = s
        PROVE  FALSE
    BY <1>9, <2>2, NothingElse DEF Custody
  <2> QED BY <1>3, <1>4, <1>8, <2>1, <2>2, AllReadyKept
<1>13. \A r \in Slots : item'[r].key = item[r].key
  BY <1>7
<1>14. AllPlaced'
  <2>1. \A r \in Slots : item[r].uses \subseteq Slots
    BY ItemTypes
  <2>2. ASSUME NEW r \in Slots \ {s} PROVE Placed(r)'
    <3>1. Same(r) /\ Placed(r)
      BY <1>8 DEF Moved, AllPlaced
    <3>2. \A e \in item[r].uses : item'[e].key = item[e].key
      BY <1>13, <2>1
    <3> QED BY <1>4, <3>1, <3>2, PlacedKept
  <2>3. Placed(s)'
    <3>1. InHand(s)'
      BY <1>3, <1>4, HandKept DEF Custody
    <3>2. \A e \in item[s].uses : item'[e].key = item[e].key
      BY <1>13, <2>1
    <3>3. Placed(s)
      BY DEF AllPlaced
    <3>4. Live(s)'
      BY <1>6, <1>7 DEF Live
    <3>5. /\ item'[s].key \in Keys
          /\ \A e \in item'[s].uses : item'[e].key \in Uses[item'[s].key]
      BY <1>6, <1>7, <3>2, <3>3 DEF Placed
    <3>6. /\ \A b \in Buckets : s \notin ToSet(chain'[b])
          /\ \A c \in Caches : s \notin ToSet(queue'[c])
          /\ ~Linked(s)' /\ ~InQueue(s)'
      BY <1>8, <1>9 DEF Linked, InQueue
    <3> HIDE DEF InHand, Linked, InQueue, Live
    <3> QED BY <3>1, <3>4, <3>5, <3>6 DEF Placed
  <2> QED BY <2>2, <2>3 DEF AllPlaced
<1>15. Counted'
  <2>1. /\ \A r : t \notin DecRefs(r)
        /\ \A r : DecRefs(r)' = IF d = r THEN DecRefs(r) \cup {t} ELSE DecRefs(r) \ {t}
    <3>1. Len(ops) # 0 /\ ops[Len(ops)].op = "dec" /\ ops[Len(ops)].x = d
      BY <1>3
    <3>2. \A r : t \notin DecRefs(r)
      BY <1>4, DecsKept
    <3>3. \A r : DecRefs(r)' = IF ops[Len(ops)].x = r THEN DecRefs(r) \cup {t}
                                                       ELSE DecRefs(r) \ {t}
      BY <1>4, <3>1, DecsKept
    <3> QED BY <3>1, <3>2, <3>3
  <2>2. \A r : ImageRefs(r)' = ImageRefs(r) /\ ListRefs(r)' = ListRefs(r)
    BY DEF lists, ImageRefs, ListRefs
  <2>3. \A r : KeyRefs(r)' = IF r = d THEN KeyRefs(r) \ {s} ELSE KeyRefs(r)
    BY <1>7 DEF KeyRefs
  <2>4. s \in KeyRefs(d)
    BY DEF KeyRefs
  <2>5. \A r \in Slots : item'[r].ref_count = item[r].ref_count
                         /\ (InQueue(r)' <=> InQueue(r))
    BY <1>7 DEF InQueue
  <2>6. PICK C : C = {s}
    OBVIOUS
  <2>7. /\ C \in SUBSET KeyRefs(d) /\ {} \in SUBSET ImageRefs(d)
        /\ {} \in SUBSET ListRefs(d) /\ \E x : C = {x}
        /\ KeyRefs(d)' = KeyRefs(d) \ C /\ ImageRefs(d)' = ImageRefs(d) \ {}
        /\ ListRefs(d)' = ListRefs(d) \ {} /\ DecRefs(d)' = DecRefs(d) \cup {t}
        /\ t \notin DecRefs(d)
    BY <2>1, <2>2, <2>3, <2>4, <2>6
  <2>8. \A r \in Slots \ {d} :
          /\ ImageRefs(r)' = ImageRefs(r) /\ ListRefs(r)' = ListRefs(r)
          /\ KeyRefs(r)' = KeyRefs(r) /\ DecRefs(r)' = DecRefs(r)
    BY <2>1, <2>2, <2>3
  <2> HIDE DEF InQueue
  <2> QED BY <1>2, <2>5, <2>7, <2>8, HandedOver
<1>16. Paths'
  <2>1. ASSUME NEW n \in Slots, t = Driver, Linked(n), Stays(t, Op("walk", n))
        PROVE  Off(ops[1], n)' /\ Off(ops[2], n)'
    <3>1. Off(Last(todo[t]), n)
      BY <2>1, TopOff
    <3>2. /\ n # s
          /\ ChainOf(s) = ChainOf(n) \/ item[s].key \in Under(ChainOf(n))
      BY <3>1 DEF Off
    <3>3. /\ item[n].key \in Keys /\ ChainOf(n) \in Buckets
          /\ item[s].key \in Keys /\ item[d].key \in Uses[item[s].key]
      BY <1>6, <2>1, ListElements DEF AllPlaced, Placed
    <3>4. Below(ChainOf(n), Under(ChainOf(n)))
      BY <3>3 DEF ChainsApart, Under
    <3>5. item[d].key \in Under(ChainOf(n)) /\ d # n
      BY <3>2, <3>3, <3>4 DEF Below, ChainOf
    <3>6. /\ ChainOf(s)' = ChainOf(s) /\ ChainOf(n)' = ChainOf(n)
          /\ Under(ChainOf(n))' = Under(ChainOf(n))
          /\ item'[s].key = item[s].key /\ item'[d].key = item[d].key
      BY <1>2, <1>13 DEF ChainOf
    <3>7. PICK o : o = ops[1]
      OBVIOUS
    <3>8. PICK p : p = ops[2]
      OBVIOUS
    <3> HIDE DEF ChainOf
    <3>9. Off(o, n)' /\ Off(p, n)'
      BY <1>3, <3>2, <3>5, <3>6, <3>7, <3>8 DEF Off
    <3> QED BY <3>7, <3>8, <3>9
  <2>2. \A n \in Slots : \A i \in DOMAIN ops :
           t = Driver /\ Linked(n) /\ Stays(t, Op("walk", n)) => Off(ops[i], n)'
    BY <1>3, <2>1
  <2>3. \A i \in DOMAIN ops : ops[i].op # "walk"
    BY <1>3
  <2> QED BY <1>4, <1>6, <1>10, <1>13, <2>2, <2>3, PathsKept
<1> QED BY <1>10, <1>11, <1>12, <1>14, <1>15, <1>16

\* An item whose key refers to nothing any more is freed.
LEMMA Frees ==
  ASSUME IInv, NEW t \in Threads, ~Idle(t), NEW s \in Slots,
         Last(todo[t]).op = "destruct", Last(todo[t]).x = s, item[s].uses = {},
         item' = [item EXCEPT ![s] = Unallocated], Then(t, <<>>),
         UNCHANGED <<chain, queue, cache_size, got, lists, phase>>
  PROVE  IInv'
<1> USE DEF IInv
<1>1. PICK ops : ops = <<>>
  OBVIOUS
<1>2. ops \in Seq(Ops) /\ \A i \in DOMAIN ops : FALSE
  BY <1>1
<1>3. Stepped(t, ops)
  BY <1>1, <1>2, ThenSteps
<1>4. Fits(t, ops)
  BY <1>1, Nothing_Fits
<1>5. t # Driver => ~Maintaining
  BY OnItem DEF OnItems
<1>6. ~Linked(s) /\ ~InQueue(s) /\ item[s].ref_count = 0
  BY OnItem DEF OnItems, Ready, Lost
<1>7. /\ item' \in [Slots -> Item] /\ \A r \in Slots \ {s} : item'[r] = item[r]
      /\ item'[s] = Unallocated /\ item'[s].ref_count = 0 /\ item'[s].uses = {}
      /\ ~item'[s].live
  BY DEF TypeOK, Unallocated, Item
<1>8. /\ Moved({s}) /\ (Linked(s)' <=> Linked(s)) /\ (InQueue(s)' <=> InQueue(s))
      /\ \A b \in Buckets : s \in ToSet(chain'[b]) => s \in ToSet(chain[b])
      /\ \A c \in Caches : s \in ToSet(queue'[c]) => s \in ToSet(queue[c])
  BY <1>7, Changed
<1>9. /\ TypeOK' /\ Lists' /\ Stacks' /\ Distinct' /\ Sizes' /\ Walks'
      /\ Gotten' /\ ListsCounted' /\ Turns' /\ KeysStay
  <2>1. \A r \in {s} \cap Slots :
           /\ (Linked(r)' <=> Linked(r)) /\ (InQueue(r)' <=> InQueue(r))
           /\ Linked(r) => item'[r].key = item[r].key /\ item'[r].uses = item[r].uses
    BY <1>6, <1>8
  <2> QED BY <1>2, <1>3, <1>4, <1>5, <1>8, <2>1, Undisturbed
<1>10. OneCustodian'
  <2>1. Takes(t, ops)
    BY <1>2 DEF Takes
  <2> QED BY <1>3, <2>1, CustodyKept
<1>11. AllReady'
  <2>1. ASSUME NEW o \in Ops, Stays(t, o), Ready(o), o.op \in OnItems \ {"dec"}, o.x = s
        PROVE  FALSE
    BY <1>6, <2>1, NothingElse DEF Custody
  <2> QED BY <1>2, <1>3, <1>8, <2>1, AllReadyKept
<1>12. AllPlaced'
  <2>1. KeyRefs(s) = {}
    BY <1>6, Holders
  <2>2. ASSUME NEW r \in Slots \ {s} PROVE Placed(r)'
    <3>1. Same(r) /\ Placed(r)
      BY <1>8 DEF Moved, AllPlaced
    <3>2. \A d \in item[r].uses : item'[d].key = item[d].key
      <4>1. item[r].uses \subseteq Slots /\ s \notin item[r].uses
        BY <2>1, ItemTypes DEF KeyRefs
      <4> QED BY <1>7, <4>1
    <3> QED BY <1>3, <3>1, <3>2, PlacedKept
  <2>3. Placed(s)'
    <3>1. ~Live(s)' /\ item'[s] = Unallocated /\ item'[s].uses = {}
      BY <1>7 DEF Live
    <3>2. /\ \A b \in Buckets : s \notin ToSet(chain'[b])
          /\ \A c \in Caches : s \notin ToSet(queue'[c])
          /\ ~Linked(s)' /\ ~InQueue(s)'
      BY <1>6, <1>8 DEF Linked, InQueue
    <3> HIDE DEF InHand, Linked, InQueue, Live
    <3> QED BY <3>1, <3>2 DEF Placed
  <2> QED BY <2>2, <2>3 DEF AllPlaced
<1>13. Counted'
  <2>1. Len(ops) = 0
    BY <1>1
  <2>2. \A r : t \notin DecRefs(r)
    BY <1>3, DecsKept
  <2>3. \A r : DecRefs(r)' = DecRefs(r) \ {t}
    BY <1>3, <2>1, DecsKept
  <2>4. \A r : DecRefs(r)' = DecRefs(r)
    BY <2>2, <2>3
  <2>5. \A r \in {s} \cap Slots :
          /\ item'[r].ref_count = item[r].ref_count /\ item'[r].uses = item[r].uses
          /\ InQueue(r)' <=> InQueue(r)
    BY <1>6, <1>7, <1>8
  <2>6. images' = images /\ \A f \in Frames : frame'[f].images = frame[f].images
    BY DEF lists
  <2> QED BY <1>8, <2>4, <2>5, <2>6, CountedSame
<1>14. Paths'
  <2>1. \A r \in Slots : item'[r].key = item[r].key
           \/ ~(\E o \in Ops : Stays(t, o) /\ o.op = "destruct" /\ o.x = r)
    <3>1. \A o : Stays(t, o) /\ o.op \in Custody => o.x # s
      BY SoleCustodian DEF Custody
    <3>2. \A r \in Slots \ {s} : item'[r].key = item[r].key
      BY <1>7
    <3> QED BY <3>1, <3>2 DEF Custody
  <2> QED BY <1>2, <1>3, <1>5, <1>9, <2>1, PathsKept
<1> QED BY <1>9, <1>10, <1>11, <1>12, <1>13, <1>14

\* destroy_item.
LEMMA StepDestruct ==
  ASSUME IInv, ChainsApart, NEW t \in Threads, Destruct(t)
  PROVE  IInv'
<1>1. ~Idle(t) /\ Last(todo[t]).op = "destruct"
  BY DEF Destruct, Doing
<1>2. PICK s \in Slots : s = Last(todo[t]).x
  BY <1>1, OnItem DEF OnItems
<1>3. /\ UNCHANGED <<chain, queue, cache_size, got, lists, phase>>
      /\ \/ \E d \in item[s].uses :
              /\ item' = [item EXCEPT ![s].uses = @ \ {d}]
              /\ Then(t, <<Op("destruct", s), Op("dec", d)>>)
         \/ /\ item[s].uses = {}
            /\ item' = [item EXCEPT ![s] = Unallocated]
            /\ Then(t, <<>>)
  BY <1>2 DEF Destruct, Subject
<1> HIDE DEF Then
<1>4. CASE \E d \in item[s].uses :
              /\ item' = [item EXCEPT ![s].uses = @ \ {d}]
              /\ Then(t, <<Op("destruct", s), Op("dec", d)>>)
  BY <1>1, <1>2, <1>3, <1>4, DropsUse
<1>5. CASE /\ item[s].uses = {} /\ item' = [item EXCEPT ![s] = Unallocated]
           /\ Then(t, <<>>)
  BY <1>1, <1>2, <1>3, <1>5, Frees
<1> QED BY <1>3, <1>4, <1>5

-----------------------------------------------------------------------------
(* Finding, building and publishing items                                  *)

\* An item that somebody has in custody now.
LEMMA PlacedInHand ==
  ASSUME NEW r, Same(r), Placed(r), InHand(r)',
         \A d \in item[r].uses : item'[d].key = item[d].key
  PROVE  Placed(r)'
<1>1. /\ (Linked(r)' <=> Linked(r)) /\ (InQueue(r)' <=> InQueue(r))
      /\ (Live(r)' <=> Live(r)) /\ item'[r] = item[r]
      /\ \A b \in Buckets : r \in ToSet(chain'[b]) <=> r \in ToSet(chain[b])
      /\ \A c \in Caches : r \in ToSet(queue'[c]) <=> r \in ToSet(queue[c])
  BY SameView DEF Same
<1> HIDE DEF Linked, InQueue, Live, InHand
<1> QED BY <1>1 DEF Placed

\* A worker gets an item.
LEMMA GottenMore ==
  ASSUME TypeOK, Gotten, NEW w \in Workers, NEW ops, Stepped(w, ops),
         NEW k \in Keys, NEW e \in Slots, got' = [got EXCEPT ![w][k] = e],
         InQueue(e)', item'[e].key = k,
         \A v \in Workers : \A l \in Keys : \A r \in Slots :
           got[v][l] = r => InQueue(r)' /\ item'[r].key = l,
         \A i \in DOMAIN ops : ops[i].op \notin {"lookup", "build"}
  PROVE  Gotten' /\ got' \in [Workers -> [Keys -> Slots \cup {None}]]
<1>1. got \in [Workers -> [Keys -> Slots \cup {None}]] /\ e # None
  BY BoundsAssumption DEF TypeOK
<1>2. got' \in [Workers -> [Keys -> Slots \cup {None}]]
  BY <1>1
<1>3. \A v \in Workers, l \in Keys : got'[v][l] = IF v = w /\ l = k THEN e ELSE got[v][l]
  BY <1>1
<1>4. \A v \in Workers : \A l \in Keys : \A r \in Slots :
        got'[v][l] = r => InQueue(r)' /\ item'[r].key = l
  BY <1>3
<1>6. ASSUME NEW v \in Workers, NEW l \in Keys, got'[v][l] # None
      PROVE  InQueue(got[v][l])' /\ item'[got'[v][l]].key = l
  <2>1. PICK r \in Slots : r = got'[v][l]
    BY <1>2, <1>6
  <2>2. InQueue(r)' /\ item'[r].key = l
    BY <1>4, <2>1
  <2> QED BY <2>1, <2>2 DEF InQueue
<1>5. ASSUME NEW v \in Workers, NEW i \in DOMAIN todo'[v],
             todo'[v][i].op \in {"lookup", "build"}
      PROVE  /\ todo'[v][i].x \in Keys
             /\ \A d \in Uses[todo'[v][i].x] : got'[v][d] # None
  <2>1. v \in Threads /\ w \in Threads
    BY DEF Threads
  <2>2. Kept(w, v, i) /\ todo'[v][i] = todo[v][i]
    BY <1>5, <2>1, HandKept
  <2>3. i \in DOMAIN todo[v]
    BY <2>2 DEF Kept
  <2>4. /\ todo[v][i].x \in Keys
        /\ \A d \in Uses[todo[v][i].x] : got[v][d] # None
    BY <1>5, <2>2, <2>3 DEF Gotten
  <2>5. Uses[todo[v][i].x] \subseteq Keys
    BY <2>4, KeysAssumption
  <2> QED BY <1>1, <1>3, <2>2, <2>4, <2>5
<1> QED BY <1>2, <1>6, <1>5 DEF Gotten

\* An item comes to the end of its queue.
LEMMA Queued ==
  ASSUME TypeOK, Lists, NEW e \in Slots, QueueHas(e), HomeOf(e) \in Caches,
         item' \in [Slots -> Item], \A r \in Slots \ {e} : item'[r] = item[r]
  PROVE  /\ UNCHANGED chain => Moved({e}) /\ (Linked(e)' <=> Linked(e))
         /\ InQueue(e)'
         /\ \A r \in Slots \ {e} : InQueue(r)' <=> InQueue(r)
         /\ \A r \in Slots \ {e} : \A c \in Caches :
              r \in ToSet(queue'[c]) <=> r \in ToSet(queue[c])
         /\ \A c \in Caches : IsInjective(queue'[c])
         /\ queue' \in [Caches -> Seq(Slots)]
         /\ \A c \in Caches : e \in ToSet(queue'[c]) =>
              c = HomeOf(e) \/ e \in ToSet(queue[c])
<1>1. \A r \in Slots \ {e} : \A c \in Caches :
        r \in ToSet(queue'[c]) <=> r \in ToSet(queue[c])
  BY DEF QueueHas
<1>2. \A r \in Slots \ {e} : InQueue(r)' <=> InQueue(r)
  BY <1>1 DEF InQueue
<1>3. InQueue(e)'
  BY DEF QueueHas, InQueue
<1>4. ASSUME UNCHANGED chain
      PROVE  Moved({e}) /\ (Linked(e)' <=> Linked(e))
  <2>1. Lists'
    BY <1>4 DEF Lists, QueueHas
  <2>2. \A r \in Slots \ {e} : Same(r)
    BY <1>1, <1>4 DEF Same
  <2> QED BY <1>4, <2>1, <2>2 DEF Moved, QueueHas, TypeOK, Linked
<1> QED BY <1>1, <1>2, <1>3, <1>4 DEF QueueHas

\* An item that is there is taken up.
LEMMA Promotes ==
  ASSUME IInv, NEW w \in Workers, ~Idle(w), NEW e \in Slots, Linked(e),
         NEW k \in Keys, item[e].key = k, NEW s, s = Last(todo[w]).x, NEW ops,
         \/ Last(todo[w]).op = "lookup" /\ ops = <<>>
         \/ Last(todo[w]).op = "publish" /\ ops = <<Op("destruct", s)>>,
         Promote(e, item), Obtain(w, k, e), Then(w, ops),
         UNCHANGED <<chain, cache_size, lists, phase>>
  PROVE  IInv'
<1> USE DEF IInv
<1>1. w \in Threads /\ w # Driver /\ Last(todo[w]).op \in {"lookup", "publish"}
      /\ Driver \in Threads
  BY BoundsAssumption DEF Threads
<1>2. Last(todo[w]).op = "publish" =>
        s \in Slots /\ Live(s) /\ Lost(s) /\ item[s].shard /\ s # e
  BY <1>1, OnItem DEF OnItems, Ready, Lost
<1>3. /\ ops \in Seq(Ops)
      /\ \A i \in DOMAIN ops : /\ ops[i].op = "destruct" /\ ops[i].x = s
                               /\ i = 1 /\ Last(todo[w]).op = "publish"
      /\ Last(todo[w]).op = "publish" =>
           1 \in DOMAIN ops /\ ops[1].op = "destruct" /\ ops[1].x = s
      /\ Op("destruct", s).op = "destruct"
  <2>1. CASE Last(todo[w]).op = "lookup" /\ ops = <<>>
    BY <2>1 DEF Op
  <2>2. CASE Last(todo[w]).op = "publish" /\ ops = <<Op("destruct", s)>>
    BY <1>2, <2>2, OpTypes
  <2> QED BY <2>1, <2>2
<1>4. Stepped(w, ops)
  BY <1>1, <1>3, ThenSteps
<1>5. Fits(w, ops)
  <2>1. w \in MayDo("destruct") /\ MayWait("publish") \subseteq MayWait("destruct")
    BY <1>1 DEF MayDo, MayWait, Alone, Loops, Steps
  <2>2. Fits(w, <<>>)
    BY <1>1, Nothing_Fits
  <2>3. ASSUME Last(todo[w]).op = "publish" PROVE Fits(w, <<Op("destruct", s)>>)
    BY <1>1, <1>3, <2>1, <2>3, OneFits
  <2> QED BY <2>2, <2>3
<1>6. phase = "frame" /\ ~Maintaining
  BY <1>1, AtWork DEF Turns
<1>7. HomeOf(e) \in Caches /\ Live(e) /\ item[e].shard
  BY ListElements
<1>8. QueueHas(e)
  <2>1. PICK a : a = HomeOf(e)
    OBVIOUS
  <2>2. queue' = [queue EXCEPT ![a] = Append(Without(@, e), e)]
    BY <2>1 DEF Promote
  <2> QED BY <1>7, <2>1, <2>2, QueueTakes
<1>9. /\ item' \in [Slots -> Item] /\ \A r \in Slots \ {e} : item'[r] = item[r]
      /\ item'[e].ref_count = item[e].ref_count + (IF InQueue(e) THEN 0 ELSE 1)
      /\ item'[e].key = item[e].key /\ item'[e].uses = item[e].uses
      /\ item'[e].live = item[e].live /\ item'[e].shard = item[e].shard
  <2>1. /\ item \in [Slots -> Item] /\ item[e] \in Item
        /\ item[e].ref_count \in Int /\ item[e].ref_count + 1 \in Int
    BY ItemTypes DEF TypeOK
  <2>2. CASE InQueue(e)
    BY <2>1, <2>2 DEF Promote
  <2>3. CASE ~InQueue(e)
    <3>1. item' = [r \in Slots |->
            IF r \in {e} THEN [item[r] EXCEPT !.ref_count = item[r].ref_count + 1]
                         ELSE item[r]]
      BY <2>3 DEF Promote, Inc
    <3>2. PICK i \in Item : i = [item[e] EXCEPT !.ref_count = item[e].ref_count + 1]
      BY <2>1, Recounted
    <3>3. /\ i.ref_count = item[e].ref_count + 1 /\ i.key = item[e].key
          /\ i.uses = item[e].uses /\ i.live = item[e].live /\ i.shard = item[e].shard
      BY <2>1, <3>2, Recounted
    <3>4. item' = [r \in Slots |-> IF r = e THEN i ELSE item[r]]
      BY <3>1, <3>2
    <3> HIDE DEF InQueue
    <3> QED BY <2>1, <2>3, <3>3, <3>4
  <2> QED BY <2>2, <2>3
<1>10. /\ Moved({e}) /\ (Linked(e)' <=> Linked(e)) /\ InQueue(e)'
       /\ \A r \in Slots \ {e} : InQueue(r)' <=> InQueue(r)
       /\ \A c \in Caches : e \in ToSet(queue'[c]) => c = HomeOf(e) \/ e \in ToSet(queue[c])
  BY <1>7, <1>8, <1>9, Queued
<1>11. UNCHANGED <<images, frame, images_root, prev_images_root, held>>
  BY DEF lists
<1>12. Gotten' /\ got' \in [Workers -> [Keys -> Slots \cup {None}]]
  <2>1. \A v \in Workers : \A l \in Keys : \A r \in Slots :
          got[v][l] = r => InQueue(r) /\ item[r].key = l
    BY BoundsAssumption DEF Gotten
  <2>2. \A v \in Workers : \A l \in Keys : \A r \in Slots :
          got[v][l] = r => InQueue(r)' /\ item'[r].key = l
    <3> HIDE DEF InQueue
    <3> QED BY <1>9, <1>10, <2>1
  <2>3. \A i \in DOMAIN ops : ops[i].op \notin {"lookup", "build"}
    BY <1>3
  <2>4. got' = [got EXCEPT ![w][k] = e]
    BY DEF Obtain
  <2> HIDE DEF InQueue
  <2> QED BY <1>4, <1>9, <1>10, <2>2, <2>3, <2>4, GottenMore
<1>13. TypeOK' /\ Lists'
  BY <1>1, <1>4, <1>10, <1>11, <1>12, TypesKept DEF TypeOK, Moved
<1>14. Stacks'
  BY <1>1, <1>4, <1>5, StacksKept
<1>15. OneCustodian'
  <2>1. Takes(w, ops)
    <3>1. Last(todo[w]).op = "publish" =>
            \A u \in Threads : \A j \in DOMAIN todo[u] : Kept(w, u, j) => ~InCustody(s, u, j)
      BY <1>1, <1>2, SoleCustodian DEF Custody
    <3> QED BY <1>3, <3>1 DEF Takes
  <2> QED BY <1>1, <1>4, <2>1, CustodyKept
<1>16. KeysStay
  BY <1>9 DEF KeysStay
<1>17. AllReady'
  <2>1. ASSUME NEW i \in DOMAIN ops PROVE Ready(ops[i])'
    <3>1. PICK o : o = ops[i]
      OBVIOUS
    <3>2. o.op = "destruct" /\ o.x = s /\ s \in Slots \ {e} /\ Live(s) /\ Lost(s)
      BY <1>2, <1>3, <3>1
    <3>3. Same(s)
      BY <1>10, <3>2 DEF Moved
    <3>4. Live(s)' /\ Lost(s)'
      BY <3>2, <3>3, SameView
    <3> HIDE DEF Live, Lost
    <3>5. Ready(o)'
      BY <3>2, <3>4 DEF Ready, OnItems
    <3> QED BY <3>1, <3>5
  <2>2. ASSUME NEW o \in Ops, Stays(w, o), Ready(o), o.op \in OnItems \ {"dec"}, o.x = e
        PROVE  Ready(o)'
    <3>1. o.op \notin {"walk", "orphan", "evict"}
      BY <1>1, <1>6, <2>2, StaysWhere
    <3>2. o.op = "zero"
      BY <2>2, <3>1 DEF OnItems, Ready, Lost
    <3>3. Live(e)' /\ item'[e].shard = item[e].shard
      BY <1>7, <1>9 DEF Live
    <3> HIDE DEF Linked, InQueue, Live
    <3> QED BY <1>10, <2>2, <3>2, <3>3 DEF Ready, OnItems
  <2> QED BY <1>1, <1>4, <1>10, <2>1, <2>2, AllReadyKept
<1>18. AllPlaced'
  <2>1. ASSUME NEW r \in Slots PROVE \A d \in item[r].uses : item'[d].key = item[d].key
    <3>1. item[r].uses \subseteq Slots
      BY ItemTypes
    <3> QED BY <1>9, <3>1
  <2>2. ASSUME NEW r \in Slots \ {e} PROVE Placed(r)'
    <3>1. Same(r) /\ Placed(r)
      BY <1>10 DEF Moved, AllPlaced
    <3>2. CASE Last(todo[w]).op = "publish" /\ r = s
      <4>1. InHand(r)'
        BY <1>1, <1>3, <1>4, <3>2, HandKept DEF Custody
      <4> QED BY <2>1, <3>1, <4>1, PlacedInHand
    <3>3. CASE ~(Last(todo[w]).op = "publish" /\ r = s)
      BY <1>1, <1>4, <2>1, <3>1, <3>3, PlacedKept DEF Custody
    <3> QED BY <3>2, <3>3
  <2>3. Placed(e)'
    <3>1. Placed(e) /\ Live(e)'
      BY <1>7, <1>9 DEF AllPlaced, Live
    <3>2. \A c \in Caches : e \in ToSet(queue'[c]) => CacheOf[item[e].key] = c
      BY <1>10, <3>1 DEF Placed, HomeOf
    <3> HIDE DEF Linked, InQueue, Live, InHand
    <3> QED BY <1>7, <1>9, <1>10, <2>1, <3>1, <3>2 DEF Placed
  <2> QED BY <2>2, <2>3 DEF AllPlaced
<1>19. Counted'
  <2>1. \A r : DecRefs(r)' = DecRefs(r)
    <3>1. Len(ops) = 0 \/ ops[Len(ops)].op # "dec"
      BY <1>3, NoDecOnTop
    <3>2. \A r : w \notin DecRefs(r)
      BY <1>1, <1>4, DecsKept
    <3>3. \A r : DecRefs(r)' = DecRefs(r) \ {w}
      BY <1>1, <1>4, <3>1, DecsKept
    <3> QED BY <3>2, <3>3
  <2>2. \A r : ImageRefs(r)' = ImageRefs(r) /\ ListRefs(r)' = ListRefs(r)
    BY <1>11 DEF ImageRefs, ListRefs
  <2>3. \A r : KeyRefs(r)' = KeyRefs(r)
    BY <1>9, SameKeys
  <2>4. \A r \in Slots \ {e} :
          /\ item'[r].ref_count = item[r].ref_count /\ (InQueue(r)' <=> InQueue(r))
          /\ ImageRefs(r)' = ImageRefs(r) /\ ListRefs(r)' = ListRefs(r)
          /\ KeyRefs(r)' = KeyRefs(r) /\ DecRefs(r)' = DecRefs(r)
    BY <1>9, <1>10, <2>1, <2>2, <2>3
  <2>5. item'[e].ref_count = Refs(e)'
    <3>1. PICK q \in Nat : q = (IF InQueue(e) THEN 1 ELSE 0)
      OBVIOUS
    <3>2. item[e].ref_count = q + Cardinality(ImageRefs(e)) + Cardinality(ListRefs(e))
            + Cardinality(KeyRefs(e)) + Cardinality(DecRefs(e))
      BY <3>1 DEF Counted, Refs
    <3>3. (IF InQueue(e)' THEN 1 ELSE 0) = 1
      BY <1>10
    <3>4. Refs(e)' = 1 + Cardinality(ImageRefs(e)) + Cardinality(ListRefs(e))
            + Cardinality(KeyRefs(e)) + Cardinality(DecRefs(e))
      BY <2>1, <2>2, <2>3, <3>3 DEF Refs
    <3>5. (IF InQueue(e) THEN 0 ELSE 1) = 1 - q
      BY <3>1
    <3> HIDE DEF InQueue, Refs
    <3>6. PICK i \in Nat, l \in Nat, h \in Nat, d \in Nat :
            /\ i = Cardinality(ImageRefs(e)) /\ l = Cardinality(ListRefs(e))
            /\ h = Cardinality(KeyRefs(e)) /\ d = Cardinality(DecRefs(e))
      BY RefSets
    <3>7. item[e].ref_count = q + i + l + h + d /\ Refs(e)' = 1 + i + l + h + d
      BY <3>2, <3>4, <3>6
    <3>8. item'[e].ref_count = item[e].ref_count + (1 - q)
      BY <1>9, <3>5
    <3>9. (q + i + l + h + d) + (1 - q) = 1 + i + l + h + d
      OBVIOUS
    <3> QED BY <3>7, <3>8, <3>9
  <2>6. \A r \in {e} \cap Slots : item'[r].ref_count = Refs(r)'
    BY <2>5
  <2> HIDE DEF InQueue
  <2> QED BY <2>4, <2>6, CountedKept
<1>20. Distinct'
  <2>1. \A r \in {e} \cap Slots : Linked(r)' => Linked(r) /\ item'[r].key = item[r].key
                                              /\ item'[r].uses = item[r].uses
    BY <1>9
  <2> QED BY <1>10, <2>1, DistinctKept
<1>21. Sizes'
  <2>1. \A c \in Caches : Pending(Driver, "empty", c) => Pending(Driver, "empty", c)'
    BY <1>1, <1>4, PendingKept
  <2>2. \A r \in {e} \cap Slots : /\ Linked(r)' <=> Linked(r)
                                 /\ Linked(r) => item'[r].key = item[r].key
    BY <1>9, <1>10
  <2> QED BY <1>10, <2>1, <2>2, SizesKept
<1>22. Walks'
  BY <1>1, <1>3, <1>4, <1>16, WalksKept
<1>23. Paths'
  BY <1>1, <1>3, <1>4, <1>6, <1>9, <1>16, PathsKept
<1>24. ListsCounted'
  BY <1>1, <1>3, <1>4, <1>11, ListsKept
<1>25. Turns'
  <2>1. \A r \in Slots : Linked(r)' => phase = "frame"
    BY <1>6
  <2>2. \A c : ~(Last(todo[w]).op = "empty" /\ Last(todo[w]).x = c)
    BY <1>1
  <2> QED BY <1>1, <1>3, <1>4, <1>6, <1>11, <2>1, <2>2, TurnsKept DEF Loops
<1> QED BY <1>12, <1>13, <1>14, <1>15, <1>17, <1>18, <1>19, <1>20, <1>21, <1>22,
           <1>23, <1>24, <1>25

\* A lookup finds the item or does not.
LEMMA StepLookup ==
  ASSUME IInv, NEW w \in Workers, Lookup(w)
  PROVE  IInv'
<1>1. PICK k : k = Subject(w)
  OBVIOUS
<1>2. Doing(w, "lookup") /\ ~Idle(w) /\ Last(todo[w]).op = "lookup" /\ Last(todo[w]).x = k
      /\ w \in Threads
  BY <1>1 DEF Lookup, Doing, Subject, Threads
<1>3. k \in Keys /\ Bucket[k] \in Buckets
  <2>1. Last(todo[w]) \in Ops
    BY <1>2, Top DEF IInv
  <2> QED BY <1>2, <2>1, OpTypes, KeysAssumption
<1>4. CASE \E s \in Found(k, Deps(w, k)) :
             Promote(s, item) /\ Obtain(w, k, s) /\ Then(w, <<>>)
  <2>1. PICK s \in Found(k, Deps(w, k)) :
          Promote(s, item) /\ Obtain(w, k, s) /\ Then(w, <<>>)
    BY <1>4
  <2>2. s \in ToSet(chain[Bucket[k]]) /\ item[s].key = k
    BY <2>1 DEF Found
  <2>3. s \in Slots /\ Linked(s)
    BY <1>3, <2>2, ListElements DEF IInv
  <2>4. UNCHANGED <<chain, cache_size, lists, phase>>
    BY DEF Lookup
  <2>5. PICK z : z = Last(todo[w]).x
    OBVIOUS
  <2>6. PICK ops : ops = <<>>
    OBVIOUS
  <2> HIDE DEF Promote, Obtain, Then
  <2> QED BY <1>2, <1>3, <2>1, <2>2, <2>3, <2>4, <2>5, <2>6, Promotes
<1>5. CASE /\ Then(w, <<Op("build", k)>>)
           /\ UNCHANGED <<item, queue, got>>
  <2>1. UNCHANGED <<item, chain, queue, cache_size, got, lists, phase>>
    BY <1>5 DEF Lookup
  <2> QED BY <1>1, <1>2, <1>5, <2>1, StepMiss
<1> QED BY <1>1, <1>4, <1>5 DEF Lookup

\* What a new item's chain, queue and cache look like when it is published.
Joined(s, k) ==
  /\ k \in Keys /\ HomeOf(s) = CacheOf[k] /\ HomeOf(s) \in Caches
  /\ Bucket[k] \in Buckets
  /\ item' \in [Slots -> Item] /\ \A r \in Slots \ {s} : item'[r] = item[r]
  /\ item'[s].ref_count = 1 /\ item'[s].key = k /\ item'[s].uses = item[s].uses
  /\ item'[s].live = item[s].live /\ item'[s].shard = item[s].shard
  /\ Moved({s}) /\ Linked(s)' /\ InQueue(s)'
  /\ \A b \in Buckets : s \in ToSet(chain'[b]) => b = Bucket[k]
  /\ \A c \in Caches : s \in ToSet(queue'[c]) => c = CacheOf[k]
  /\ \A r \in Slots \ {s} : (Linked(r)' <=> Linked(r)) /\ (InQueue(r)' <=> InQueue(r))

\* A new item, at the head of its chain and the end of its queue.
LEMMA Joins ==
  ASSUME IInv, NEW s \in Slots, Live(s), Lost(s), item[s].shard,
         NEW k, k = item[s].key,
         chain' = [chain EXCEPT ![Bucket[k]] = <<s>> \o @],
         queue' = [queue EXCEPT ![CacheOf[k]] = Append(@, s)],
         item' = [item EXCEPT ![s].ref_count = 1]
  PROVE  Joined(s, k)
<1> USE DEF IInv
<1>1. k \in Keys /\ HomeOf(s) = CacheOf[k] /\ HomeOf(s) \in Caches /\ Bucket[k] \in Buckets
  <2>1. k \in Keys
    BY DEF AllPlaced, Placed
  <2> QED BY <2>1, KeysAssumption DEF HomeOf
<1>2. /\ item' \in [Slots -> Item] /\ \A r \in Slots \ {s} : item'[r] = item[r]
      /\ item'[s].ref_count = 1 /\ item'[s].key = k /\ item'[s].uses = item[s].uses
      /\ item'[s].live = item[s].live /\ item'[s].shard = item[s].shard
  <2>1. item \in [Slots -> Item] /\ item[s] \in Item
    BY ItemTypes DEF TypeOK
  <2>0. PICK n \in Int : n = 1
    OBVIOUS
  <2>2. PICK i \in Item : i = [item[s] EXCEPT !.ref_count = n]
    BY <2>1, Recounted
  <2>3. /\ i.ref_count = n /\ i.key = item[s].key /\ i.uses = item[s].uses
        /\ i.live = item[s].live /\ i.shard = item[s].shard
    BY <2>1, <2>2, Recounted
  <2>4. item' = [item EXCEPT ![s] = i]
    BY <2>0, <2>2
  <2> QED BY <2>0, <2>1, <2>3, <2>4
<1>3. ~Linked(s) /\ ~InQueue(s)
  BY DEF Lost
<1>4. ChainHas(s, k)
  BY <1>1, <1>3, ChainTakes
<1>5. QueueHas(s)
  <2>1. PICK a : a = HomeOf(s)
    OBVIOUS
  <2>2. queue' = [queue EXCEPT ![a] = Append(@, s)]
    BY <1>1, <2>1
  <2> QED BY <1>1, <1>3, <2>1, <2>2, QueueTakes
<1>6. /\ InQueue(s)' /\ \A c \in Caches : IsInjective(queue'[c])
      /\ queue' \in [Caches -> Seq(Slots)]
      /\ \A r \in Slots \ {s} : \A c \in Caches :
           r \in ToSet(queue'[c]) <=> r \in ToSet(queue[c])
      /\ \A c \in Caches : s \in ToSet(queue'[c]) => c = HomeOf(s) \/ s \in ToSet(queue[c])
  BY <1>1, <1>2, <1>5, Queued
<1>7. /\ Linked(s)' /\ \A b \in Buckets : IsInjective(chain'[b])
      /\ chain' \in [Buckets -> Seq(Slots)]
      /\ \A r \in Slots \ {s} : \A b \in Buckets :
           r \in ToSet(chain'[b]) <=> r \in ToSet(chain[b])
      /\ \A b \in Buckets : s \in ToSet(chain'[b]) => b = Bucket[k]
  BY <1>1, <1>3, <1>4 DEF ChainHas, Linked
<1>8. \A c \in Caches : s \in ToSet(queue'[c]) => c = CacheOf[k]
  BY <1>1, <1>3, <1>6 DEF InQueue
<1>9. Moved({s})
  <2>1. Lists'
    BY <1>6, <1>7 DEF Lists
  <2>2. \A r \in Slots \ {s} : Same(r)
    BY <1>2, <1>6, <1>7 DEF Same
  <2> QED BY <1>2, <1>6, <1>7, <2>1, <2>2 DEF Moved
<1>10. \A r \in Slots \ {s} : (Linked(r)' <=> Linked(r)) /\ (InQueue(r)' <=> InQueue(r))
  BY <1>9, SameView DEF Moved
<1> HIDE DEF Linked, InQueue, Moved, IInv
<1> QED BY <1>1, <1>2, <1>6, <1>7, <1>8, <1>9, <1>10 DEF Joined

\* The books of a cache that a new item joins.
LEMMA SizesGrow ==
  ASSUME IInv, NEW w \in Workers, ~Idle(w), Last(todo[w]).op = "publish",
         Stepped(w, <<>>), NEW s \in Slots, ~Linked(s), Linked(s)',
         NEW h \in Caches, h = HomeOf(s),
         cache_size' = [cache_size EXCEPT ![h] = @ + 1],
         \A r \in Slots : item'[r].key = item[r].key,
         \A r \in Slots \ {s} : Linked(r)' <=> Linked(r)
  PROVE  Sizes' /\ cache_size' \in [Caches -> Nat]
<1> USE DEF IInv
<1>1. /\ cache_size \in [Caches -> Nat] /\ w \in Threads /\ Driver \in Threads
      /\ w # Driver
  BY BoundsAssumption DEF TypeOK, Threads
<1>2. \A r \in Slots : Linked(r)' <=> Linked(r) \/ r = s
  <2> HIDE DEF Linked
  <2> QED OBVIOUS
<1>3. \A r \in Slots : HomeOf(r)' = HomeOf(r)
  BY DEF HomeOf
<1>4. /\ LinkedIn(h)' = LinkedIn(h) \cup {s} /\ s \notin LinkedIn(h)
      /\ \A c \in Caches \ {h} : LinkedIn(c)' = LinkedIn(c)
  <2> HIDE DEF Linked
  <2> QED BY <1>2, <1>3 DEF LinkedIn
<1>5. Cardinality(LinkedIn(h)') = Cardinality(LinkedIn(h)) + 1
      /\ Cardinality(LinkedIn(h)) \in Nat
  BY <1>4, LinkedInFinite, OneMore
<1>6. /\ \A c \in Caches \ {h} : cache_size'[c] = cache_size[c]
      /\ cache_size'[h] = cache_size[h] + 1 /\ cache_size[h] \in Nat
      /\ cache_size' \in [Caches -> Nat]
  BY <1>1
<1>7. \A c \in Caches : Pending(Driver, "empty", c) => Pending(Driver, "empty", c)'
  BY <1>1, PendingKept
<1> HIDE DEF Pending, LinkedIn, Linked
<1>8. ASSUME NEW c \in Caches \ {h}
      PROVE  /\ Cardinality(LinkedIn(c)') <= cache_size'[c]
             /\ ~Pending(Driver, "empty", c)' =>
                                cache_size'[c] = Cardinality(LinkedIn(c)')
  BY <1>4, <1>6, <1>7 DEF Sizes
<1>9. /\ Cardinality(LinkedIn(h)') <= cache_size'[h]
      /\ ~Pending(Driver, "empty", h)' => cache_size'[h] = Cardinality(LinkedIn(h)')
  <2>1. /\ Cardinality(LinkedIn(h)) <= cache_size[h]
        /\ ~Pending(Driver, "empty", h) => cache_size[h] = Cardinality(LinkedIn(h))
    BY DEF Sizes
  <2>2. ~Pending(Driver, "empty", h)' => ~Pending(Driver, "empty", h)
    BY <1>7
  <2> QED BY <1>5, <1>6, <2>1, <2>2
<1>10. \A c \in Caches :
         /\ Cardinality(LinkedIn(c)') <= cache_size'[c]
         /\ ~Pending(Driver, "empty", c)' =>
                                cache_size'[c] = Cardinality(LinkedIn(c)')
  BY <1>8, <1>9
<1> QED BY <1>6, <1>10 DEF Sizes

\* A new item is published.
LEMMA Publishes ==
  ASSUME IInv, NEW w \in Workers, ~Idle(w), Last(todo[w]).op = "publish",
         NEW s \in Slots, s = Last(todo[w]).x, NEW k, k = item[s].key,
         Found(k, item[s].uses) = {}, Live(s), Lost(s), item[s].shard,
         Joined(s, k), Sizes', cache_size' \in [Caches -> Nat],
         NEW ops \in Seq(Ops), DOMAIN ops = {}, Len(ops) = 0, Fits(w, ops),
         Stepped(w, ops), Obtain(w, k, s), UNCHANGED <<lists, phase>>
  PROVE  IInv'
<1> USE DEF IInv
<1>1. w \in Threads /\ w # Driver /\ Driver \in Threads
  BY BoundsAssumption DEF Threads
<1>7. phase = "frame" /\ ~Maintaining
  BY <1>1, AtWork DEF Turns
<1>8. /\ k \in Keys /\ HomeOf(s) = CacheOf[k] /\ HomeOf(s) \in Caches
      /\ Bucket[k] \in Buckets
      /\ item' \in [Slots -> Item] /\ \A r \in Slots \ {s} : item'[r] = item[r]
      /\ item'[s].ref_count = 1 /\ item'[s].key = k /\ item'[s].uses = item[s].uses
      /\ item'[s].live = item[s].live /\ item'[s].shard = item[s].shard
      /\ Moved({s}) /\ Linked(s)' /\ InQueue(s)'
      /\ \A b \in Buckets : s \in ToSet(chain'[b]) => b = Bucket[k]
      /\ \A c \in Caches : s \in ToSet(queue'[c]) => c = CacheOf[k]
      /\ \A r \in Slots \ {s} : (Linked(r)' <=> Linked(r)) /\ (InQueue(r)' <=> InQueue(r))
  BY DEF Joined
<1>9. ~Linked(s) /\ ~InQueue(s) /\ item[s].ref_count = 0
  BY DEF Lost
<1>10. UNCHANGED <<images, frame, images_root, prev_images_root, held>>
  BY DEF lists
<1>11. /\ \A r \in Slots : item'[r].key = item[r].key
       /\ \A r \in Slots : item'[r].uses = item[r].uses
  BY <1>8
<1>13. Gotten' /\ got' \in [Workers -> [Keys -> Slots \cup {None}]]
  <2>1. \A v \in Workers : \A l \in Keys : \A r \in Slots :
          got[v][l] = r => InQueue(r) /\ item[r].key = l
    BY BoundsAssumption DEF Gotten
  <2>2. \A v \in Workers : \A l \in Keys : \A r \in Slots :
          got[v][l] = r => InQueue(r)' /\ item'[r].key = l
    <3> HIDE DEF InQueue
    <3> SUFFICES ASSUME NEW v \in Workers, NEW l \in Keys, NEW r \in Slots, got[v][l] = r
                 PROVE  InQueue(r)' /\ item'[r].key = l
      OBVIOUS
    <3>1. \/ r = s \/ (InQueue(r)' <=> InQueue(r))
      BY <1>8
    <3>2. item'[r].key = item[r].key /\ InQueue(s)'
      BY <1>8, <1>11
    <3>3. InQueue(r) /\ item[r].key = l
      BY <2>1
    <3>4. CASE r = s
      BY <1>9, <3>3, <3>4
    <3>5. CASE r # s
      BY <3>1, <3>2, <3>3, <3>5
    <3> QED BY <3>4, <3>5
  <2>3. \A i \in DOMAIN ops : ops[i].op \notin {"lookup", "build"}
    OBVIOUS
  <2>4. got' = [got EXCEPT ![w][k] = s]
    BY DEF Obtain
  <2>5. InQueue(s)' /\ item'[s].key = k /\ k \in Keys
    BY <1>8
  <2> HIDE DEF InQueue
  <2> QED BY <2>2, <2>3, <2>4, <2>5, GottenMore
<1>14. TypeOK' /\ Lists'
  BY <1>1, <1>8, <1>10, <1>13, TypesKept DEF TypeOK, Moved
<1>15. Stacks'
  BY <1>1, StacksKept
<1>16. OneCustodian'
  <2>1. Takes(w, ops)
    BY DEF Takes
  <2> QED BY <1>1, <2>1, CustodyKept
<1>17. KeysStay
  BY <1>8 DEF KeysStay
<1>18. AllReady'
  <2>1. \A i \in DOMAIN ops : Ready(ops[i])'
    OBVIOUS
  <2>2. ASSUME NEW o \in Ops, Stays(w, o), Ready(o), o.op \in OnItems \ {"dec"}, o.x = s
        PROVE  FALSE
    BY <1>1, <1>9, <2>2, NothingElse DEF Custody
  <2> QED BY <1>1, <1>8, <2>1, <2>2, AllReadyKept
<1>19. AllPlaced'
  <2>1. ASSUME NEW r \in Slots PROVE \A d \in item[r].uses : item'[d].key = item[d].key
    <3>1. item[r].uses \subseteq Slots
      BY ItemTypes
    <3> QED BY <1>8, <3>1
  <2>2. ASSUME NEW r \in Slots \ {s} PROVE Placed(r)'
    <3>1. Same(r) /\ Placed(r)
      BY <1>8 DEF Moved, AllPlaced
    <3> QED BY <1>1, <2>1, <3>1, PlacedKept DEF Custody
  <2>3. Placed(s)'
    <3>1. Placed(s) /\ Live(s)'
      BY <1>8 DEF AllPlaced, Live
    <3>2. \A d \in item'[s].uses : item'[d].key \in Uses[item'[s].key]
      <4>1. PICK u : u = item[s].uses
        OBVIOUS
      <4>2. \A d \in u : item[d].key \in Uses[k]
        BY <3>1, <4>1 DEF Placed
      <4>3. ASSUME NEW d \in u PROVE item'[d].key \in Uses[k]
        <5>1. item'[d].key = item[d].key
          BY <2>1, <4>1
        <5> QED BY <4>2, <5>1
      <4>4. item'[s].key = k /\ item'[s].uses = u
        BY <1>8, <4>1
      <4> QED BY <4>3, <4>4
    <3> HIDE DEF Linked, InQueue, Live, InHand
    <3>3. item'[s].key = k /\ k \in Keys /\ item'[s].shard /\ item'[s].ref_count = 1
          /\ Linked(s)'
      BY <1>8
    <3>4. /\ \A b \in Buckets : s \in ToSet(chain'[b]) => Bucket[k] = b
          /\ \A c \in Caches : s \in ToSet(queue'[c]) => CacheOf[k] = c
      BY <1>8
    <3> QED BY <3>1, <3>2, <3>3, <3>4 DEF Placed
  <2> QED BY <2>2, <2>3 DEF AllPlaced
<1>20. Counted'
  <2>1. \A r : DecRefs(r)' = DecRefs(r)
    <3>1. \A r : w \notin DecRefs(r)
      BY <1>1, DecsKept
    <3>2. \A r : DecRefs(r)' = DecRefs(r) \ {w}
      BY <1>1, DecsKept
    <3> QED BY <3>1, <3>2
  <2>2. \A r : ImageRefs(r)' = ImageRefs(r) /\ ListRefs(r)' = ListRefs(r)
    BY <1>10 DEF ImageRefs, ListRefs
  <2>3. \A r : KeyRefs(r)' = KeyRefs(r)
    BY <1>11, SameKeys
  <2>4. \A r \in Slots \ {s} :
          /\ item'[r].ref_count = item[r].ref_count /\ (InQueue(r)' <=> InQueue(r))
          /\ ImageRefs(r)' = ImageRefs(r) /\ ListRefs(r)' = ListRefs(r)
          /\ KeyRefs(r)' = KeyRefs(r) /\ DecRefs(r)' = DecRefs(r)
    BY <1>8, <2>1, <2>2, <2>3
  <2>5. item'[s].ref_count = Refs(s)'
    <3>1. /\ ImageRefs(s)' = {} /\ ListRefs(s)' = {} /\ KeyRefs(s)' = {} /\ DecRefs(s)' = {}
      BY <1>9, <2>1, <2>2, <2>3, Holders
    <3>2. Refs(s)' = 1 + Cardinality({}) + Cardinality({}) + Cardinality({}) + Cardinality({})
      BY <1>8, <3>1 DEF Refs
    <3>3. Cardinality({}) = 0
      BY FS_EmptySet
    <3>4. item'[s].ref_count = 1
      BY <1>8
    <3> HIDE DEF Refs
    <3> QED BY <3>2, <3>3, <3>4
  <2>6. \A r \in {s} \cap Slots : item'[r].ref_count = Refs(r)'
    BY <2>5
  <2> HIDE DEF InQueue
  <2> QED BY <2>4, <2>6, CountedKept
<1>21. Distinct'
  <2>1. ASSUME NEW r \in Slots \ {s}, Linked(r)
        PROVE  ~(item[r].key = k /\ item[r].uses = item[s].uses)
    <3>1. r \in ToSet(chain[ChainOf(r)])
      BY <2>1, ListElements
    <3> QED BY <3>1 DEF Found, ChainOf
  <2>2. \A p, q \in Slots \ {s} : Linked(p) /\ Linked(q) /\ item[p].key = item[q].key
                                   /\ item[p].uses = item[q].uses => p = q
    BY DEF Distinct
  <2>3. \A r \in Slots \ {s} : Linked(r)' <=> Linked(r)
    BY <1>8
  <2> HIDE DEF Linked
  <2>4. ASSUME NEW p \in Slots, NEW q \in Slots, Linked(p)', Linked(q)',
               item'[p].key = item'[q].key, item'[p].uses = item'[q].uses
        PROVE  p = q
    <3>1. item[p].key = item[q].key /\ item[p].uses = item[q].uses
      BY <1>11, <2>4
    <3>2. (p # s => Linked(p)) /\ (q # s => Linked(q))
      BY <2>3, <2>4
    <3> QED BY <2>1, <2>2, <3>1, <3>2
  <2> QED BY <2>4 DEF Distinct
<1>22. Walks'
  BY <1>1, <1>17, WalksKept
<1>23. Paths'
  BY <1>1, <1>7, <1>11, <1>17, PathsKept
<1>24. ListsCounted'
  BY <1>1, <1>10, ListsKept
<1>25. Turns'
  <2>1. \A r \in Slots : Linked(r)' => phase = "frame"
    BY <1>7
  <2>2. \A c : ~(Last(todo[w]).op = "empty" /\ Last(todo[w]).x = c)
    OBVIOUS
  <2> QED BY <1>1, <1>7, <1>10, <2>1, <2>2, TurnsKept DEF Loops
<1> QED BY <1>13, <1>14, <1>15, <1>16, <1>18, <1>19, <1>20, <1>21, <1>22, <1>23,
           <1>24, <1>25

\* A built item is published, or gives way to one that is there.
LEMMA StepPublish ==
  ASSUME IInv, NEW w \in Workers, Publish(w)
  PROVE  IInv'
<1>1. /\ w \in Threads /\ ~Idle(w) /\ Last(todo[w]).op = "publish"
  BY DEF Publish, Doing, Threads
<1>2. PICK s \in Slots : s = Last(todo[w]).x /\ s = Subject(w)
  BY <1>1, OnItem DEF OnItems, Subject
<1>3. PICK k : k = item[s].key
  OBVIOUS
<1>4. k \in Keys /\ Bucket[k] \in Buckets
  <2>1. Live(s) /\ Placed(s)
    BY <1>1, <1>2, OnItem DEF OnItems, Ready, IInv, AllPlaced
  <2> QED BY <1>3, <2>1, KeysAssumption DEF Placed
<1>5. CASE \E e \in Found(k, item[s].uses) :
             /\ Promote(e, item) /\ Obtain(w, k, e)
             /\ Then(w, <<Op("destruct", s)>>)
             /\ UNCHANGED <<chain, cache_size>>
  <2>1. PICK e \in Found(k, item[s].uses) :
             /\ Promote(e, item) /\ Obtain(w, k, e)
             /\ Then(w, <<Op("destruct", s)>>)
             /\ UNCHANGED <<chain, cache_size>>
    BY <1>5
  <2>2. e \in ToSet(chain[Bucket[k]]) /\ item[e].key = k
    BY <2>1 DEF Found
  <2>3. e \in Slots /\ Linked(e)
    BY <1>4, <2>2, ListElements DEF IInv
  <2>4. UNCHANGED <<chain, cache_size, lists, phase>>
    BY <2>1 DEF Publish
  <2>5. PICK ops : ops = <<Op("destruct", s)>>
    OBVIOUS
  <2>6. PICK z : z = Last(todo[w]).x
    OBVIOUS
  <2>7. ops = <<Op("destruct", z)>> /\ Then(w, ops)
    BY <1>2, <2>1, <2>5, <2>6
  <2> HIDE DEF Promote, Obtain, Then
  <2> QED BY <1>1, <1>4, <2>1, <2>2, <2>3, <2>4, <2>6, <2>7, Promotes
<1>6. CASE /\ Found(k, item[s].uses) = {}
           /\ chain' = [chain EXCEPT ![Bucket[k]] = <<s>> \o @]
           /\ queue' = [queue EXCEPT ![CacheOf[k]] = Append(@, s)]
           /\ item' = [item EXCEPT ![s].ref_count = 1]
           /\ cache_size' = [cache_size EXCEPT ![CacheOf[k]] = @ + 1]
           /\ Obtain(w, k, s) /\ Then(w, <<>>)
  <2>1. UNCHANGED <<lists, phase>>
    BY DEF Publish
  <2>2. Live(s) /\ Lost(s) /\ item[s].shard
    BY <1>1, <1>2, OnItem DEF OnItems, Ready
  <2>3. Joined(s, k)
    BY <1>3, <1>6, <2>2, Joins
  <2>4. PICK ops : ops = <<>>
    OBVIOUS
  <2>5. ops \in Seq(Ops) /\ DOMAIN ops = {} /\ Len(ops) = 0
    BY <2>4
  <2>6. Stepped(w, ops) /\ Stepped(w, <<>>)
    BY <1>1, <1>6, <2>4, <2>5, ThenSteps DEF IInv
  <2>7. Fits(w, ops)
    BY <1>1, <2>4, Nothing_Fits
  <2>8. Sizes' /\ cache_size' \in [Caches -> Nat]
    <3>1. /\ HomeOf(s) = CacheOf[k] /\ HomeOf(s) \in Caches
          /\ Linked(s)' /\ \A r \in Slots : item'[r].key = item[r].key
          /\ \A r \in Slots \ {s} : Linked(r)' <=> Linked(r)
      BY <1>3, <2>3 DEF Joined
    <3>2. PICK h \in Caches : h = HomeOf(s)
      BY <3>1
    <3>3. cache_size' = [cache_size EXCEPT ![h] = @ + 1]
      BY <1>6, <3>1, <3>2
    <3>4. ~Linked(s)
      BY <2>2 DEF Lost
    <3> HIDE DEF Linked
    <3> QED BY <1>1, <2>6, <3>1, <3>2, <3>3, <3>4, SizesGrow
  <2>9. Found(k, item[s].uses) = {} /\ Obtain(w, k, s)
    BY <1>6
  <2> QED BY <1>1, <1>2, <1>3, <2>1, <2>2, <2>3, <2>5, <2>6, <2>7, <2>8, <2>9, Publishes
<1> QED BY <1>2, <1>3, <1>5, <1>6 DEF Publish

-----------------------------------------------------------------------------
(* Building and drawing                                                    *)

\* What the new item looks like, and what its making changes.
Made(s, k, deps) ==
  /\ k \in Keys /\ deps \in SUBSET Slots /\ s \notin deps
  /\ item' \in [Slots -> Item]
  /\ \A r \in Slots \ (deps \cup {s}) : item'[r] = item[r]
  /\ \A r \in deps : /\ item'[r].ref_count = item[r].ref_count + 1
                     /\ item'[r].key = item[r].key /\ item'[r].uses = item[r].uses
                     /\ item'[r].live = item[r].live /\ item'[r].shard = item[r].shard
  /\ item'[s].live /\ item'[s].key = k /\ item'[s].uses = deps
  /\ item'[s].ref_count = 0 /\ item'[s].shard
  /\ \A d \in deps : InQueue(d) /\ item[d].key \in Uses[k]
  /\ ~Live(s) /\ Lost(s) /\ item[s].uses = {}

\* The items a key is built from are queued, and have other addresses.
LEMMA Makes ==
  ASSUME IInv, NEW w \in Workers, ~Idle(w), Last(todo[w]).op = "build",
         NEW k, k = Last(todo[w]).x, NEW deps, deps = Deps(w, k),
         NEW s \in Slots, ~Live(s),
         item' = [Inc(deps, item) EXCEPT ![s] =
                    [live |-> TRUE, key |-> k, uses |-> deps, ref_count |-> 0,
                     shard |-> TRUE]]
  PROVE  Made(s, k, deps)
<1> USE DEF IInv
<1>1. w \in Threads /\ Rest(w) + 1 \in DOMAIN todo[w] /\ todo[w][Rest(w) + 1] = Last(todo[w])
  BY Top DEF Threads
<1>2. k \in Keys /\ \A d \in Uses[k] : got[w][d] # None
  BY <1>1 DEF Gotten
<1>3. Uses[k] \subseteq Keys
  BY <1>2, KeysAssumption
<1>4. \A d \in deps : d \in Slots /\ InQueue(d) /\ item[d].key \in Uses[k]
  <2>1. ASSUME NEW l \in Uses[k], NEW d, d = got[w][l]
        PROVE  d \in Slots /\ InQueue(d) /\ item[d].key \in Uses[k]
    <3>1. InQueue(d) /\ item[d].key = l
      BY <1>2, <1>3, <2>1 DEF Gotten
    <3> HIDE DEF InQueue
    <3> QED BY <2>1, <3>1, ListElements
  <2> HIDE DEF InQueue
  <2> QED BY <2>1 DEF Deps
<1>5. Lost(s) /\ item[s].uses = {}
  <2>1. ~InQueue(s) /\ ~Linked(s)
    BY ListElements
  <2>2. item[s] = Unallocated
    BY DEF AllPlaced, Placed
  <2> QED BY <2>1, <2>2 DEF Lost, Unallocated
<1>6. s \notin deps
  BY <1>4, <1>5 DEF Lost
<1>7. /\ item' \in [Slots -> Item]
      /\ \A r \in Slots \ (deps \cup {s}) : item'[r] = item[r]
      /\ \A r \in deps : /\ item'[r].ref_count = item[r].ref_count + 1
                         /\ item'[r].key = item[r].key /\ item'[r].uses = item[r].uses
                         /\ item'[r].live = item[r].live /\ item'[r].shard = item[r].shard
      /\ item'[s].live /\ item'[s].key = k /\ item'[s].uses = deps
      /\ item'[s].ref_count = 0 /\ item'[s].shard
  <2>1. PICK j : j = [live |-> TRUE, key |-> k, uses |-> deps, ref_count |-> 0,
                      shard |-> TRUE]
    OBVIOUS
  <2>2. j \in Item /\ j.live /\ j.key = k /\ j.uses = deps /\ j.ref_count = 0 /\ j.shard
    BY <1>2, <1>4, <2>1 DEF Item
  <2>3. PICK it : it = Inc(deps, item)
    OBVIOUS
  <2>4. item' = [it EXCEPT ![s] = j]
    BY <2>1, <2>3
  <2>5. ASSUME NEW r \in Slots
        PROVE  /\ it[r] \in Item /\ (r \notin deps => it[r] = item[r])
               /\ r \in deps => /\ it[r].ref_count = item[r].ref_count + 1
                                /\ it[r].key = item[r].key /\ it[r].uses = item[r].uses
                                /\ it[r].live = item[r].live /\ it[r].shard = item[r].shard
    <3>1. item[r] \in Item /\ item[r].ref_count + 1 \in Int
      BY ItemTypes
    <3>2. it[r] = IF r \in deps THEN [item[r] EXCEPT !.ref_count = item[r].ref_count + 1]
                                ELSE item[r]
      BY <2>3 DEF Inc
    <3>3. CASE r \in deps
      BY <3>1, <3>2, <3>3, Recounted
    <3> QED BY <3>1, <3>2, <3>3
  <2>6. it = [r \in Slots |-> it[r]]
    BY <2>3 DEF Inc
  <2>7. /\ item' \in [Slots -> Item] /\ item'[s] = j
        /\ \A r \in Slots \ {s} : item'[r] = it[r]
    BY <2>2, <2>4, <2>5, <2>6
  <2>8. \A r \in Slots \ (deps \cup {s}) : item'[r] = item[r]
    BY <2>5, <2>7
  <2>9. ASSUME NEW r \in deps
        PROVE  /\ item'[r].ref_count = item[r].ref_count + 1
               /\ item'[r].key = item[r].key /\ item'[r].uses = item[r].uses
               /\ item'[r].live = item[r].live /\ item'[r].shard = item[r].shard
    <3>1. r \in Slots \ {s}
      BY <1>4, <1>6
    <3>2. item'[r] = it[r]
      BY <2>7, <3>1
    <3> QED BY <2>5, <3>1, <3>2
  <2>10. /\ item'[s].live /\ item'[s].key = k /\ item'[s].uses = deps
         /\ item'[s].ref_count = 0 /\ item'[s].shard
    BY <2>2, <2>7
  <2> QED BY <2>7, <2>8, <2>9, <2>10
<1> HIDE DEF IInv, InQueue
<1> QED BY <1>2, <1>4, <1>5, <1>6, <1>7 DEF Made

\* An item is made, and is yet to be published.
LEMMA Builds ==
  ASSUME IInv, NEW w \in Workers, ~Idle(w), Last(todo[w]).op = "build",
         NEW s \in Slots, NEW k, NEW deps, Made(s, k, deps),
         NEW ops \in Seq(Ops), DOMAIN ops = {1}, ops[1].op = "publish", ops[1].x = s,
         Stepped(w, ops), Fits(w, ops),
         UNCHANGED <<chain, queue, cache_size, got, lists, phase>>
  PROVE  IInv'
<1> USE DEF IInv
<1>1. w \in Threads /\ w # Driver /\ Driver \in Threads /\ ~Maintaining
  BY BoundsAssumption, AtWork DEF Threads
<1>2. PICK S : S = deps \cup {s}
  OBVIOUS
<1>3. /\ deps \in SUBSET Slots /\ s \notin deps /\ S \in SUBSET Slots
      /\ \A r \in S : r \in deps \/ r = s
      /\ item' \in [Slots -> Item] /\ \A r \in Slots \ S : item'[r] = item[r]
  BY <1>2 DEF Made
<1>4. ~Linked(s) /\ ~InQueue(s) /\ item[s].ref_count = 0 /\ ~Live(s)
  BY DEF Made, Lost
<1>5. \A r : (Linked(r)' <=> Linked(r)) /\ (InQueue(r)' <=> InQueue(r))
  BY DEF Linked, InQueue
<1>6. /\ \A r \in deps : /\ item'[r].key = item[r].key /\ item'[r].uses = item[r].uses
                         /\ item'[r].live = item[r].live /\ item'[r].shard = item[r].shard
                         /\ item'[r].ref_count = item[r].ref_count + 1
      /\ \A r \in Slots \ {s} : /\ item'[r].key = item[r].key
                                /\ item'[r].uses = item[r].uses
  BY <1>2, <1>3 DEF Made
<1>7. \A r \in deps : InQueue(r) /\ Linked(r) /\ r # s
  <2>1. \A r \in deps : InQueue(r)
    BY DEF Made
  <2> HIDE DEF InQueue, Linked
  <2> QED BY <1>3, <2>1, ListElements
<1>8. Moved(S)
  <2>1. Lists'
    BY DEF Lists
  <2>2. \A r \in Slots \ S : Same(r)
    BY <1>3 DEF Same
  <2> QED BY <1>3, <2>1, <2>2 DEF Moved, TypeOK
<1>9. /\ TypeOK' /\ Lists' /\ Stacks' /\ Distinct' /\ Sizes' /\ Walks'
      /\ Gotten' /\ ListsCounted' /\ Turns' /\ KeysStay
  <2>1. ASSUME NEW r \in S \cap Slots
        PROVE  /\ (Linked(r)' <=> Linked(r)) /\ (InQueue(r)' <=> InQueue(r))
               /\ Linked(r) => item'[r].key = item[r].key /\ item'[r].uses = item[r].uses
    <3> HIDE DEF Linked, InQueue
    <3> QED BY <1>3, <1>4, <1>5, <1>6
  <2>2. \A i \in DOMAIN ops :
          ops[i].op \notin Loops \cup {"walk", "lookup", "build", "unref", "release"}
    BY DEF Loops
  <2> HIDE DEF IInv
  <2> QED BY <1>1, <1>8, <2>1, <2>2, Undisturbed
<1>10. ASSUME NEW o, Ready(o), o.op \in OnItems \ {"dec"}, o.x = s
       PROVE  FALSE
  <2>1. s # None
    BY BoundsAssumption
  <2> QED BY <1>4, <1>10, <2>1 DEF Ready, OnItems
<1>11. OneCustodian'
  <2>1. ASSUME NEW u \in Threads, NEW j \in DOMAIN todo[u], InCustody(s, u, j)
        PROVE  FALSE
    <3>1. PICK o : o = todo[u][j]
      OBVIOUS
    <3>2. Ready(o) /\ o.op \in OnItems \ {"dec"} /\ o.x = s
      BY <2>1, <3>1 DEF AllReady, InCustody, Custody, OnItems
    <3> QED BY <1>10, <3>2
  <2>2. Takes(w, ops)
    BY <2>1 DEF Takes
  <2> QED BY <1>1, <2>2, CustodyKept
<1>12. AllReady'
  <2>1. Ready(ops[1])'
    <3>1. PICK o : o = ops[1]
      OBVIOUS
    <3>2. Live(s)' /\ item'[s].ref_count = 0 /\ item'[s].shard
      BY DEF Made, Live
    <3>3. Lost(s)'
      BY <1>4, <1>5, <3>2 DEF Lost
    <3> HIDE DEF Live, Lost
    <3>4. Ready(o)'
      BY <3>1, <3>2, <3>3 DEF Ready, OnItems
    <3> QED BY <3>1, <3>4
  <2>2. ASSUME NEW o \in Ops, Stays(w, o), Ready(o), o.op \in OnItems \ {"dec"}, o.x \in S
        PROVE  Ready(o)'
    <3>1. o.x \in deps
      BY <1>3, <1>10, <2>2
    <3>2. PICK r \in Slots : r = o.x
      BY <1>3, <3>1
    <3>3. InQueue(r) /\ Linked(r) /\ InQueue(r)' /\ Linked(r)'
      BY <1>5, <1>7, <3>1, <3>2
    <3>4. Live(r)' <=> Live(r)
      BY <1>6, <3>1, <3>2 DEF Live
    <3> HIDE DEF Linked, InQueue, Live
    <3> QED BY <2>2, <3>2, <3>3, <3>4 DEF Ready, OnItems, Lost
  <2>3. \A i \in DOMAIN ops : Ready(ops[i])'
    BY <2>1
  <2> QED BY <1>1, <1>8, <2>2, <2>3, AllReadyKept
<1>13. \A r \in Slots : \A d \in item[r].uses : d \in Slots \ {s}
  <2>1. ASSUME NEW r \in Slots, s \in item[r].uses PROVE FALSE
    <3>1. KeyRefs(s) # {}
      BY <2>1 DEF KeyRefs
    <3> QED BY <1>4, <3>1, Holders
  <2> QED BY <2>1, ItemTypes
<1>14. AllPlaced'
  <2>1. ASSUME NEW r \in Slots PROVE \A d \in item[r].uses : item'[d].key = item[d].key
    BY <1>6, <1>13
  <2>2. ASSUME NEW r \in Slots \ S PROVE Placed(r)'
    <3>1. Same(r) /\ Placed(r)
      BY <1>8 DEF Moved, AllPlaced
    <3> QED BY <1>1, <2>1, <3>1, PlacedKept DEF Custody
  <2>3. ASSUME NEW r \in deps PROVE Placed(r)'
    <3>1. Placed(r) /\ Live(r) /\ (Live(r)' <=> Live(r)) /\ Linked(r) /\ r \in Slots
      BY <1>3, <1>6, <1>7, ListElements DEF AllPlaced, Live
    <3> HIDE DEF Linked, InQueue, Live, InHand
    <3> QED BY <1>5, <1>6, <2>1, <3>1 DEF Placed
  <2>4. Placed(s)'
    <3>1. InHand(s)'
      BY <1>1, HandKept DEF Custody
    <3>2. Live(s)' /\ k \in Keys /\ item'[s].key = k /\ item'[s].uses = deps
      BY DEF Made, Live
    <3>3. \A d \in deps : item'[d].key \in Uses[k]
      BY <1>6 DEF Made
    <3>4. ~Linked(s)' /\ ~InQueue(s)'
      BY <1>4, <1>5
    <3>5. /\ \A b \in Buckets : s \notin ToSet(chain'[b])
          /\ \A c \in Caches : s \notin ToSet(queue'[c])
      BY <3>4 DEF Linked, InQueue
    <3> HIDE DEF Linked, InQueue, Live, InHand
    <3> QED BY <3>1, <3>2, <3>3, <3>4, <3>5 DEF Placed
  <2> QED BY <1>3, <2>2, <2>3, <2>4 DEF AllPlaced
<1>15. Counted'
  <2>1. \A r : DecRefs(r)' = DecRefs(r)
    <3>1. Len(ops) = 0 \/ ops[Len(ops)].op # "dec"
      BY NoDecOnTop
    <3>2. \A r : w \notin DecRefs(r)
      BY <1>1, DecsKept
    <3>3. \A r : DecRefs(r)' = DecRefs(r) \ {w}
      BY <1>1, <3>1, DecsKept
    <3> QED BY <3>2, <3>3
  <2>2. \A r : ImageRefs(r)' = ImageRefs(r) /\ ListRefs(r)' = ListRefs(r)
    BY DEF ImageRefs, ListRefs, lists
  <2>3. item'[s].uses = deps /\ item[s].uses = {} /\ item'[s].ref_count = 0
    BY DEF Made
  <2>4. /\ \A r \in deps : KeyRefs(r)' = KeyRefs(r) \cup {s} /\ s \notin KeyRefs(r)
        /\ \A r \in Slots \ deps : KeyRefs(r)' = KeyRefs(r)
    BY <1>6, <2>3 DEF KeyRefs
  <2>5. \A r \in Slots \ S : item'[r].ref_count = item[r].ref_count
    BY <1>3
  <2>6. \A r \in Slots \ S :
          /\ item'[r].ref_count = item[r].ref_count /\ (InQueue(r)' <=> InQueue(r))
          /\ ImageRefs(r)' = ImageRefs(r) /\ ListRefs(r)' = ListRefs(r)
          /\ KeyRefs(r)' = KeyRefs(r) /\ DecRefs(r)' = DecRefs(r)
    BY <1>2, <1>5, <2>1, <2>2, <2>4, <2>5
  <2>7. item'[s].ref_count = Refs(s)'
    <3>1. /\ ImageRefs(s)' = {} /\ ListRefs(s)' = {} /\ KeyRefs(s)' = {} /\ DecRefs(s)' = {}
      BY <1>3, <1>4, <2>1, <2>2, <2>4, Holders
    <3>2. Refs(s)' = 0 + Cardinality({}) + Cardinality({}) + Cardinality({}) + Cardinality({})
      BY <1>4, <1>5, <3>1 DEF Refs
    <3>3. Cardinality({}) = 0
      BY FS_EmptySet
    <3> HIDE DEF Refs
    <3> QED BY <2>3, <3>2, <3>3
  <2>8. ASSUME NEW r \in deps PROVE item'[r].ref_count = Refs(r)'
    <3>1. r \in Slots
      BY <1>3
    <3>2. PICK q \in Nat : q = (IF InQueue(r) THEN 1 ELSE 0)
      OBVIOUS
    <3>3. item[r].ref_count = q + Cardinality(ImageRefs(r)) + Cardinality(ListRefs(r))
            + Cardinality(KeyRefs(r)) + Cardinality(DecRefs(r))
      BY <3>1, <3>2 DEF Counted, Refs
    <3>4. q = (IF InQueue(r)' THEN 1 ELSE 0)
      BY <1>5, <3>2
    <3>5. Refs(r)' = q + Cardinality(ImageRefs(r)) + Cardinality(ListRefs(r))
            + Cardinality(KeyRefs(r) \cup {s}) + Cardinality(DecRefs(r))
      BY <2>1, <2>2, <2>4, <3>4 DEF Refs
    <3>6. Cardinality(KeyRefs(r) \cup {s}) = Cardinality(KeyRefs(r)) + 1
      BY <2>4, RefSets, OneMore
    <3>7. item'[r].ref_count = item[r].ref_count + 1
      BY <1>6
    <3> HIDE DEF Refs, InQueue
    <3> QED BY <3>3, <3>5, <3>6, <3>7, RefSets
  <2>9. \A r \in S \cap Slots : item'[r].ref_count = Refs(r)'
    BY <1>3, <2>7, <2>8
  <2> HIDE DEF InQueue
  <2> QED BY <2>6, <2>9, CountedKept
<1>16. Paths'
  <2>1. ASSUME NEW o \in Ops, Stays(w, o), o.op = "destruct", o.x = s PROVE FALSE
    <3>1. PICK u \in Threads : \E j \in DOMAIN todo[u] : todo[u][j] = o
      BY <2>1 DEF Stays
    <3>2. Ready(o)
      BY <3>1 DEF AllReady
    <3> QED BY <1>10, <2>1, <3>2 DEF OnItems
  <2>2. \A r \in Slots : item'[r].key = item[r].key
           \/ ~(\E o \in Ops : Stays(w, o) /\ o.op = "destruct" /\ o.x = r)
    BY <1>6, <2>1
  <2> QED BY <1>1, <1>9, <2>2, PathsKept
<1> QED BY <1>9, <1>11, <1>12, <1>14, <1>15, <1>16

\* A worker makes an item, or fails to.
LEMMA StepBuild ==
  ASSUME IInv, NEW w \in Workers, Build(w)
  PROVE  IInv'
<1>1. /\ w \in Threads /\ ~Idle(w) /\ Last(todo[w]).op = "build"
  BY DEF Build, Doing, Threads
<1>2. PICK k : k = Last(todo[w]).x /\ k = Subject(w)
  BY DEF Subject
<1>3. PICK deps : deps = Deps(w, k)
  OBVIOUS
<1>4. UNCHANGED <<chain, queue, cache_size, got, lists, phase>>
  BY DEF Build
<1>5. ASSUME NEW s \in Slots, ~Live(s),
             item' = [Inc(deps, item) EXCEPT ![s] =
                  [live |-> TRUE, key |-> k, uses |-> deps, ref_count |-> 0,
                   shard |-> TRUE]],
             Then(w, <<Op("publish", s)>>)
      PROVE  IInv'
  <2>1. Made(s, k, deps)
    BY <1>1, <1>2, <1>3, <1>5, Makes
  <2>2. PICK ops : ops = <<Op("publish", s)>>
    OBVIOUS
  <2>3. /\ ops \in Seq(Ops) /\ DOMAIN ops = {1} /\ ops[1].op = "publish" /\ ops[1].x = s
        /\ Op("publish", s).op = "publish"
    BY <2>2, OpTypes
  <2>4. Stepped(w, ops)
    BY <1>1, <1>5, <2>2, <2>3, ThenSteps DEF IInv
  <2>5. Fits(w, ops)
    <3>1. w \in MayDo("publish") /\ MayWait("build") \subseteq MayWait("publish")
      BY DEF MayDo, MayWait, Alone
    <3> QED BY <1>1, <2>2, <2>3, <3>1, OneFits DEF IInv
  <2> QED BY <1>1, <1>4, <2>1, <2>3, <2>4, <2>5, Builds
<1>6. ASSUME Then(w, <<>>), UNCHANGED item
      PROVE  IInv'
  BY <1>1, <1>4, <1>6, StepFinish
<1> QED BY <1>2, <1>3, <1>5, <1>6 DEF Build, Live

\* An image takes a reference to its source.
LEMMA StepDraw ==
  ASSUME IInv, NEW w \in Workers, Draw(w)
  PROVE  IInv'
<1> USE DEF IInv
<1>1. w \in Threads /\ phase = "frame" /\ Idle(w) /\ Idle(Driver)
      /\ Driver \in Threads /\ Consumer \in Threads /\ w # Driver
  BY BoundsAssumption DEF Draw, Rendering, Threads
<1>2. PICK k \in Keys : got[w][k] # None /\ <<w, got[w][k]>> \notin images
                        /\ item' = Inc({got[w][k]}, item)
                        /\ images' = images \cup {<<w, got[w][k]>>}
  BY KeysAssumption DEF Draw
<1>3. PICK s : s = got[w][k]
  OBVIOUS
<1>4. InQueue(s) /\ s \in Slots /\ Linked(s) /\ Live(s)
  <2>1. InQueue(s)
    BY <1>2, <1>3 DEF Gotten
  <2> HIDE DEF InQueue
  <2> QED BY <2>1, ListElements
<1>5. /\ UNCHANGED <<chain, queue, cache_size, todo, got, frame, images_root,
                     prev_images_root, held, phase>>
  BY DEF Draw
<1>6. PICK ops : ops = <<>>
  OBVIOUS
<1>7. DOMAIN ops = {} /\ Len(ops) = 0
  BY <1>6
<1>8. Stepped(w, ops)
  BY <1>1, <1>5, <1>6, IdleSteps
<1>9. Fits(w, ops)
  BY <1>1, <1>6, Nothing_Fits
<1>10. /\ item' \in [Slots -> Item] /\ \A r \in Slots \ {s} : item'[r] = item[r]
       /\ item'[s].ref_count = item[s].ref_count + 1
       /\ item'[s].key = item[s].key /\ item'[s].uses = item[s].uses
       /\ item'[s].live = item[s].live /\ item'[s].shard = item[s].shard
  <2>1. item \in [Slots -> Item] /\ item[s] \in Item /\ item[s].ref_count + 1 \in Int
    BY <1>4, ItemTypes DEF TypeOK
  <2>2. PICK i \in Item : i = [item[s] EXCEPT !.ref_count = item[s].ref_count + 1]
    BY <2>1, Recounted
  <2>3. /\ i.ref_count = item[s].ref_count + 1 /\ i.key = item[s].key
        /\ i.uses = item[s].uses /\ i.live = item[s].live /\ i.shard = item[s].shard
    BY <2>1, <2>2, Recounted
  <2>4. item' = [r \in Slots |-> IF r = s THEN i ELSE item[r]]
    BY <1>2, <1>3, <2>2 DEF Inc
  <2> QED BY <1>4, <2>1, <2>3, <2>4
<1>11. /\ Moved({s}) /\ (Linked(s)' <=> Linked(s)) /\ (InQueue(s)' <=> InQueue(s))
       /\ \A b \in Buckets : s \in ToSet(chain'[b]) => s \in ToSet(chain[b])
       /\ \A c \in Caches : s \in ToSet(queue'[c]) => s \in ToSet(queue[c])
  BY <1>5, <1>10, Changed
<1>12. /\ \A r : (Linked(r)' <=> Linked(r)) /\ (InQueue(r)' <=> InQueue(r))
       /\ \A r \in Slots : /\ item'[r].key = item[r].key /\ item'[r].uses = item[r].uses
  BY <1>5, <1>10 DEF Linked, InQueue
<1>13. ~Maintaining /\ ~Maintaining' /\ images_root = None
  BY <1>1, <1>5 DEF Maintaining, Idle, Turns
<1>14. images' \in SUBSET Image
  BY <1>2, <1>3, <1>4 DEF TypeOK, Image
<1>15. TypeOK' /\ Lists'
  BY <1>1, <1>5, <1>8, <1>11, <1>14, TypesKept DEF TypeOK, Moved
<1>16. Stacks'
  BY <1>1, <1>8, <1>9, StacksKept
<1>17. OneCustodian'
  <2>1. Takes(w, ops)
    BY <1>7 DEF Takes
  <2> QED BY <1>1, <1>8, <2>1, CustodyKept
<1>18. KeysStay
  BY <1>12 DEF KeysStay
<1>19. AllReady'
  <2>1. \A i \in DOMAIN ops : Ready(ops[i])'
    BY <1>7
  <2>2. ASSUME NEW o \in Ops, Stays(w, o), Ready(o), o.op \in OnItems \ {"dec"}, o.x = s
        PROVE  Ready(o)'
    <3>1. Live(s)' /\ item'[s].shard = item[s].shard
      BY <1>4, <1>10 DEF Live
    <3>2. s # None
      BY <1>4, BoundsAssumption
    <3>3. o.op \notin {"walk", "orphan", "evict"}
      BY <1>1, <1>13, <2>2, StaysWhere
    <3> HIDE DEF Linked, InQueue, Live
    <3> QED BY <1>4, <1>11, <2>2, <3>1, <3>2, <3>3 DEF Ready, OnItems, Lost
  <2> QED BY <1>1, <1>8, <1>11, <2>1, <2>2, AllReadyKept
<1>20. AllPlaced'
  <2>1. ASSUME NEW r \in Slots PROVE \A d \in item[r].uses : item'[d].key = item[d].key
    <3>1. item[r].uses \subseteq Slots
      BY ItemTypes
    <3> QED BY <1>12, <3>1
  <2>2. ASSUME NEW r \in Slots \ {s} PROVE Placed(r)'
    <3>1. Same(r) /\ Placed(r)
      BY <1>11 DEF Moved, AllPlaced
    <3> QED BY <1>1, <1>8, <2>1, <3>1, PlacedKept
  <2>3. Placed(s)'
    <3>1. Placed(s) /\ Live(s)'
      BY <1>4, <1>10 DEF AllPlaced, Live
    <3> HIDE DEF Linked, InQueue, Live, InHand
    <3> QED BY <1>4, <1>10, <1>11, <2>1, <3>1 DEF Placed
  <2> QED BY <2>2, <2>3 DEF AllPlaced
<1>21. Counted'
  <2>1. /\ \A r : DecRefs(r)' = DecRefs(r)
        /\ \A r : ListRefs(r)' = ListRefs(r)
    BY <1>5 DEF DecRefs, ListRefs, Doing, Subject, Idle
  <2>2. \A r : KeyRefs(r)' = KeyRefs(r)
    BY <1>12, SameKeys
  <2>3. <<w, s>>[2] = s /\ <<w, s>> \notin images /\ images' = images \cup {<<w, s>>}
    BY <1>2, <1>3
  <2>4. /\ \A r \in Slots \ {s} : ImageRefs(r)' = ImageRefs(r)
        /\ ImageRefs(s)' = ImageRefs(s) \cup {<<w, s>>} /\ <<w, s>> \notin ImageRefs(s)
    BY <2>3 DEF ImageRefs
  <2>5. \A r \in Slots \ {s} :
          /\ item'[r].ref_count = item[r].ref_count /\ (InQueue(r)' <=> InQueue(r))
          /\ ImageRefs(r)' = ImageRefs(r) /\ ListRefs(r)' = ListRefs(r)
          /\ KeyRefs(r)' = KeyRefs(r) /\ DecRefs(r)' = DecRefs(r)
    BY <1>10, <1>12, <2>1, <2>2, <2>4
  <2>6. item'[s].ref_count = Refs(s)'
    <3>1. PICK q \in Nat : q = (IF InQueue(s) THEN 1 ELSE 0)
      OBVIOUS
    <3>2. item[s].ref_count = q + Cardinality(ImageRefs(s)) + Cardinality(ListRefs(s))
            + Cardinality(KeyRefs(s)) + Cardinality(DecRefs(s))
      BY <1>4, <3>1 DEF Counted, Refs
    <3>3. q = (IF InQueue(s)' THEN 1 ELSE 0)
      BY <1>12, <3>1
    <3>4. Refs(s)' = q + Cardinality(ImageRefs(s) \cup {<<w, s>>})
            + Cardinality(ListRefs(s)) + Cardinality(KeyRefs(s)) + Cardinality(DecRefs(s))
      BY <2>1, <2>2, <2>4, <3>3 DEF Refs
    <3>5. Cardinality(ImageRefs(s) \cup {<<w, s>>}) = Cardinality(ImageRefs(s)) + 1
      BY <2>4, RefSets, OneMore
    <3>6. item'[s].ref_count = item[s].ref_count + 1
      BY <1>10
    <3> HIDE DEF Refs, InQueue
    <3> QED BY <3>2, <3>4, <3>5, <3>6, RefSets
  <2>7. \A r \in {s} \cap Slots : item'[r].ref_count = Refs(r)'
    BY <2>6
  <2> HIDE DEF InQueue
  <2> QED BY <2>5, <2>7, CountedKept
<1>22. Distinct'
  <2>1. \A r \in {s} \cap Slots : Linked(r)' => Linked(r) /\ item'[r].key = item[r].key
                                              /\ item'[r].uses = item[r].uses
    BY <1>10, <1>11
  <2> QED BY <1>11, <2>1, DistinctKept
<1>23. Sizes'
  <2>1. \A c \in Caches : Pending(Driver, "empty", c) => Pending(Driver, "empty", c)'
    BY <1>5 DEF Pending
  <2>2. \A r \in {s} \cap Slots : /\ Linked(r)' <=> Linked(r)
                                 /\ Linked(r) => item'[r].key = item[r].key
    BY <1>10, <1>11
  <2> QED BY <1>5, <1>11, <2>1, <2>2, SizesKept
<1>24. Walks'
  BY <1>1, <1>7, <1>8, <1>18, WalksKept
<1>25. Paths'
  BY <1>1, <1>7, <1>8, <1>12, <1>13, <1>18, PathsKept
<1>26. Gotten'
  <2>1. \A v \in Workers : \A l \in Keys : \A r \in Slots :
          got[v][l] = r => InQueue(r) /\ item[r].key = l
    BY BoundsAssumption DEF Gotten
  <2>2. \A v \in Workers : \A l \in Keys : \A r \in Slots :
          got[v][l] = r => InQueue(r)' /\ item'[r].key = l
    <3> HIDE DEF InQueue
    <3> QED BY <1>12, <2>1
  <2> HIDE DEF InQueue
  <2> QED BY <1>1, <1>5, <1>7, <1>8, <2>2, GottenKept
<1>27. ListsCounted'
  BY <1>1, <1>5, <1>7, <1>8, ListsKept
<1>28. Turns'
  <2>1. phase' = "frame" /\ images_root' = None /\ \A v \in Workers : ~Idle(v)' => Idle(Driver)'
    BY <1>1, <1>5, <1>13 DEF Idle
  <2> QED BY <1>13, <2>1, TurnsInFrame
<1> QED BY <1>15, <1>16, <1>17, <1>19, <1>20, <1>21, <1>22, <1>23, <1>24, <1>25, <1>26,
           <1>27, <1>28

-----------------------------------------------------------------------------
(* Cutting and emptying                                                    *)

\* While the driver is at it, only the loops wait.
LEMMA Maintains ==
  ASSUME IInv, ~Idle(Driver), Last(todo[Driver]).op \in {"cut", "empty", "walk", "orphan"}
  PROVE  /\ Maintaining /\ Driver \in Threads
         /\ \A o : Stays(Driver, o) => o.op \in Loops
         /\ \A u \in Threads : \A j \in DOMAIN todo[u] : \A r :
              Kept(Driver, u, j) => ~InCustody(r, u, j)
         /\ \A w \in Workers : got[w] = Nothing
<1> USE DEF IInv
<1>1. Driver \in Threads
  BY DEF Threads
<1>2. Rest(Driver) + 1 \in DOMAIN todo[Driver]
      /\ todo[Driver][Rest(Driver) + 1] = Last(todo[Driver])
  BY <1>1, Top
<1>3. Maintaining
  BY <1>1, <1>2, AtWork DEF Loops
<1>4. ASSUME NEW u \in Threads, NEW j \in DOMAIN todo[u], Kept(Driver, u, j)
      PROVE  todo[u][j].op \in Loops
  <2>1. u = Driver
    BY <1>1, <1>3, <1>4, AtWork DEF Idle
  <2>2. j < Rest(Driver) + 1
    BY <1>1, <1>4, <2>1, Top DEF Kept
  <2>3. todo[u][j].op \in MayWait(Last(todo[Driver]).op)
    BY <1>1, <1>2, <1>4, <2>1, <2>2 DEF Stacks
  <2> QED BY <2>3 DEF MayWait, Alone, Steps, Loops
<1>5. \A o : Stays(Driver, o) => o.op \in Loops
  BY <1>4 DEF Stays
<1>6. \A u \in Threads : \A j \in DOMAIN todo[u] : \A r :
        Kept(Driver, u, j) => ~InCustody(r, u, j)
  BY <1>4 DEF InCustody, Loops, Custody
<1> QED BY <1>1, <1>3, <1>5, <1>6 DEF Turns

\* An item leaves its queue and stays in its chain.
LEMMA OutOfQueue ==
  ASSUME TypeOK, NEW s \in Slots, item' \in [Slots -> Item],
         \A r \in Slots \ {s} : item'[r] = item[r], ChainsKeep({}), QueuesKeep({s})
  PROVE  /\ Moved({s}) /\ (Linked(s)' <=> Linked(s)) /\ ~InQueue(s)'
         /\ \A b \in Buckets : s \in ToSet(chain'[b]) => s \in ToSet(chain[b])
         /\ \A c \in Caches : s \in ToSet(queue'[c]) => s \in ToSet(queue[c])
<1>1. PICK S : S = {}
  OBVIOUS
<1>2. PICK T : T = {s}
  OBVIOUS
<1>3. ChainsKeep(S) /\ QueuesKeep(T) /\ (S = {s} \/ S = {}) /\ (T = {s} \/ T = {})
      /\ s \notin S /\ s \in T
  BY <1>1, <1>2
<1>4. /\ Moved({s})
      /\ Linked(s)' <=> Linked(s) /\ s \notin S
      /\ InQueue(s)' <=> InQueue(s) /\ s \notin T
      /\ \A b \in Buckets : s \in ToSet(chain'[b]) => s \in ToSet(chain[b])
      /\ \A c \in Caches : s \in ToSet(queue'[c]) => s \in ToSet(queue[c])
  BY <1>3, Removed
<1> HIDE DEF Linked, InQueue, Moved
<1> QED BY <1>3, <1>4

\* Popping an item of the queue.
LEMMA Pops ==
  ASSUME IInv, ~Idle(Driver), Last(todo[Driver]).op = "cut",
         NEW c, NEW s \in Slots, InQueue(s), QueuesKeep({s}), ChainsKeep({}),
         item' = Dec(s, item), NEW ops \in Seq(Ops), DOMAIN ops = {1, 2},
         ops[1].op = "cut",
         ops[2].op = IF item[s].ref_count = 1 THEN "evict" ELSE "orphan", ops[2].x = s,
         Stepped(Driver, ops), Fits(Driver, ops),
         UNCHANGED <<cache_size, got, lists, phase>>
  PROVE  IInv'
<1> USE DEF IInv
<1>1. /\ Maintaining /\ Driver \in Threads
      /\ \A o : Stays(Driver, o) => o.op \in Loops
      /\ \A u \in Threads : \A j \in DOMAIN todo[u] : \A r :
           Kept(Driver, u, j) => ~InCustody(r, u, j)
      /\ \A w \in Workers : got[w] = Nothing
  BY Maintains
<1>2. \A i \in DOMAIN ops : ops[i].op \in {"cut", "evict", "orphan"}
  OBVIOUS
<1>3. Linked(s) /\ Live(s)
  BY ListElements
<1>4. /\ item' \in [Slots -> Item] /\ \A r \in Slots \ {s} : item'[r] = item[r]
      /\ item'[s].ref_count = item[s].ref_count - 1
      /\ item'[s].key = item[s].key /\ item'[s].uses = item[s].uses
      /\ item'[s].live = item[s].live /\ item'[s].shard = item[s].shard
  <2>1. item \in [Slots -> Item] /\ item[s] \in Item /\ item[s].ref_count - 1 \in Int
    BY ItemTypes DEF TypeOK
  <2>2. PICK i \in Item : i = [item[s] EXCEPT !.ref_count = item[s].ref_count - 1]
    BY <2>1, Recounted
  <2>3. /\ i.ref_count = item[s].ref_count - 1 /\ i.key = item[s].key
        /\ i.uses = item[s].uses /\ i.live = item[s].live /\ i.shard = item[s].shard
    BY <2>1, <2>2, Recounted
  <2>4. item' = [item EXCEPT ![s] = i]
    BY <2>2 DEF Dec
  <2> QED BY <2>1, <2>3, <2>4
<1>5. /\ Moved({s}) /\ (Linked(s)' <=> Linked(s)) /\ ~InQueue(s)'
      /\ \A b \in Buckets : s \in ToSet(chain'[b]) => s \in ToSet(chain[b])
      /\ \A e \in Caches : s \in ToSet(queue'[e]) => s \in ToSet(queue[e])
  <2> HIDE DEF IInv
  <2> QED BY <1>4, OutOfQueue DEF IInv
<1>6. /\ \A r \in Slots : Linked(r)' <=> Linked(r)
      /\ \A r \in Slots : item'[r].key = item[r].key /\ item'[r].uses = item[r].uses
      /\ \A r \in Slots \ {s} : InQueue(r)' <=> InQueue(r)
  <2>1. \A r \in Slots : Linked(r)' <=> Linked(r)
    <3>1. \A r \in Slots \ {s} : Linked(r)' <=> Linked(r)
      BY <1>5, SameView DEF Moved
    <3> HIDE DEF Linked
    <3> QED BY <1>5, <3>1
  <2>2. \A r \in Slots \ {s} : InQueue(r)' <=> InQueue(r)
    BY <1>5, SameView DEF Moved
  <2> HIDE DEF Linked, InQueue
  <2> QED BY <1>4, <2>1, <2>2
<1>7. UNCHANGED <<images, frame, images_root, prev_images_root, held>>
  BY DEF lists
<1>8. TypeOK' /\ Lists'
  BY <1>1, <1>5, <1>7, TypesKept DEF TypeOK, Moved
<1>9. Stacks'
  BY <1>1, StacksKept
<1>10. OneCustodian'
  <2>1. \A i \in DOMAIN ops : ops[i].op \in Custody => i = 2
    BY DEF Custody
  <2>2. Takes(Driver, ops)
    BY <1>1, <2>1 DEF Takes
  <2> QED BY <1>1, <2>2, CustodyKept
<1>11. KeysStay
  BY <1>6 DEF KeysStay
<1>12. AllReady'
  <2>1. Ready(ops[1])'
    <3>1. PICK o : o = ops[1]
      OBVIOUS
    <3>2. Ready(o)'
      BY <3>1 DEF Ready, OnItems
    <3> QED BY <3>1, <3>2
  <2>2. Ready(ops[2])'
    <3>1. PICK o : o = ops[2]
      OBVIOUS
    <3>2. o.x = s /\ (o.op = "orphan" \/ (o.op = "evict" /\ item'[s].ref_count = 0))
      BY <1>4, <3>1
    <3>3. Linked(s)' /\ ~InQueue(s)'
      BY <1>3, <1>5
    <3> HIDE DEF Linked, InQueue
    <3>4. Ready(o)'
      BY <3>2, <3>3 DEF Ready, OnItems
    <3> QED BY <3>1, <3>4
  <2>3. \A i \in DOMAIN ops : Ready(ops[i])'
    BY <2>1, <2>2
  <2>4. \A o \in Ops : Stays(Driver, o) /\ Ready(o) /\ o.op \in OnItems \ {"dec"} /\ o.x \in {s}
                         => Ready(o)'
    BY <1>1 DEF Loops, OnItems
  <2> QED BY <1>1, <1>5, <2>3, <2>4, AllReadyKept
<1>13. AllPlaced'
  <2>1. ASSUME NEW r \in Slots PROVE \A d \in item[r].uses : item'[d].key = item[d].key
    <3>1. item[r].uses \subseteq Slots
      BY ItemTypes
    <3> QED BY <1>6, <3>1
  <2>2. ASSUME NEW r \in Slots \ {s} PROVE Placed(r)'
    <3>1. Same(r) /\ Placed(r)
      BY <1>5 DEF Moved, AllPlaced
    <3> QED BY <1>1, <2>1, <3>1, PlacedKept DEF Custody
  <2>3. Placed(s)'
    <3>1. Placed(s) /\ Live(s)'
      BY <1>3, <1>4 DEF AllPlaced, Live
    <3> HIDE DEF Linked, InQueue, Live, InHand
    <3> QED BY <1>3, <1>4, <1>5, <2>1, <3>1 DEF Placed
  <2> QED BY <2>2, <2>3 DEF AllPlaced
<1>14. Counted'
  <2>1. \A r : DecRefs(r)' = DecRefs(r)
    <3>1. Len(ops) = 0 \/ ops[Len(ops)].op # "dec"
      BY <1>2, NoDecOnTop
    <3>2. \A r : Driver \notin DecRefs(r)
      BY <1>1, DecsKept
    <3>3. \A r : DecRefs(r)' = DecRefs(r) \ {Driver}
      BY <1>1, <3>1, DecsKept
    <3> QED BY <3>2, <3>3
  <2>2. \A r : ImageRefs(r)' = ImageRefs(r) /\ ListRefs(r)' = ListRefs(r)
    BY <1>7 DEF ImageRefs, ListRefs
  <2>3. \A r : KeyRefs(r)' = KeyRefs(r)
    BY <1>6, SameKeys
  <2>4. \A r \in Slots \ {s} :
          /\ item'[r].ref_count = item[r].ref_count /\ (InQueue(r)' <=> InQueue(r))
          /\ ImageRefs(r)' = ImageRefs(r) /\ ListRefs(r)' = ListRefs(r)
          /\ KeyRefs(r)' = KeyRefs(r) /\ DecRefs(r)' = DecRefs(r)
    BY <1>4, <1>6, <2>1, <2>2, <2>3
  <2>5. item'[s].ref_count = Refs(s)'
    <3>1. (IF InQueue(s) THEN 1 ELSE 0) = 1
      OBVIOUS
    <3>2. item[s].ref_count = 1 + Cardinality(ImageRefs(s)) + Cardinality(ListRefs(s))
            + Cardinality(KeyRefs(s)) + Cardinality(DecRefs(s))
      BY <3>1 DEF Counted, Refs
    <3>3. (IF InQueue(s)' THEN 1 ELSE 0) = 0
      BY <1>5
    <3>4. Refs(s)' = 0 + Cardinality(ImageRefs(s)) + Cardinality(ListRefs(s))
            + Cardinality(KeyRefs(s)) + Cardinality(DecRefs(s))
      BY <2>1, <2>2, <2>3, <3>3 DEF Refs
    <3>5. item'[s].ref_count = item[s].ref_count - 1
      BY <1>4
    <3> HIDE DEF Refs, InQueue
    <3> QED BY <3>2, <3>4, <3>5, RefSets
  <2>6. \A r \in {s} \cap Slots : item'[r].ref_count = Refs(r)'
    BY <2>5
  <2> HIDE DEF InQueue
  <2> QED BY <2>4, <2>6, CountedKept
<1>15. Distinct'
  <2>1. \A r \in {s} \cap Slots : Linked(r)' => Linked(r) /\ item'[r].key = item[r].key
                                              /\ item'[r].uses = item[r].uses
    BY <1>4, <1>5
  <2> QED BY <1>5, <2>1, DistinctKept
<1>16. Sizes'
  <2>1. \A e \in Caches : Pending(Driver, "empty", e) => Pending(Driver, "empty", e)'
    BY <1>1, PendingKept
  <2>2. \A r \in {s} \cap Slots : /\ Linked(r)' <=> Linked(r)
                                 /\ Linked(r) => item'[r].key = item[r].key
    BY <1>4, <1>5
  <2> QED BY <1>5, <2>1, <2>2, SizesKept
<1>17. Walks'
  BY <1>1, <1>2, <1>11, WalksKept
<1>18. Paths'
  <2>1. \A n \in Slots : ~Stays(Driver, Op("walk", n))
    BY <1>1 DEF Op, Loops
  <2> QED BY <1>1, <1>2, <1>6, <1>11, <2>1, PathsKept
<1>19. Gotten'
  BY <1>1, <1>2, GottenKept
<1>20. ListsCounted'
  BY <1>1, <1>2, <1>7, ListsKept
<1>21. Turns'
  <2>1. \A r \in Slots : Linked(r)' => Linked(r) /\ HomeOf(r)' = HomeOf(r)
    <3> HIDE DEF Linked
    <3> QED BY <1>6 DEF HomeOf
  <2> QED BY <1>1, <1>7, <2>1, TurnsKept DEF Loops
<1> QED BY <1>8, <1>9, <1>10, <1>12, <1>13, <1>14, <1>15, <1>16, <1>17, <1>18, <1>19,
           <1>20, <1>21

\* One round of the loop that cuts a cache.
LEMMA StepCut ==
  ASSUME IInv, Cut(Driver)
  PROVE  IInv'
<1>1. /\ Driver \in Threads /\ ~Idle(Driver) /\ Last(todo[Driver]).op = "cut"
      /\ TypeOK /\ Lists /\ AllPlaced /\ Stacks
  BY DEF Cut, Doing, Threads, IInv
<1>2. PICK c \in Caches : c = Last(todo[Driver]).x /\ c = Subject(Driver)
  <2>1. Last(todo[Driver]) \in Ops
    BY <1>1, Top
  <2> QED BY <1>1, <2>1, OpTypes DEF Loops, Subject
<1>3. UNCHANGED <<chain, cache_size, got, lists, phase>>
  BY DEF Cut
<1>4. ASSUME queue[c] # <<>>, NEW s, s = Head(queue[c]),
             queue' = [queue EXCEPT ![c] = Tail(@)], item' = Dec(s, item),
             Then(Driver, <<Op("cut", c),
                            Op(IF item[s].ref_count = 1 THEN "evict" ELSE "orphan", s)>>)
      PROVE  IInv'
  <2>1. QueuesKeep({s}) /\ s \in Slots /\ InQueue(s)
    BY <1>1, <1>4, QueuePops
  <2>2. PICK k \in {"evict", "orphan"} : k = IF item[s].ref_count = 1 THEN "evict" ELSE "orphan"
    OBVIOUS
  <2>3. PICK ops : ops = <<Op("cut", c), Op(k, s)>>
    OBVIOUS
  <2>4. /\ ops \in Seq(Ops) /\ DOMAIN ops = {1, 2}
        /\ ops[1].op = "cut" /\ ops[2].op = k /\ ops[2].x = s
        /\ Op("cut", c).op = "cut" /\ Op(k, s).op = k
    <3>1. Op("cut", c) \in Ops /\ Op(k, s) \in Ops
      BY <2>1, <2>2, OpTypes DEF Loops
    <3> QED BY <2>3, <3>1 DEF Op
  <2>5. Stepped(Driver, ops)
    BY <1>1, <1>4, <2>2, <2>3, <2>4, ThenSteps
  <2>6. Fits(Driver, ops)
    <3>1. /\ Driver \in MayDo("cut") /\ Driver \in MayDo(k)
          /\ MayWait("cut") \subseteq MayWait(k) /\ "cut" \in MayWait(k)
      BY <2>2 DEF MayDo, MayWait, Alone, Loops, Steps
    <3>2. 2 # 1 /\ k # "cut"
      BY <2>2
    <3>3. \A j \in DOMAIN todo[Driver] :
            Kept(Driver, Driver, j) => todo[Driver][j].op \in MayWait("cut")
      <4>1. ASSUME NEW j \in DOMAIN todo[Driver], Kept(Driver, Driver, j)
            PROVE  todo[Driver][j].op \in MayWait("cut")
        <5>1. j < Rest(Driver) + 1 /\ Rest(Driver) + 1 \in DOMAIN todo[Driver]
              /\ todo[Driver][Rest(Driver) + 1] = Last(todo[Driver])
          BY <1>1, <4>1, Top DEF Kept
        <5> QED BY <1>1, <4>1, <5>1 DEF Stacks
      <4> QED BY <4>1
    <3>4. Rest(Driver) \in Nat
      BY <1>1, Top
    <3> QED BY <2>4, <3>1, <3>2, <3>3, <3>4 DEF Fits
  <2>7. ChainsKeep({})
    BY <1>1, <1>3, SameChains
  <2> QED BY <1>1, <1>3, <1>4, <2>1, <2>2, <2>4, <2>5, <2>6, <2>7, Pops
<1>5. ASSUME Then(Driver, <<>>), UNCHANGED <<item, queue>>
      PROVE  IInv'
  BY <1>1, <1>3, <1>5, StepFinish
<1> QED BY <1>2, <1>4, <1>5 DEF Cut

\* The last round of the loop that empties a cache.
LEMMA StepEmptied ==
  ASSUME IInv, Doing(Driver, "empty"), NEW c, c = Subject(Driver),
         {b \in Buckets : chain[b] # <<>> /\ HomeOf(Head(chain[b])) = c} = {},
         queue' = [queue EXCEPT ![c] = <<>>], cache_size' = [cache_size EXCEPT ![c] = 0],
         Then(Driver, <<>>), UNCHANGED <<item, chain, got, lists, phase>>
  PROVE  IInv'
<1> USE DEF IInv
<1>1. ~Idle(Driver) /\ Last(todo[Driver]).op = "empty" /\ Last(todo[Driver]).x = c
  BY DEF Doing, Subject
<1>2. /\ Maintaining /\ Driver \in Threads /\ \A w \in Workers : got[w] = Nothing
  BY <1>1, Maintains
<1>3. c \in Caches
  <2>1. Last(todo[Driver]) \in Ops
    BY <1>1, <1>2, Top
  <2> QED BY <1>1, <2>1, OpTypes DEF Loops
<1>4. \A r \in Slots : Linked(r) => HomeOf(r) # c
  <2>1. SUFFICES ASSUME NEW r \in Slots, Linked(r), HomeOf(r) = c PROVE FALSE
    OBVIOUS
  <2>2. PICK b \in Buckets : r \in ToSet(chain[b])
    BY <2>1 DEF Linked
  <2>3. chain[b] \in Seq(Slots) /\ chain[b] # <<>> /\ Head(chain[b]) \in ToSet(chain[b])
    <3>1. chain[b] \in Seq(Slots)
      BY <2>2 DEF TypeOK
    <3>2. chain[b] # <<>>
      BY <2>2, <3>1, Elements
    <3> QED BY <3>1, <3>2, Elements
  <2>4. PICK h \in Slots : h = Head(chain[b])
    BY <2>2, <2>3, ListElements
  <2>5. ChainOf(h) = b /\ ChainOf(r) = b /\ Linked(h) /\ Linked(r)
    BY <2>1, <2>2, <2>3, <2>4, ListElements
  <2>6. item[h].key \in Keys /\ item[r].key \in Keys
    BY <2>5, ListElements
  <2>7. HomeOf(h) = c
    BY <2>1, <2>5, <2>6, KeysAssumption DEF ChainOf, HomeOf
  <2> QED BY <2>2, <2>3, <2>4, <2>7
<1>5. UNCHANGED queue
  <2>1. queue \in [Caches -> Seq(Slots)] /\ queue[c] \in Seq(Slots)
    BY <1>3 DEF TypeOK
  <2>2. ASSUME NEW s \in ToSet(queue[c]) PROVE FALSE
    <3>1. InQueue(s) /\ HomeOf(s) = c /\ s \in Slots
      BY <1>3, <2>2, ListElements
    <3>2. Linked(s)
      BY <3>1, ListElements
    <3> HIDE DEF Linked
    <3> QED BY <1>4, <3>1, <3>2
  <2>3. queue[c] = <<>>
    BY <2>1, <2>2, Elements
  <2> QED BY <1>3, <2>1, <2>3
<1>6. PICK ops : ops = <<>>
  OBVIOUS
<1>7. ops \in Seq(Ops) /\ DOMAIN ops = {} /\ Len(ops) = 0
  BY <1>6
<1>8. Stepped(Driver, ops)
  BY <1>1, <1>2, <1>6, <1>7, ThenSteps
<1>9. Fits(Driver, ops)
  BY <1>2, <1>6, Nothing_Fits
<1>10. UNCHANGED <<images, frame, images_root, prev_images_root, held>>
  BY DEF lists
<1>11. /\ Moved({}) /\ Lists' /\ Stacks' /\ OneCustodian' /\ AllReady'
       /\ AllPlaced' /\ Distinct' /\ Walks' /\ Paths'
  BY <1>1, <1>2, <1>5, <1>7, <1>8, <1>9, QuietStep DEF Custody
<1>12. Counted'
  BY <1>1, <1>2, <1>5, <1>7, <1>8, <1>10, QuietCounted
<1>13. cache_size' \in [Caches -> Nat] /\ Sizes'
  <2>1. cache_size \in [Caches -> Nat]
    BY DEF TypeOK
  <2>2. cache_size' \in [Caches -> Nat] /\ cache_size'[c] = 0
        /\ \A d \in Caches \ {c} : cache_size'[d] = cache_size[d]
    BY <1>3, <2>1
  <2>3. \A r : (Linked(r)' <=> Linked(r)) /\ HomeOf(r)' = HomeOf(r)
    BY DEF Linked, HomeOf
  <2>4. \A d : LinkedIn(d)' = LinkedIn(d)
    <3> HIDE DEF Linked
    <3> QED BY <2>3 DEF LinkedIn
  <2>5. Cardinality(LinkedIn(c)') = 0
    <3>1. LinkedIn(c) = {}
      BY <1>4 DEF LinkedIn
    <3> QED BY <2>4, <3>1, FS_EmptySet
  <2>6. \A d \in Caches \ {c} : Pending(Driver, "empty", d) => Pending(Driver, "empty", d)'
    BY <1>1, <1>2, <1>8, PendingKept
  <2> HIDE DEF LinkedIn, Pending
  <2>7. ASSUME NEW d \in Caches
        PROVE  /\ Cardinality(LinkedIn(d)') <= cache_size'[d]
               /\ ~Pending(Driver, "empty", d)' => cache_size'[d] = Cardinality(LinkedIn(d)')
    <3>1. CASE d = c
      BY <2>2, <2>5, <3>1
    <3>2. CASE d # c
      BY <2>2, <2>4, <2>6, <3>2 DEF Sizes
    <3> QED BY <3>1, <3>2
  <2> QED BY <2>2, <2>7 DEF Sizes
<1>14. TypeOK'
  BY <1>2, <1>8, <1>10, <1>11, <1>13, TypesKept DEF TypeOK
<1>15. Gotten'
  BY <1>2, <1>7, <1>8, GottenKept
<1>16. ListsCounted'
  BY <1>1, <1>2, <1>7, <1>8, <1>10, ListsKept
<1>17. Turns'
  <2>1. \A r \in Slots : Linked(r)' => Linked(r) /\ HomeOf(r)' = HomeOf(r)
    BY DEF Linked, HomeOf
  <2> QED BY <1>1, <1>2, <1>4, <1>7, <1>8, <1>10, <2>1, TurnsKept
<1> QED BY <1>11, <1>12, <1>13, <1>14, <1>15, <1>16, <1>17

\* One round of the loop that empties a cache.
LEMMA StepEmpty ==
  ASSUME IInv, Empty(Driver)
  PROVE  IInv'
<1>1. PICK c : c = Subject(Driver)
  OBVIOUS
<1>2. Doing(Driver, "empty") /\ UNCHANGED <<item, chain, got, lists, phase>>
  BY DEF Empty
<1>3. ASSUME NEW b \in Buckets, chain[b] # <<>>, HomeOf(Head(chain[b])) = c,
             Then(Driver, <<Op("empty", c), Op("walk", Head(chain[b]))>>),
             UNCHANGED <<queue, cache_size>>
      PROVE  IInv'
  <2>1. PICK h : h = Head(chain[b])
    OBVIOUS
  <2>2. Then(Driver, <<Op("empty", c), Op("walk", h)>>) /\ HomeOf(h) = c
    BY <1>3, <2>1
  <2>3. UNCHANGED <<item, chain, queue, cache_size, got, lists, phase>>
    BY <1>2, <1>3
  <2> QED BY <1>1, <1>2, <1>3, <2>1, <2>2, <2>3, StepNextChain
<1>4. ASSUME {b \in Buckets : chain[b] # <<>> /\ HomeOf(Head(chain[b])) = c} = {},
             queue' = [queue EXCEPT ![c] = <<>>],
             cache_size' = [cache_size EXCEPT ![c] = 0], Then(Driver, <<>>)
      PROVE  IInv'
  BY <1>1, <1>2, <1>4, StepEmptied
<1> QED BY <1>1, <1>3, <1>4 DEF Empty

\* What follows an item in its chain.
LEMMA Follows ==
  ASSUME TypeOK, Lists, AllPlaced, NEW s \in Slots, Linked(s), NEW n, n = Successor(s)
  PROVE  \/ n = None
         \/ /\ n \in Slots /\ n # s /\ Linked(n)
            /\ ChainOf(n) = ChainOf(s) /\ HomeOf(n) = HomeOf(s)
<1>1. PICK after : after = {r \in Slots : \E b \in Buckets :
                      \E i \in 1 .. Len(chain[b]) - 1 :
                        chain[b][i] = s /\ chain[b][i + 1] = r}
  OBVIOUS
<1>2. n = IF after = {} THEN None ELSE CHOOSE r \in after : TRUE
  BY <1>1 DEF Successor
<1>3. CASE after # {}
  <2>1. n \in after
    BY <1>2, <1>3
  <2>2. PICK b \in Buckets : \E i \in 1 .. Len(chain[b]) - 1 :
                        chain[b][i] = s /\ chain[b][i + 1] = n
    BY <1>1, <2>1
  <2>3. chain[b] \in Seq(Slots) /\ Len(chain[b]) \in Nat /\ DOMAIN chain[b] = 1 .. Len(chain[b])
    BY <2>2 DEF TypeOK
  <2>4. PICK i \in 1 .. Len(chain[b]) - 1 : chain[b][i] = s /\ chain[b][i + 1] = n
    BY <2>2
  <2>5. i \in 1 .. Len(chain[b]) /\ i + 1 \in 1 .. Len(chain[b]) /\ i # i + 1
    BY <2>3, <2>4
  <2>6. s \in ToSet(chain[b]) /\ n \in ToSet(chain[b])
    BY <2>3, <2>4, <2>5, Elements
  <2>7. n # s
    BY <2>3, <2>4, <2>5 DEF Lists, IsInjective
  <2>8. /\ n \in Slots /\ Linked(n) /\ ChainOf(n) = b /\ ChainOf(s) = b
    BY <2>2, <2>6, ListElements
  <2>9. item[n].key \in Keys /\ item[s].key \in Keys
    BY <2>8, ListElements
  <2>10. HomeOf(n) = HomeOf(s)
    BY <2>8, <2>9, KeysAssumption DEF ChainOf, HomeOf
  <2> HIDE DEF Linked
  <2> QED BY <2>7, <2>8, <2>10
<1> QED BY <1>2, <1>3

\* The books of a cache that an item leaves while it is emptied.
LEMMA SizesShrink ==
  ASSUME TypeOK, Sizes, NEW t \in Threads, NEW ops, Stepped(t, ops), UNCHANGED cache_size,
         ~Idle(t), Last(todo[t]).op = "walk", NEW s \in Slots,
         \A r \in Slots : Linked(r)' <=> Linked(r) /\ r # s,
         \A r \in Slots : item'[r].key = item[r].key,
         Pending(Driver, "empty", HomeOf(s))
  PROVE  Sizes'
<1>1. \A r \in Slots : HomeOf(r)' = HomeOf(r)
  BY DEF HomeOf
<1>2. \A c : LinkedIn(c)' = LinkedIn(c) \ {s}
  <2> HIDE DEF Linked
  <2> QED BY <1>1 DEF LinkedIn
<1>3. \A c : Pending(Driver, "empty", c) => Pending(Driver, "empty", c)'
  <2>1. Driver \in Threads
    BY DEF Threads
  <2> QED BY <2>1, PendingKept
<1>4. PICK h : h = HomeOf(s)
  OBVIOUS
<1>5. \A c : c # h => s \notin LinkedIn(c)
  BY <1>4 DEF LinkedIn
<1> HIDE DEF Pending, LinkedIn, Linked
<1>6. ASSUME NEW c \in Caches
      PROVE  /\ Cardinality(LinkedIn(c)') <= cache_size'[c]
             /\ ~Pending(Driver, "empty", c)' =>
                                cache_size'[c] = Cardinality(LinkedIn(c)')
  <2>1. CASE s \notin LinkedIn(c)
    <3>1. LinkedIn(c)' = LinkedIn(c)
      BY <1>2, <2>1
    <3> QED BY <1>3, <3>1 DEF Sizes
  <2>2. CASE s \in LinkedIn(c)
    <3>1. c = h /\ Pending(Driver, "empty", c)'
      BY <1>3, <1>4, <1>5, <2>2
    <3>2. /\ Cardinality(LinkedIn(c)') = Cardinality(LinkedIn(c)) - 1
          /\ Cardinality(LinkedIn(c)) \in Nat
      BY <1>2, <2>2, LinkedInFinite, OneLess
    <3>3. Cardinality(LinkedIn(c)) <= cache_size[c] /\ cache_size[c] \in Nat
      BY DEF Sizes, TypeOK
    <3> QED BY <3>1, <3>2, <3>3
  <2> QED BY <2>1, <2>2
<1> QED BY <1>6 DEF Sizes

\* A cache is being emptied, whatever item it is known by.
LEMMA SamePending ==
  ASSUME NEW h, NEW n, HomeOf(n)' = h, Pending(Driver, "empty", h)'
  PROVE  Pending(Driver, "empty", HomeOf(n))'
BY DEF Pending

\* An item is taken out of its chain and its queue.
LEMMA OutOfBoth ==
  ASSUME TypeOK, NEW s \in Slots, item' \in [Slots -> Item],
         \A r \in Slots \ {s} : item'[r] = item[r], ChainsKeep({s}), QueuesKeep({s})
  PROVE  /\ Moved({s}) /\ ~Linked(s)' /\ ~InQueue(s)'
         /\ \A b \in Buckets : s \in ToSet(chain'[b]) => s \in ToSet(chain[b])
         /\ \A c \in Caches : s \in ToSet(queue'[c]) => s \in ToSet(queue[c])
<1>1. PICK S : S = {s}
  OBVIOUS
<1>2. ChainsKeep(S) /\ QueuesKeep(S) /\ (S = {s} \/ S = {}) /\ s \in S
  BY <1>1
<1>3. /\ Moved({s})
      /\ Linked(s)' <=> Linked(s) /\ s \notin S
      /\ InQueue(s)' <=> InQueue(s) /\ s \notin S
      /\ \A b \in Buckets : s \in ToSet(chain'[b]) => s \in ToSet(chain[b])
      /\ \A c \in Caches : s \in ToSet(queue'[c]) => s \in ToSet(queue[c])
  BY <1>2, Removed
<1> HIDE DEF Linked, InQueue, Moved
<1> QED BY <1>2, <1>3

\* An item is walked over.
LEMMA WalksOver ==
  ASSUME IInv, ~Idle(Driver), Last(todo[Driver]).op = "walk",
         NEW s \in Slots, s = Last(todo[Driver]).x, NEW n, n = Successor(s),
         NEW refs, refs = item[s].ref_count - (IF InQueue(s) THEN 1 ELSE 0),
         ChainsKeep({s}), QueuesKeep({s}),
         item' \in [Slots -> Item], \A r \in Slots \ {s} : item'[r] = item[r],
         item'[s].ref_count = refs, item'[s].shard = (refs = 0),
         item'[s].key = item[s].key, item'[s].uses = item[s].uses,
         item'[s].live = item[s].live,
         NEW ops \in Seq(Ops), 1 \in DOMAIN ops, ops[1].op = "walk", ops[1].x = n,
         \A i \in DOMAIN ops :
           i = 1 \/ (i = 2 /\ refs = 0 /\ ops[i].op = "destruct" /\ ops[i].x = s),
         refs = 0 => 2 \in DOMAIN ops, Stepped(Driver, ops), Fits(Driver, ops),
         UNCHANGED <<cache_size, got, lists, phase>>
  PROVE  IInv'
<1> USE DEF IInv
<1>1. /\ Maintaining /\ Driver \in Threads
      /\ \A o : Stays(Driver, o) => o.op \in Loops
      /\ \A u \in Threads : \A j \in DOMAIN todo[u] : \A r :
           Kept(Driver, u, j) => ~InCustody(r, u, j)
      /\ \A w \in Workers : got[w] = Nothing
  BY Maintains
<1>2. \A i \in DOMAIN ops : ops[i].op \in {"walk", "destruct"}
  OBVIOUS
<1>3. /\ Linked(s) /\ Live(s) /\ Pending(Driver, "empty", HomeOf(s))
      /\ ChainOf(s) \in Buckets
  <2>1. /\ Rest(Driver) + 1 \in DOMAIN todo[Driver]
        /\ todo[Driver][Rest(Driver) + 1] = Last(todo[Driver])
    BY <1>1, Top
  <2>2. s # None
    BY BoundsAssumption
  <2>3. Ready(Last(todo[Driver]))
    BY <1>1, <2>1 DEF AllReady
  <2>4. Linked(s)
    BY <2>2, <2>3 DEF Ready, OnItems
  <2>5. Pending(Driver, "empty", HomeOf(s))
    BY <2>1, <2>2 DEF Walks
  <2> HIDE DEF Linked, Pending
  <2> QED BY <2>4, <2>5, ListElements
<1>4. \/ n = None
      \/ /\ n \in Slots /\ n # s /\ Linked(n)
         /\ ChainOf(n) = ChainOf(s) /\ HomeOf(n) = HomeOf(s)
  BY <1>3, Follows
<1>5. /\ Moved({s}) /\ ~Linked(s)' /\ ~InQueue(s)'
      /\ \A b \in Buckets : s \in ToSet(chain'[b]) => s \in ToSet(chain[b])
      /\ \A e \in Caches : s \in ToSet(queue'[e]) => s \in ToSet(queue[e])
  BY OutOfBoth
<1>6. /\ \A r \in Slots \ {s} : (Linked(r)' <=> Linked(r)) /\ (InQueue(r)' <=> InQueue(r))
      /\ \A r \in Slots : item'[r].key = item[r].key /\ item'[r].uses = item[r].uses
      /\ \A r \in Slots : ChainOf(r)' = ChainOf(r) /\ HomeOf(r)' = HomeOf(r)
  <2>1. \A r \in Slots \ {s} : (Linked(r)' <=> Linked(r)) /\ (InQueue(r)' <=> InQueue(r))
    BY <1>5, SameView DEF Moved
  <2>2. \A r \in Slots : item'[r].key = item[r].key /\ item'[r].uses = item[r].uses
    OBVIOUS
  <2> HIDE DEF Linked, InQueue
  <2> QED BY <2>1, <2>2 DEF ChainOf, HomeOf
<1>7. UNCHANGED <<images, frame, images_root, prev_images_root, held>>
  BY DEF lists
<1>8. TypeOK' /\ Lists'
  BY <1>1, <1>5, <1>7, TypesKept DEF TypeOK, Moved
<1>9. Stacks'
  BY <1>1, StacksKept
<1>10. OneCustodian'
  <2>1. \A i \in DOMAIN ops : ops[i].op \in Custody => i = 2
    BY DEF Custody
  <2>2. Takes(Driver, ops)
    BY <1>1, <2>1 DEF Takes
  <2> QED BY <1>1, <2>2, CustodyKept
<1>11. KeysStay
  BY <1>6 DEF KeysStay
<1>12. AllReady'
  <2>1. Ready(ops[1])'
    <3>1. PICK o : o = ops[1]
      OBVIOUS
    <3>2. n = None \/ (n \in Slots /\ Linked(n)')
      BY <1>4, <1>6
    <3> HIDE DEF Linked
    <3>3. Ready(o)'
      BY <3>1, <3>2 DEF Ready, OnItems
    <3> QED BY <3>1, <3>3
  <2>2. ASSUME 2 \in DOMAIN ops PROVE Ready(ops[2])'
    <3>1. PICK o : o = ops[2]
      OBVIOUS
    <3>2. o.x = s /\ o.op = "destruct" /\ item'[s].ref_count = 0
      BY <2>2, <3>1
    <3>3. Lost(s)' /\ Live(s)'
      BY <1>3, <1>5, <3>2 DEF Lost, Live
    <3> HIDE DEF Lost, Live
    <3>4. Ready(o)'
      BY <3>2, <3>3 DEF Ready, OnItems
    <3> QED BY <3>1, <3>4
  <2>3. \A i \in DOMAIN ops : Ready(ops[i])'
    BY <2>1, <2>2
  <2>4. \A o \in Ops : Stays(Driver, o) /\ Ready(o) /\ o.op \in OnItems \ {"dec"} /\ o.x \in {s}
                         => Ready(o)'
    BY <1>1 DEF Loops, OnItems
  <2> QED BY <1>1, <1>5, <2>3, <2>4, AllReadyKept
<1>13. AllPlaced'
  <2>1. ASSUME NEW r \in Slots PROVE \A d \in item[r].uses : item'[d].key = item[d].key
    <3>1. item[r].uses \subseteq Slots
      BY ItemTypes
    <3> QED BY <1>6, <3>1
  <2>2. ASSUME NEW r \in Slots \ {s} PROVE Placed(r)'
    <3>1. Same(r) /\ Placed(r)
      BY <1>5 DEF Moved, AllPlaced
    <3> QED BY <1>1, <2>1, <3>1, PlacedKept DEF Custody
  <2>3. Placed(s)'
    <3>1. Placed(s) /\ Live(s)'
      BY <1>3 DEF AllPlaced, Live
    <3>2. refs = 0 => InHand(s)'
      <4>1. refs = 0 => 2 \in DOMAIN ops /\ ops[2].op \in Custody /\ ops[2].x = s
        BY DEF Custody
      <4> QED BY <1>1, <4>1, HandKept
    <3>3. (item'[s].shard \/ item'[s].ref_count = 0) => refs = 0
      OBVIOUS
    <3> HIDE DEF Linked, InQueue, Live, InHand
    <3>4. Live(s)' => item'[s].key \in Keys
      BY <1>3, <3>1 DEF Placed
    <3>5. \A d \in item'[s].uses : item'[d].key \in Uses[item'[s].key]
      <4>1. PICK k, u : k = item[s].key /\ u = item[s].uses
        OBVIOUS
      <4>2. \A d \in u : item[d].key \in Uses[k]
        BY <3>1, <4>1 DEF Placed
      <4>3. ASSUME NEW d \in u PROVE item'[d].key \in Uses[k]
        <5>1. item'[d].key = item[d].key
          BY <2>1, <4>1
        <5> QED BY <4>2, <5>1
      <4>4. item'[s].key = k /\ item'[s].uses = u
        BY <4>1
      <4> QED BY <4>3, <4>4
    <3>6. /\ \A b \in Buckets : s \in ToSet(chain'[b]) => Bucket[item'[s].key] = b
          /\ \A c \in Caches : s \in ToSet(queue'[c]) => CacheOf[item'[s].key] = c
      <4>1. /\ \A b \in Buckets : s \in ToSet(chain[b]) => Bucket[item[s].key] = b
            /\ \A c \in Caches : s \in ToSet(queue[c]) => CacheOf[item[s].key] = c
        BY <3>1 DEF Placed
      <4>2. PICK k : k = item[s].key /\ k = item'[s].key
        OBVIOUS
      <4>3. ASSUME NEW b \in Buckets, s \in ToSet(chain'[b]) PROVE Bucket[k] = b
        <5>1. s \in ToSet(chain[b])
          BY <1>5, <4>3
        <5>2. Bucket[item[s].key] = b
          BY <4>1, <5>1
        <5> QED BY <4>2, <5>2
      <4>4. ASSUME NEW c \in Caches, s \in ToSet(queue'[c]) PROVE CacheOf[k] = c
        <5>1. s \in ToSet(queue[c])
          BY <1>5, <4>4
        <5>2. CacheOf[item[s].key] = c
          BY <4>1, <5>1
        <5> QED BY <4>2, <5>2
      <4> QED BY <4>2, <4>3, <4>4
    <3>7. Live(s)' /\ ~Linked(s)' /\ (item'[s].shard \/ item'[s].ref_count = 0) => InHand(s)'
      BY <3>2, <3>3
    <3> QED BY <1>5, <3>1, <3>4, <3>5, <3>6, <3>7 DEF Placed
  <2> QED BY <2>2, <2>3 DEF AllPlaced
<1>14. Counted'
  <2>1. \A r : DecRefs(r)' = DecRefs(r)
    <3>1. Len(ops) = 0 \/ ops[Len(ops)].op # "dec"
      BY <1>2, NoDecOnTop
    <3>2. \A r : Driver \notin DecRefs(r)
      BY <1>1, DecsKept
    <3>3. \A r : DecRefs(r)' = DecRefs(r) \ {Driver}
      BY <1>1, <3>1, DecsKept
    <3> QED BY <3>2, <3>3
  <2>2. \A r : ImageRefs(r)' = ImageRefs(r) /\ ListRefs(r)' = ListRefs(r)
    BY <1>7 DEF ImageRefs, ListRefs
  <2>3. \A r : KeyRefs(r)' = KeyRefs(r)
    BY <1>6, SameKeys
  <2>4. \A r \in Slots \ {s} :
          /\ item'[r].ref_count = item[r].ref_count /\ (InQueue(r)' <=> InQueue(r))
          /\ ImageRefs(r)' = ImageRefs(r) /\ ListRefs(r)' = ListRefs(r)
          /\ KeyRefs(r)' = KeyRefs(r) /\ DecRefs(r)' = DecRefs(r)
    BY <1>6, <2>1, <2>2, <2>3
  <2>5. item'[s].ref_count = Refs(s)'
    <3>1. PICK q \in Nat : q = (IF InQueue(s) THEN 1 ELSE 0)
      OBVIOUS
    <3>2. item[s].ref_count = q + Cardinality(ImageRefs(s)) + Cardinality(ListRefs(s))
            + Cardinality(KeyRefs(s)) + Cardinality(DecRefs(s))
      BY <3>1 DEF Counted, Refs
    <3>3. (IF InQueue(s)' THEN 1 ELSE 0) = 0
      BY <1>5
    <3>4. Refs(s)' = 0 + Cardinality(ImageRefs(s)) + Cardinality(ListRefs(s))
            + Cardinality(KeyRefs(s)) + Cardinality(DecRefs(s))
      BY <2>1, <2>2, <2>3, <3>3 DEF Refs
    <3>5. item'[s].ref_count = item[s].ref_count - q
      BY <3>1
    <3> HIDE DEF Refs, InQueue
    <3> QED BY <3>2, <3>4, <3>5, RefSets
  <2>6. \A r \in {s} \cap Slots : item'[r].ref_count = Refs(r)'
    BY <2>5
  <2> HIDE DEF InQueue
  <2> QED BY <2>4, <2>6, CountedKept
<1>15. Distinct'
  <2>1. \A r \in {s} \cap Slots : Linked(r)' => Linked(r) /\ item'[r].key = item[r].key
                                              /\ item'[r].uses = item[r].uses
    BY <1>5
  <2> QED BY <1>5, <2>1, DistinctKept
<1>16. Sizes'
  <2>1. \A r \in Slots : Linked(r)' <=> Linked(r) /\ r # s
    <3> HIDE DEF Linked
    <3> QED BY <1>5, <1>6
  <2> HIDE DEF Linked
  <2> QED BY <1>1, <1>3, <1>6, <2>1, SizesShrink
<1>17. Walks'
  <2>1. n # None => Pending(Driver, "empty", HomeOf(n))'
    <3>1. PICK h : h = HomeOf(s)
      OBVIOUS
    <3>2. Pending(Driver, "empty", h)'
      BY <1>1, <1>3, <3>1, PendingKept
    <3>3. n # None => HomeOf(n)' = h
      BY <1>4, <1>6, <3>1
    <3> HIDE DEF HomeOf
    <3> QED BY <3>2, <3>3, SamePending
  <2>2. \A i \in DOMAIN ops : ops[i].op = "walk" => ops[i].x = n
    OBVIOUS
  <2>3. \A i \in DOMAIN ops : ops[i].op = "walk" /\ ops[i].x # None =>
           Pending(Driver, "empty", HomeOf(ops[i].x))'
    <3>1. PICK h : h = HomeOf(n)'
      OBVIOUS
    <3>2. n # None => Pending(Driver, "empty", h)'
      BY <2>1, <3>1 DEF Pending
    <3>3. \A m : m = n => HomeOf(m)' = h
      BY <3>1 DEF HomeOf
    <3>4. ASSUME NEW i \in DOMAIN ops, ops[i].op = "walk", ops[i].x # None
          PROVE  Pending(Driver, "empty", HomeOf(ops[i].x))'
      <4>1. PICK m : m = ops[i].x
        OBVIOUS
      <4>2. m = n /\ n # None
        BY <2>2, <3>4, <4>1
      <4>3. HomeOf(m)' = h /\ Pending(Driver, "empty", h)'
        BY <3>2, <3>3, <4>2
      <4>4. Pending(Driver, "empty", HomeOf(m))'
        BY <4>3, SamePending
      <4> QED BY <4>1, <4>4
    <3> QED BY <3>4
  <2> QED BY <1>1, <1>11, <2>3, WalksKept
<1>18. Paths'
  <2>1. \A m \in Slots : ~Stays(Driver, Op("walk", m))
    BY <1>1 DEF Op, Loops
  <2>2. ASSUME NEW i \in DOMAIN ops, NEW j \in DOMAIN ops, i < j, ops[i].op = "walk",
               ops[i].x # None
        PROVE  Off(ops[j], ops[i].x)'
    <3>1. i = 1 /\ j = 2
      BY <2>2
    <3>2. n \in Slots /\ n # s /\ ChainOf(n)' = ChainOf(s)'
      <4> HIDE DEF ChainOf, HomeOf, Linked
      <4>1. n # None
        BY <2>2, <3>1
      <4>2. n \in Slots /\ n # s /\ ChainOf(n) = ChainOf(s)
        BY <1>4, <4>1
      <4>3. ChainOf(n)' = ChainOf(n) /\ ChainOf(s)' = ChainOf(s)
        BY <1>6, <4>2
      <4> QED BY <4>2, <4>3
    <3>3. PICK o : o = ops[j]
      OBVIOUS
    <3>4. o.op = "destruct" /\ o.x = s
      BY <2>2, <3>1, <3>3
    <3>5. Off(o, n)'
      BY <3>2, <3>4 DEF Off
    <3> QED BY <3>1, <3>3, <3>5
  <2> QED BY <1>1, <1>6, <1>11, <2>1, <2>2, PathsKept
<1>19. Gotten'
  BY <1>1, <1>2, GottenKept
<1>20. ListsCounted'
  BY <1>1, <1>2, <1>7, ListsKept
<1>21. Turns'
  <2>1. \A r \in Slots : Linked(r)' => Linked(r) /\ HomeOf(r)' = HomeOf(r)
    <3> HIDE DEF Linked
    <3> QED BY <1>5, <1>6
  <2> QED BY <1>1, <1>2, <1>7, <2>1, TurnsKept DEF Loops
<1> QED BY <1>8, <1>9, <1>10, <1>12, <1>13, <1>14, <1>15, <1>16, <1>17, <1>18, <1>19,
           <1>20, <1>21

\* One round of the walk along a chain.
LEMMA StepWalk ==
  ASSUME IInv, Walk(Driver)
  PROVE  IInv'
<1>1. /\ Driver \in Threads /\ ~Idle(Driver) /\ Last(todo[Driver]).op = "walk"
      /\ TypeOK /\ Lists /\ AllPlaced /\ Stacks
  BY DEF Walk, Doing, Threads, IInv
<1>2. PICK s : s = Last(todo[Driver]).x /\ s = Subject(Driver)
  BY DEF Subject
<1>3. UNCHANGED <<cache_size, got, lists, phase>>
  BY DEF Walk
<1>4. s = None \/ (s \in Slots /\ Linked(s) /\ HomeOf(s) \in Caches)
  <2>1. Ready(Last(todo[Driver]))
    BY <1>1, Top DEF AllReady, IInv
  <2>2. s = None \/ (s \in Slots /\ Linked(s))
    BY <1>1, <1>2, <2>1 DEF Ready, OnItems
  <2> HIDE DEF Linked
  <2> QED BY <1>1, <2>2, ListElements
<1>9. PICK n : n = Successor(s)
  OBVIOUS
<1>10. PICK refs : refs = item[s].ref_count - (IF InQueue(s) THEN 1 ELSE 0)
  OBVIOUS
<1>5. ASSUME s # None,
             chain' = [chain EXCEPT ![ChainOf(s)] = Without(@, s)],
             queue' = [queue EXCEPT ![HomeOf(s)] = Without(@, s)],
             item' = [item EXCEPT ![s].ref_count = refs, ![s].shard = (refs = 0)],
             Then(Driver, IF refs # 0 THEN <<Op("walk", n)>>
                                      ELSE <<Op("walk", n), Op("destruct", s)>>)
      PROVE  IInv'
  <2>1. s \in Slots /\ Linked(s) /\ HomeOf(s) \in Caches
    BY <1>4, <1>5
  <2>2. ChainsKeep({s})
    BY <1>1, <1>5, <2>1, ChainLoses
  <2>3. QueuesKeep({s})
    <3>1. PICK a : a = HomeOf(s)
      OBVIOUS
    <3>2. queue' = [queue EXCEPT ![a] = Without(@, s)]
      BY <1>5, <3>1
    <3> QED BY <1>1, <2>1, <3>1, <3>2, QueueLoses
  <2>4. /\ item' \in [Slots -> Item] /\ \A r \in Slots \ {s} : item'[r] = item[r]
        /\ item'[s].ref_count = refs /\ item'[s].shard = (refs = 0)
        /\ item'[s].key = item[s].key /\ item'[s].uses = item[s].uses
        /\ item'[s].live = item[s].live
    <3>1. item \in [Slots -> Item] /\ item[s] \in Item /\ refs \in Int
      BY <1>1, <1>10, <2>1, ItemTypes DEF TypeOK
    <3>2. PICK i : i = [item[s] EXCEPT !.ref_count = refs, !.shard = (refs = 0)]
      OBVIOUS
    <3>3. /\ i \in Item /\ i.ref_count = refs /\ i.shard = (refs = 0)
          /\ i.key = item[s].key /\ i.uses = item[s].uses /\ i.live = item[s].live
      BY <3>1, <3>2 DEF Item
    <3>4. item' = [item EXCEPT ![s] = i]
      BY <1>5, <3>2
    <3> QED BY <2>1, <3>1, <3>3, <3>4
  <2>5. n \in Slots \cup {None}
    BY <1>1, <1>9, <2>1, Follows
  <2>6. Op("walk", n) \in Ops /\ Op("destruct", s) \in Ops
    BY <2>1, <2>5, OpTypes
  <2>7. /\ Driver \in MayDo("walk") /\ Driver \in MayDo("destruct")
        /\ MayWait("walk") \subseteq MayWait("destruct")
        /\ "walk" \in MayWait("destruct")
    BY <1>1 DEF MayDo, MayWait, Alone, Loops, Steps
  <2>8. Op("walk", n).op = "walk" /\ Op("walk", n).x = n
        /\ Op("destruct", s).op = "destruct" /\ Op("destruct", s).x = s
    BY DEF Op
  <2>9. CASE refs # 0
    <3>1. PICK ops : ops = <<Op("walk", n)>>
      OBVIOUS
    <3>2. Then(Driver, ops)
      BY <1>5, <2>9, <3>1
    <3>3. /\ ops \in Seq(Ops) /\ DOMAIN ops = {1} /\ ops[1].op = "walk" /\ ops[1].x = n
      BY <2>6, <2>8, <3>1
    <3>4. Stepped(Driver, ops)
      BY <1>1, <3>2, <3>3, ThenSteps
    <3>5. Fits(Driver, ops)
      BY <1>1, <2>7, <2>8, <3>1, OneFits
    <3>6. /\ \A i \in DOMAIN ops :
               i = 1 \/ (i = 2 /\ refs = 0 /\ ops[i].op = "destruct" /\ ops[i].x = s)
          /\ refs = 0 => 2 \in DOMAIN ops
      BY <2>9, <3>3
    <3> QED BY <1>1, <1>2, <1>3, <1>9, <1>10, <2>1, <2>2, <2>3, <2>4, <3>3, <3>4, <3>5, <3>6,
               WalksOver
  <2>10. CASE refs = 0
    <3>1. PICK ops : ops = <<Op("walk", n), Op("destruct", s)>>
      OBVIOUS
    <3>2. Then(Driver, ops)
      BY <1>5, <2>10, <3>1
    <3>3. /\ ops \in Seq(Ops) /\ DOMAIN ops = {1, 2} /\ ops[1].op = "walk" /\ ops[1].x = n
          /\ ops[2].op = "destruct" /\ ops[2].x = s
      BY <2>6, <2>8, <3>1
    <3>4. Stepped(Driver, ops)
      BY <1>1, <3>2, <3>3, ThenSteps
    <3>5. Fits(Driver, ops)
      BY <1>1, <2>7, <2>8, <3>1, TwoFit
    <3>6. /\ \A i \in DOMAIN ops :
               i = 1 \/ (i = 2 /\ refs = 0 /\ ops[i].op = "destruct" /\ ops[i].x = s)
          /\ refs = 0 => 2 \in DOMAIN ops
      BY <2>10, <3>3
    <3> QED BY <1>1, <1>2, <1>3, <1>9, <1>10, <2>1, <2>2, <2>3, <2>4, <3>3, <3>4, <3>5, <3>6,
               WalksOver
  <2> QED BY <2>9, <2>10
<1>6. ASSUME Then(Driver, <<>>), UNCHANGED <<item, chain, queue>>
      PROVE  IInv'
  BY <1>1, <1>3, <1>6, StepFinish
<1>7. CASE s = None
  BY <1>2, <1>6, <1>7 DEF Walk
<1>8. CASE s # None
  <2>1. /\ chain' = [chain EXCEPT ![ChainOf(s)] = Without(@, s)]
        /\ queue' = [queue EXCEPT ![HomeOf(s)] = Without(@, s)]
        /\ item' = [item EXCEPT ![s].ref_count = refs, ![s].shard = (refs = 0)]
        /\ Then(Driver, IF refs # 0 THEN <<Op("walk", n)>>
                                    ELSE <<Op("walk", n), Op("destruct", s)>>)
    BY <1>2, <1>8, <1>9, <1>10 DEF Walk
  <2> QED BY <1>5, <1>8, <2>1
<1> QED BY <1>7, <1>8

\* The driver is done with an item it left in its chain.
LEMMA StepOrphan ==
  ASSUME IInv, Orphan(Driver)
  PROVE  IInv'
<1>1. /\ Driver \in Threads /\ ~Idle(Driver) /\ Last(todo[Driver]).op = "orphan"
      /\ Then(Driver, <<>>)
      /\ UNCHANGED <<item, chain, queue, cache_size, got, lists, phase>>
  BY DEF Orphan, Doing, Threads, caches
<1> QED BY <1>1, StepFinish

-----------------------------------------------------------------------------
(* The invariant                                                           *)

\* Nothing happens.
LEMMA Stutters ==
  ASSUME IInv, UNCHANGED vars
  PROVE  IInv'
<1>1. UNCHANGED <<item, chain, queue, cache_size, todo, got, images, frame, images_root,
                  prev_images_root, held, phase>>
  BY DEF vars, caches, lists
<1>2. TypeOK' /\ Lists' /\ Stacks' /\ OneCustodian'
  BY <1>1 DEF IInv, TypeOK, Lists, Stacks, OneCustodian, InCustody
<1>3. AllReady' /\ AllPlaced'
  <2>1. AllReady'
    BY <1>1 DEF IInv, AllReady, Ready, Live, Lost, Linked, InQueue
  <2>2. AllPlaced'
    BY <1>1 DEF IInv, AllPlaced, Placed, Live, Linked, InQueue, InHand, InCustody
  <2> QED BY <2>1, <2>2
<1>4. Counted' /\ Distinct'
  BY <1>1 DEF IInv, Counted, Refs, InQueue, ImageRefs, ListRefs, KeyRefs, DecRefs, Doing,
              Idle, Subject, Distinct, Linked
<1>5. Sizes' /\ Walks' /\ Paths'
  <2>1. Sizes'
    BY <1>1 DEF IInv, Sizes, LinkedIn, Linked, HomeOf, Pending
  <2>2. Walks'
    BY <1>1 DEF IInv, Walks, HomeOf, Pending
  <2>3. Paths'
    BY <1>1 DEF IInv, Paths, Off, ChainOf
  <2> QED BY <2>1, <2>2, <2>3
<1>6. Gotten' /\ ListsCounted' /\ Turns'
  BY <1>1 DEF IInv, Gotten, InQueue, ListsCounted, Books, Unrefs, Releases, Pending, Turns,
              Maintaining, Idle, Linked, HomeOf
<1> QED BY <1>2, <1>3, <1>4, <1>5, <1>6 DEF IInv

\* Initially nothing is there.
LEMMA InitIInv ==
  Init => IInv
<1> SUFFICES ASSUME Init PROVE IInv
  OBVIOUS
<1> USE DEF Init
<1>1. /\ \A s : ~Linked(s) /\ ~InQueue(s)
      /\ \A t \in Threads : todo[t] = <<>> /\ DOMAIN todo[t] = {}
      /\ Driver \in Threads /\ Consumer \in Threads
      /\ \A c \in Caches : LinkedIn(c) = {}
      /\ \A w \in Workers : got[w] = Nothing
  <2>1. \A b \in Buckets : ToSet(chain[b]) = {}
    BY DEF ToSet
  <2>2. \A c \in Caches : ToSet(queue[c]) = {}
    BY DEF ToSet
  <2>3. \A s : ~Linked(s) /\ ~InQueue(s)
    BY <2>1, <2>2 DEF Linked, InQueue
  <2>4. \A c \in Caches : LinkedIn(c) = {}
    <3> HIDE DEF Linked
    <3> QED BY <2>3 DEF LinkedIn
  <2>5. /\ \A t \in Threads : todo[t] = <<>> /\ DOMAIN todo[t] = {}
        /\ Driver \in Threads /\ Consumer \in Threads
    BY DEF Threads
  <2> QED BY <2>3, <2>4, <2>5
<1>2. TypeOK
  <2>1. Unallocated \in Item
    BY DEF Unallocated, Item
  <2>2. NoList \in List
    BY DEF NoList, List
  <2>3. 0 \in 0 .. MaxHeld
    BY BoundsAssumption
  <2> QED BY <2>1, <2>2, <2>3 DEF TypeOK, Nothing
<1>3. Lists
  BY DEF Lists, IsInjective
<1>4. Stacks /\ OneCustodian /\ AllReady
  BY <1>1 DEF Stacks, OneCustodian, InCustody, AllReady
<1>5. AllPlaced /\ Distinct
  <2>1. /\ \A b \in Buckets : ToSet(chain[b]) = {}
        /\ \A c \in Caches : ToSet(queue[c]) = {}
    BY DEF ToSet
  <2> HIDE DEF Linked, InQueue
  <2> QED BY <1>1, <2>1 DEF AllPlaced, Placed, Live, Unallocated, Distinct
<1>6. Counted
  <2>1. ASSUME NEW s \in Slots PROVE item[s].ref_count = Refs(s)
    <3>1. ImageRefs(s) = {} /\ ListRefs(s) = {} /\ KeyRefs(s) = {} /\ DecRefs(s) = {}
      BY <1>1 DEF ImageRefs, ListRefs, KeyRefs, DecRefs, Doing, Idle, NoList, Unallocated
    <3>2. Refs(s) = 0 + Cardinality({}) + Cardinality({}) + Cardinality({}) + Cardinality({})
      BY <1>1, <3>1 DEF Refs
    <3>3. Cardinality({}) = 0
      BY FS_EmptySet
    <3>4. item[s].ref_count = 0
      BY DEF Unallocated
    <3> HIDE DEF Refs, Init
    <3> QED BY <3>2, <3>3, <3>4
  <2> QED BY <2>1 DEF Counted
<1>7. Sizes
  <2>1. \A c \in Caches : cache_size[c] = 0 /\ Cardinality(LinkedIn(c)) = 0
    BY <1>1, FS_EmptySet
  <2> HIDE DEF LinkedIn, Pending, Init
  <2> QED BY <2>1 DEF Sizes
<1>8. Walks /\ Paths /\ Gotten
  <2>1. Walks /\ Paths
    BY <1>1 DEF Walks, Paths
  <2>2. \A w \in Workers : w \in Threads
    BY DEF Threads
  <2>3. \A w \in Workers : \A k \in Keys : got[w][k] = None
    BY DEF Nothing
  <2>4. Gotten
    BY <1>1, <2>2, <2>3 DEF Gotten
  <2> QED BY <2>1, <2>4
<1>9. ListsCounted
  <2>1. Unrefs(Driver) = {} /\ Unrefs(Consumer) = {} /\ Releases(Driver) = {}
        /\ Releases(Consumer) = {}
    BY <1>1 DEF Unrefs, Releases, Pending
  <2>2. ASSUME NEW f \in Frames PROVE Books(Driver, Consumer, f)
    <3>1. frame[f].refs = 0 /\ frame[f].images = {} /\ held[f] = 0
          /\ images_root # f /\ prev_images_root # f
      BY BoundsAssumption DEF NoList
    <3>2. /\ One(images_root = f) = 0 /\ One(prev_images_root = f) = 0
          /\ One(f \in Unrefs(Driver)) = 0 /\ One(f \in Unrefs(Consumer)) = 0
      BY <2>1, <3>1 DEF One
    <3> HIDE DEF One, Init
    <3> QED BY <2>1, <3>1, <3>2 DEF Books
  <2> QED BY <2>2 DEF ListsCounted
<1>10. Turns
  <2>1. \A w \in Workers : Idle(w)
    BY <1>1 DEF Idle, Threads
  <2>2. ~Maintaining
    BY <1>1 DEF Maintaining
  <2> QED BY <1>1, <2>1, <2>2 DEF Turns
<1> HIDE DEF Init
<1> QED BY <1>2, <1>3, <1>4, <1>5, <1>6, <1>7, <1>8, <1>9, <1>10 DEF IInv

\* Every step keeps the invariant.
LEMMA NextStep ==
  ASSUME Serialised, ChainsApart, IInv, [Next]_vars
  PROVE  IInv'
<1>1. ASSUME NEW t \in Threads, LetGo(t) PROVE IInv'
  BY <1>1, StepDecRef, StepZeroRef, StepDestruct, StepUnref, StepRelease, StepDrop DEF LetGo
<1>2. ASSUME NEW w \in Workers, Work(w) PROVE IInv'
  BY <1>2, StepGet, StepLookup, StepBuild, StepPublish, StepDraw DEF Work
<1>3. CASE Maintain
  BY <1>3, StepCut, StepOrphan, StepEvict, StepEmpty, StepWalk DEF Maintain
<1>4. CASE Drive
  BY <1>4, StepStartFrame, StepEndFrame, StepFlush, StepRef, StepClose, StepFreeLibrary
     DEF Drive
<1>5. CASE ConsumerUnref
  BY <1>5, StepConsumerUnref
<1>6. CASE UNCHANGED vars
  BY <1>6, Stutters
<1> QED BY <1>1, <1>2, <1>3, <1>4, <1>5, <1>6 DEF Next

\* The invariant holds, if ass_frame_unref does not run while caches are cut or
\* emptied, and if no item is in the chain of another that its key refers to.
THEOREM Invariance ==
  ASSUME Serialised, ChainsApart
  PROVE  Spec => []IInv
<1>1. IInv /\ [Next]_vars => IInv'
  BY NextStep
<1> QED BY <1>1, InitIInv, PTL DEF Spec

-----------------------------------------------------------------------------
(* What the invariant says                                                 *)

\* Who has a reference to an item keeps it.
LEMMA HeldIsLive ==
  ASSUME IInv, NEW s \in Slots, item[s].ref_count # 0
  PROVE  Live(s)
BY Holders DEF IInv

\* A decrement that is still to be made is the next thing its thread does.
LEMMA DecsOnTop ==
  ASSUME TypeOK, Stacks, NEW t \in Threads, NEW i \in DOMAIN todo[t], todo[t][i].op = "dec"
  PROVE  t \in DecRefs(todo[t][i].x)
<1>1. ~Idle(t) /\ Rest(t) + 1 \in DOMAIN todo[t] /\ todo[t][Rest(t) + 1] = Last(todo[t])
      /\ DOMAIN todo[t] = 1 .. Rest(t) + 1 /\ Rest(t) \in Nat
  BY Top
<1>2. i = Rest(t) + 1
  <2>1. SUFFICES ASSUME i < Rest(t) + 1 PROVE FALSE
    BY <1>1
  <2>2. "dec" \in MayWait(todo[t][Rest(t) + 1].op)
    BY <1>1, <2>1 DEF Stacks
  <2> QED BY <2>2 DEF MayWait, Alone, Loops, Steps
<1> QED BY <1>1, <1>2 DEF DecRefs, Doing, Subject

\* Nothing that can still be followed leads to an item that has been freed.
THEOREM NothingDangles ==
  ASSUME Serialised, ChainsApart
  PROVE  Spec => []NoDanglingPointer
<1>1. ASSUME IInv PROVE NoDanglingPointer
  <2> USE <1>1
  <2>1. ASSUME NEW t \in Threads, NEW i \in DOMAIN todo[t], NEW o, o = todo[t][i],
               NEW s \in Touches(o)
        PROVE  Live(s)
    <3>1. o.op \in OnItems /\ o.x = s /\ s # None
      BY <2>1 DEF Touches
    <3>2. Ready(o) /\ s \in Slots
      BY <2>1, <3>1 DEF IInv, AllReady, Ready
    <3>3. CASE o.op = "dec"
      <4>1. t \in DecRefs(s)
        BY <2>1, <3>1, <3>3, DecsOnTop DEF IInv
      <4>2. item[s].ref_count # 0
        BY <3>2, <4>1, Holders DEF IInv
      <4> QED BY <3>2, <4>2, HeldIsLive
    <3>4. CASE o.op \in {"zero", "destruct", "publish"}
      BY <3>1, <3>2, <3>4 DEF Ready
    <3>5. CASE o.op \in {"orphan", "evict", "walk"}
      <4>1. Linked(s)
        BY <3>1, <3>2, <3>5 DEF Ready
      <4> QED BY <3>2, <4>1, ListElements DEF IInv
    <3> QED BY <3>1, <3>3, <3>4, <3>5 DEF OnItems
  <2>2. \A b \in Buckets : \A s \in ToSet(chain[b]) : Live(s)
    BY ListElements DEF IInv
  <2>3. \A c \in Caches : \A s \in ToSet(queue[c]) : Live(s)
    <3>1. \A c \in Caches : \A s \in ToSet(queue[c]) : InQueue(s) /\ s \in Slots
      BY ListElements DEF IInv
    <3> HIDE DEF InQueue, Linked, Live
    <3> QED BY <3>1, ListElements DEF IInv
  <2>4. ASSUME NEW s \in Slots, NEW d \in item[s].uses PROVE Live(d)
    <3>1. d \in Slots /\ s \in KeyRefs(d)
      BY <2>4, ItemTypes DEF IInv, KeyRefs
    <3>2. item[d].ref_count # 0
      BY <3>1, Holders DEF IInv
    <3> QED BY <3>1, <3>2, HeldIsLive
  <2>5. ASSUME NEW i \in images \cup UNION {frame[f].images : f \in Frames}
        PROVE  Live(i[2])
    <3>1. PICK s : s = i[2]
      OBVIOUS
    <3>2. CASE i \in images
      <4>1. s \in Slots /\ i \in ImageRefs(s)
        BY <3>1, <3>2 DEF IInv, TypeOK, Image, ImageRefs
      <4>2. item[s].ref_count # 0
        BY <4>1, Holders DEF IInv
      <4> QED BY <3>1, <4>1, <4>2, HeldIsLive
    <3>3. CASE i \notin images
      <4>1. PICK f \in Frames : i \in frame[f].images
        BY <2>5, <3>3
      <4>2. i \in Image
        BY <4>1 DEF IInv, TypeOK, List
      <4>3. s \in Slots
        BY <3>1, <4>2 DEF Image
      <4>4. PICK h : h = <<f, i>>
        OBVIOUS
      <4>5. h \in ListRefs(s)
        <5>1. h \in Frames \X Image /\ h[1] = f /\ h[2] = i
          BY <4>1, <4>2, <4>4
        <5> QED BY <3>1, <4>1, <5>1 DEF ListRefs
      <4>6. item[s].ref_count # 0
        BY <4>3, <4>5, Holders DEF IInv
      <4> QED BY <3>1, <4>3, <4>6, HeldIsLive
    <3> QED BY <3>2, <3>3
  <2>6. ASSUME NEW w \in Workers, NEW k \in Keys, got[w][k] # None PROVE Live(got[w][k])
    <3>1. PICK s : s = got[w][k]
      OBVIOUS
    <3>2. InQueue(s)
      BY <2>6, <3>1 DEF IInv, Gotten
    <3> HIDE DEF InQueue, Linked, Live
    <3>3. s \in Slots /\ Linked(s)
      BY <3>2, ListElements DEF IInv
    <3>4. Live(s)
      BY <3>3, ListElements DEF IInv
    <3> QED BY <3>1, <3>4
  <2>7. \A t \in Threads : \A i \in DOMAIN todo[t] : \A s \in Touches(todo[t][i]) : Live(s)
    BY <2>1
  <2> HIDE DEF Live
  <2> QED BY <2>2, <2>3, <2>4, <2>5, <2>6, <2>7 DEF NoDanglingPointer
<1>2. Spec => []IInv
  BY Invariance
<1> QED BY <1>1, <1>2, PTL

\* Of several keys, one is built on the longest chain of others.
LEMMA Tallest ==
  ASSUME NEW n \in Nat, NEW height \in [Keys -> 0 .. n], NEW T, T \subseteq Keys, T # {}
  PROVE  \E k \in T : \A l \in T : height[l] <= height[k]
<1> DEFINE R == {ss \in Nat \X Nat : ss[1] < ss[2]}
           D == {n - height[k] : k \in T}
<1>1. IsWellFoundedOn(R, Nat)
  BY NatLessThanWellFounded, Zenon DEF OpToRel
<1>2. \A x, y \in Nat : <<y, x>> \notin R => x <= y
  OBVIOUS
<1>3. D \subseteq Nat /\ D # {}
  <2> HIDE DEF R
  <2>1. \A k \in T : height[k] \in 0 .. n
    OBVIOUS
  <2>2. \A k \in T : n - height[k] \in Nat
    BY <2>1
  <2>3. PICK k \in T : TRUE
    OBVIOUS
  <2>4. n - height[k] \in D
    OBVIOUS
  <2> QED BY <2>2, <2>4
<1> HIDE DEF R
<1>4. PICK t \in D : \A u \in D : ~ (<<u, t>> \in R)
  <2> HIDE DEF D
  <2> QED BY <1>1, <1>3, WFMin
<1>5. \A u \in D : t <= u
  <2> HIDE DEF D
  <2> QED BY <1>2, <1>3, <1>4
<1>6. PICK k \in T : t = n - height[k]
  BY <1>4 DEF D
<1>7. ASSUME NEW l \in T PROVE height[l] <= height[k]
  <2>1. n - height[k] <= n - height[l]
    BY <1>5, <1>6
  <2>2. height[k] \in Int /\ height[l] \in Int
    OBVIOUS
  <2> HIDE DEF D
  <2> QED BY <2>1, <2>2
<1> QED BY <1>7

\* An item that is referred to has somebody who refers to it.
LEMMA SomeHolder ==
  ASSUME Counted, NEW s \in Slots, item[s].ref_count # 0
  PROVE  \/ InQueue(s) \/ ImageRefs(s) # {} \/ ListRefs(s) # {}
         \/ KeyRefs(s) # {} \/ DecRefs(s) # {}
<1> SUFFICES ASSUME ~InQueue(s), ImageRefs(s) = {}, ListRefs(s) = {},
                    KeyRefs(s) = {}, DecRefs(s) = {}
             PROVE  FALSE
  OBVIOUS
<1>1. Refs(s) = 0 + Cardinality({}) + Cardinality({}) + Cardinality({}) + Cardinality({})
  BY DEF Refs
<1>2. Cardinality({}) = 0
  BY FS_EmptySet
<1>3. item[s].ref_count = Refs(s)
  BY DEF Counted
<1> HIDE DEF Refs
<1> QED BY <1>1, <1>2, <1>3

\* In the end nobody but another item refers to an item.
LEMMA OnlyKeys ==
  ASSUME IInv, phase = "gone", \A f \in Frames : held[f] = 0,
         \A t \in Threads : Idle(t), NEW s \in Slots, Live(s)
  PROVE  \E p \in Slots : Live(p) /\ s \in item[p].uses
<1>1. ~Linked(s) /\ ~InQueue(s)
  <2>1. ~Linked(s)
    BY DEF IInv, Turns
  <2> HIDE DEF Linked, InQueue, Live
  <2> QED BY <2>1, ListElements DEF IInv
<1>2. \A t \in Threads : DOMAIN todo[t] = {}
  BY DEF Idle
<1>3. ~InHand(s) /\ DecRefs(s) = {}
  BY <1>2 DEF InHand, InCustody, DecRefs, Doing
<1>4. images = {} /\ images_root = None /\ prev_images_root = None
  BY DEF IInv, Turns
<1>5. \A f \in Frames : frame[f].images = {}
  <2>1. Driver \in Threads /\ Consumer \in Threads
    BY DEF Threads
  <2>2. Unrefs(Driver) = {} /\ Unrefs(Consumer) = {} /\ Releases(Driver) = {}
        /\ Releases(Consumer) = {}
    BY <2>1, NoUnrefs
  <2>3. ASSUME NEW f \in Frames PROVE frame[f].images = {}
    <3>1. images_root # f /\ prev_images_root # f
      BY <1>4, BoundsAssumption
    <3>2. Books(Driver, Consumer, f)
      BY DEF IInv, ListsCounted
    <3>3. /\ One(images_root = f) = 0 /\ One(prev_images_root = f) = 0
          /\ One(f \in Unrefs(Driver)) = 0 /\ One(f \in Unrefs(Consumer)) = 0
      BY <2>2, <3>1 DEF One
    <3>4. frame[f].refs = 0
      <4> HIDE DEF One, IInv, Live
      <4> QED BY <3>2, <3>3 DEF Books
    <3> QED BY <2>2, <3>2, <3>4 DEF Books
  <2> QED BY <2>3
<1>6. ImageRefs(s) = {} /\ ListRefs(s) = {}
  BY <1>4, <1>5 DEF ImageRefs, ListRefs
<1>7. item[s].ref_count # 0
  BY <1>1, <1>3 DEF IInv, AllPlaced, Placed
<1>8. KeyRefs(s) # {}
  BY <1>1, <1>3, <1>6, <1>7, SomeHolder DEF IInv
<1>9. PICK p \in Slots : s \in item[p].uses
  BY <1>8 DEF KeyRefs
<1>10. Live(p)
  BY <1>9 DEF IInv, AllPlaced, Placed, Unallocated
<1> QED BY <1>9, <1>10

\* Nothing is left behind.
LEMMA Leakproof ==
  ASSUME IInv
  PROVE  NoLeak
<1> SUFFICES ASSUME phase = "gone", \A f \in Frames : held[f] = 0,
                    \A t \in Threads : Idle(t), NEW r \in Slots, Live(r)
             PROVE  FALSE
  BY DEF NoLeak
<1> DEFINE alive == {s \in Slots : Live(s)}
           T == {item[s].key : s \in alive}
<1>1. PICK height \in [Keys -> 0 .. Cardinality(Keys)] :
        \A k \in Keys : \A d \in Uses[k] : height[d] < height[k]
  BY KeysAssumption
<1>2. Cardinality(Keys) \in Nat
  BY KeysAssumption, FS_CardinalityType
<1>3. \A s \in alive : item[s].key \in Keys
  BY DEF IInv, AllPlaced, Placed
<1>4. T \subseteq Keys /\ T # {}
  BY <1>3
<1>5. PICK k \in T : \A l \in T : height[l] <= height[k]
  <2> HIDE DEF T
  <2> QED BY <1>2, <1>4, Tallest
<1>6. PICK s \in alive : k = item[s].key
  OBVIOUS
<1>7. PICK p \in Slots : Live(p) /\ s \in item[p].uses
  BY OnlyKeys
<1>8. k \in Uses[item[p].key]
  BY <1>6, <1>7 DEF IInv, AllPlaced, Placed
<1>9. item[p].key \in T
  BY <1>7
<1> HIDE DEF T, alive, Live
<1>10. height[k] < height[item[p].key] /\ height[item[p].key] <= height[k]
  BY <1>1, <1>4, <1>5, <1>8, <1>9
<1>11. height[k] \in Int /\ height[item[p].key] \in Int
  BY <1>1, <1>2, <1>4, <1>9
<1> QED BY <1>10, <1>11

\* An item's count is the number of those who refer to it, and when the
\* renderer is gone and the last list has been released nothing is left
\* behind (ass_cache_inc_ref, ass_cache_dec_ref, destroy_item).
THEOREM ReferencesAccounted ==
  ASSUME Serialised, ChainsApart
  PROVE  Spec => []RefsAccounted
<1>1. IInv => RefsAccounted
  BY Leakproof DEF IInv, Counted, RefsAccounted
<1>2. Spec => []IInv
  BY Invariance
<1> QED BY <1>1, <1>2, PTL

\* A list without repetitions is as long as the set of its elements is large.
LEMMA DistinctLength ==
  ASSUME NEW S, NEW q \in Seq(S), IsInjective(q)
  PROVE  Cardinality(ToSet(q)) = Len(q)
<1> DEFINE n == Len(q)
<1>1. n \in Nat /\ DOMAIN q = 1 .. n /\ q \in [1 .. n -> S]
  BY LenProperties
<1>2. q \in Bijection(1 .. n, ToSet(q))
  <2>1. q \in [1 .. n -> ToSet(q)]
    BY <1>1 DEF ToSet
  <2>2. \A i, j \in 1 .. n : q[i] = q[j] => i = j
    BY <1>1 DEF IsInjective
  <2>3. \A s \in ToSet(q) : \E i \in 1 .. n : q[i] = s
    BY <1>1 DEF ToSet
  <2> HIDE DEF n
  <2> QED BY <2>1, <2>2, <2>3 DEF Bijection, Injection, Surjection
<1>3. ExistsBijection(1 .. n, ToSet(q))
  BY <1>2 DEF ExistsBijection
<1> QED BY <1>1, <1>3, FS_CountingElements

\* No key is in the cache twice; when nobody is emptying it, the size of a
\* cache is the number of its linked items, and its queue has linked items
\* only, each once (ass_cache_get, ass_cache_cut, ass_cache_empty).
THEOREM BooksBalance ==
  ASSUME Serialised, ChainsApart
  PROVE  Spec => []ShardsBalance
<1>1. ASSUME IInv PROVE ShardsBalance
  <2> USE <1>1
  <2>1. UniqueKeys
    <3>1. \A b \in Buckets : \A s \in ToSet(chain[b]) : Linked(s) /\ s \in Slots
      <4> HIDE DEF Linked
      <4> QED BY ListElements DEF IInv
    <3> HIDE DEF Linked
    <3> QED BY <3>1 DEF IInv, Distinct, UniqueKeys
  <2>2. ASSUME NEW c \in Caches, ~Pending(Driver, "empty", c)
        PROVE  cache_size[c] = Cardinality({s \in Slots : Linked(s) /\ HomeOf(s) = c})
    BY <2>2 DEF IInv, Sizes, LinkedIn
  <2>3. ASSUME NEW c \in Caches
        PROVE  /\ \A s \in ToSet(queue[c]) : Linked(s) /\ HomeOf(s) = c
               /\ Cardinality(ToSet(queue[c])) = Len(queue[c])
    <3>1. \A s \in ToSet(queue[c]) : Linked(s) /\ HomeOf(s) = c
      <4> HIDE DEF Linked, InQueue, HomeOf
      <4> QED BY ListElements DEF IInv
    <3>2. queue[c] \in Seq(Slots) /\ IsInjective(queue[c])
      BY DEF IInv, TypeOK, Lists
    <3> QED BY <3>1, <3>2, DistinctLength
  <2> HIDE DEF Linked, Pending, HomeOf
  <2> QED BY <2>1, <2>2, <2>3 DEF ShardsBalance
<1>2. Spec => []IInv
  BY Invariance
<1> QED BY <1>1, <1>2, PTL

\* An item keeps its key and what the key refers to, and is not freed.
Stands(s) == /\ item'[s].live = item[s].live
             /\ item'[s].key = item[s].key
             /\ item'[s].uses = item[s].uses

\* An item whose count alone changes.
LEMMA RecountStands ==
  ASSUME TypeOK, NEW s \in Slots, NEW n \in Int,
         item'[s] = [item[s] EXCEPT !.ref_count = n] \/ item'[s] = item[s]
  PROVE  Stands(s)
<1> PICK i \in Item : i = item[s]
  BY ItemTypes
<1> PICK j : j = [i EXCEPT !.ref_count = n]
  OBVIOUS
<1>1. j.key = i.key /\ j.uses = i.uses /\ j.live = i.live
  BY Recounted
<1>2. item'[s] = j \/ item'[s] = i
  OBVIOUS
<1> QED BY <1>1, <1>2 DEF Stands

\* More references, or one less, or none at all: the item is still the same.
LEMMA CountsOnly ==
  ASSUME TypeOK, NEW s \in Slots, NEW S, NEW r
  PROVE  /\ item' = item => Stands(s)
         /\ item' = Inc(S, item) => Stands(s)
         /\ item' = Dec(r, item) => Stands(s)
         /\ \A n \in Int : item' = [item EXCEPT ![r].ref_count = n] => Stands(s)
         /\ \A n \in Int, b \in BOOLEAN :
              item' = [item EXCEPT ![r].ref_count = n, ![r].shard = b] => Stands(s)
<1>1. item \in [Slots -> Item] /\ item[s] \in Item /\ item[s].ref_count \in Int
  BY ItemTypes DEF TypeOK
<1>2. item' = item => Stands(s)
  BY DEF Stands
<1>3. ASSUME item' = Inc(S, item) PROVE Stands(s)
  <2>1. item'[s] = IF s \in S THEN [item[s] EXCEPT !.ref_count = @ + 1] ELSE item[s]
    BY <1>3 DEF Inc
  <2>2. PICK n \in Int : n = item[s].ref_count + 1
    BY <1>1
  <2>3. item'[s] = [item[s] EXCEPT !.ref_count = n] \/ item'[s] = item[s]
    BY <2>1, <2>2
  <2> QED BY <2>3, RecountStands
<1>4. ASSUME item' = Dec(r, item) PROVE Stands(s)
  <2>1. item'[s] = IF s = r THEN [item[s] EXCEPT !.ref_count = @ - 1] ELSE item[s]
    BY <1>1, <1>4 DEF Dec
  <2>2. PICK n \in Int : n = item[s].ref_count - 1
    BY <1>1
  <2>3. item'[s] = [item[s] EXCEPT !.ref_count = n] \/ item'[s] = item[s]
    BY <2>1, <2>2
  <2> QED BY <2>3, RecountStands
<1>5. ASSUME NEW n \in Int, item' = [item EXCEPT ![r].ref_count = n] PROVE Stands(s)
  <2>1. item'[s] = [item[s] EXCEPT !.ref_count = n] \/ item'[s] = item[s]
    BY <1>1, <1>5
  <2> QED BY <2>1, RecountStands
<1>6. ASSUME NEW n \in Int, NEW b \in BOOLEAN,
             item' = [item EXCEPT ![r].ref_count = n, ![r].shard = b]
      PROVE  Stands(s)
  <2>1. PICK i : i = [item[s] EXCEPT !.ref_count = n]
    OBVIOUS
  <2>2. item'[s] = [i EXCEPT !.shard = b] \/ item'[s] = item[s]
    BY <1>1, <1>6, <2>1
  <2>3. i \in Item /\ i.live = item[s].live /\ i.key = item[s].key /\ i.uses = item[s].uses
    BY <1>1, <2>1, Recounted
  <2>4. PICK j : j = [i EXCEPT !.shard = b]
    OBVIOUS
  <2>5. j.live = i.live /\ j.key = i.key /\ j.uses = i.uses
    BY <2>3, <2>4 DEF Item
  <2> QED BY <2>2, <2>3, <2>4, <2>5 DEF Stands
<1> QED BY <1>2, <1>3, <1>4, <1>5, <1>6

\* What promotes an item only counts.
LEMMA PromotedStands ==
  ASSUME TypeOK, NEW s \in Slots, NEW e, Promote(e, item)
  PROVE  Stands(s)
BY CountsOnly DEF Promote

\* What somebody refers to is not what is being destroyed.
LEMMA DestructStands ==
  ASSUME IInv, NEW s \in Slots, item[s].ref_count # 0, NEW t \in Threads, Destruct(t)
  PROVE  Stands(s)
<1> PICK r : r = Subject(t)
  OBVIOUS
<1>1. Lost(r)
  <2>1. Rest(t) + 1 \in DOMAIN todo[t] /\ todo[t][Rest(t) + 1] = Last(todo[t])
    BY Top DEF IInv, Destruct, Doing
  <2>2. Last(todo[t]).op = "destruct" /\ Last(todo[t]).x = r
    BY DEF Destruct, Doing, Subject
  <2>3. Ready(Last(todo[t]))
    BY <2>1 DEF IInv, AllReady
  <2> HIDE DEF Lost
  <2> QED BY <2>2, <2>3 DEF Ready
<1>2. r # s
  BY <1>1 DEF Lost
<1>3. \/ \E d \in item[r].uses : item' = [item EXCEPT ![r].uses = @ \ {d}]
      \/ item' = [item EXCEPT ![r] = Unallocated]
  BY DEF Destruct
<1>4. item'[s] = item[s]
  BY <1>2, <1>3 DEF IInv, TypeOK
<1> QED BY <1>4 DEF Stands

\* A new item gets a slot that nobody refers to.
LEMMA BuildStands ==
  ASSUME IInv, NEW s \in Slots, item[s].ref_count # 0, NEW w \in Workers, Build(w)
  PROVE  Stands(s)
<1>1. Live(s)
  BY HeldIsLive
<1> PICK k, deps : k = Subject(w) /\ deps = Deps(w, k)
  OBVIOUS
<1>2. CASE item' = item
  BY <1>2, CountsOnly DEF IInv
<1>3. ASSUME NEW r \in Slots, ~item[r].live,
             item' = [Inc(deps, item) EXCEPT ![r] =
                  [live |-> TRUE, key |-> k, uses |-> deps, ref_count |-> 0,
                   shard |-> TRUE]]
      PROVE  Stands(s)
  <2>1. r # s
    BY <1>1, <1>3 DEF Live
  <2>2. item'[s] = Inc(deps, item)[s]
    BY <1>3, <2>1 DEF Inc
  <2>3. item'[s] = IF s \in deps THEN [item[s] EXCEPT !.ref_count = @ + 1] ELSE item[s]
    BY <2>2 DEF Inc
  <2>4. item[s] \in Item
    BY ItemTypes DEF IInv
  <2>5. PICK n \in Int : n = item[s].ref_count + 1
    BY <2>4 DEF Item
  <2>6. item'[s] = [item[s] EXCEPT !.ref_count = n] \/ item'[s] = item[s]
    BY <2>3, <2>5
  <2>7. TypeOK
    BY DEF IInv
  <2> QED BY <2>6, <2>7, RecountStands
<1>4. \/ item' = item
      \/ \E r \in Slots : ~item[r].live /\ item' = [Inc(deps, item) EXCEPT ![r] =
           [live |-> TRUE, key |-> k, uses |-> deps, ref_count |-> 0, shard |-> TRUE]]
  BY DEF Build
<1> QED BY <1>2, <1>3, <1>4

\* The loops of the driver detach items, or only count.
LEMMA MaintainStands ==
  ASSUME IInv, NEW s \in Slots, Maintain
  PROVE  Stands(s)
<1> USE DEF IInv
<1>1. CASE Cut(Driver)
  <2>1. item' = item \/ \E r : item' = Dec(r, item)
    BY <1>1 DEF Cut
  <2> QED BY <2>1, CountsOnly
<1>2. CASE Orphan(Driver) \/ Evict(Driver) \/ Empty(Driver)
  <2>1. item' = item
    BY <1>2 DEF Orphan, Evict, Empty, caches
  <2> QED BY <2>1, CountsOnly
<1>3. CASE Walk(Driver)
  <2> PICK r : r = Subject(Driver)
    OBVIOUS
  <2>1. CASE r = None
    <3>1. item' = item
      BY <1>3, <2>1 DEF Walk
    <3> QED BY <3>1, CountsOnly
  <2>2. CASE r # None
    <3> PICK n : n = item[r].ref_count - (IF InQueue(r) THEN 1 ELSE 0)
      OBVIOUS
    <3>1. item' = [item EXCEPT ![r].ref_count = n, ![r].shard = (n = 0)]
      BY <1>3, <2>2 DEF Walk
    <3>2. CASE r \in Slots
      <4>1. n \in Int
        BY <3>2, ItemTypes
      <4> QED BY <3>1, <4>1, CountsOnly
    <3>3. CASE r \notin Slots
      BY <3>1, <3>3 DEF TypeOK, Stands
    <3> QED BY <3>2, <3>3
  <2> QED BY <2>1, <2>2
<1> QED BY <1>1, <1>2, <1>3 DEF Maintain

\* An item somebody refers to stays what it is, whatever is done.
LEMMA HeldStands ==
  ASSUME IInv, [Next]_vars, NEW s \in Slots, item[s].ref_count # 0
  PROVE  Stands(s)
<1>1. TypeOK
  BY DEF IInv
<1>2. ASSUME NEW t \in Threads, LetGo(t) PROVE Stands(s)
  <2>1. CASE Destruct(t)
    BY <2>1, DestructStands
  <2>2. CASE DecRef(t)
    BY <1>1, <2>2, CountsOnly DEF DecRef
  <2>3. CASE ZeroRef(t) \/ Unref(t) \/ Release(t) \/ Drop(t)
    <3>1. item' = item
      BY <2>3 DEF ZeroRef, Unref, Release, Drop, caches
    <3> QED BY <1>1, <3>1, CountsOnly
  <2> QED BY <1>2, <2>1, <2>2, <2>3 DEF LetGo
<1>3. ASSUME NEW w \in Workers, Work(w) PROVE Stands(s)
  <2>1. CASE Build(w)
    BY <2>1, BuildStands
  <2>2. CASE Get(w)
    BY <1>1, <2>2, CountsOnly DEF Get, caches
  <2>3. CASE Lookup(w)
    <3>1. item' = item \/ \E e : Promote(e, item)
      BY <2>3 DEF Lookup
    <3> QED BY <1>1, <3>1, CountsOnly, PromotedStands
  <2>4. CASE Publish(w)
    <3>1. \/ \E e : Promote(e, item)
          \/ item' = [item EXCEPT ![Subject(w)].ref_count = 1]
      BY <2>4 DEF Publish
    <3>2. 1 \in Int
      OBVIOUS
    <3> QED BY <1>1, <3>1, <3>2, CountsOnly, PromotedStands
  <2>5. CASE Draw(w)
    <3>1. \E r : item' = Inc({r}, item)
      BY <2>5 DEF Draw
    <3> QED BY <1>1, <3>1, CountsOnly
  <2> QED BY <1>3, <2>1, <2>2, <2>3, <2>4, <2>5 DEF Work
<1>4. CASE Maintain
  BY <1>4, MaintainStands
<1>5. CASE Drive \/ ConsumerUnref \/ UNCHANGED vars
  <2>1. item' = item
    BY <1>5 DEF Drive, StartFrame, EndFrame, Flush, Ref, Close, FreeLibrary,
                ConsumerUnref, vars, caches
  <2> QED BY <1>1, <2>1, CountsOnly
<1> QED BY <1>2, <1>3, <1>4, <1>5 DEF Next

\* What is pinned is referred to.
LEMMA PinnedHeld ==
  ASSUME IInv, NEW s \in Pinned
  PROVE  s \in Slots /\ item[s].ref_count # 0
<1> DEFINE direct == {i[2] : i \in UNION {frame[f].images :
                        f \in {g \in Frames : frame[g].refs > 0}}}
<1>1. ASSUME NEW r \in direct PROVE r \in Slots /\ item[r].ref_count # 0
  <2>1. PICK f \in Frames : \E i \in frame[f].images : r = i[2]
    OBVIOUS
  <2>2. PICK i \in frame[f].images : r = i[2]
    BY <2>1
  <2>3. i \in Image
    BY <2>2 DEF IInv, TypeOK, List
  <2>4. r \in Slots
    BY <2>2, <2>3 DEF Image
  <2>5. PICK h : h = <<f, i>>
    OBVIOUS
  <2>6. h \in Frames \X Image /\ h[1] = f /\ h[2] = i
    BY <2>2, <2>3, <2>5
  <2>7. h \in ListRefs(r)
    BY <2>2, <2>6 DEF ListRefs
  <2>8. ListRefs(r) # {}
    BY <2>7
  <2> QED BY <2>4, <2>8, Holders DEF IInv
<1>2. ASSUME NEW r \in direct, NEW d \in item[r].uses
      PROVE  d \in Slots /\ item[d].ref_count # 0
  <2> HIDE DEF direct
  <2>1. r \in Slots
    BY <1>1
  <2>2. d \in Slots /\ r \in KeyRefs(d)
    BY <1>2, <2>1, ItemTypes DEF IInv, KeyRefs
  <2>3. KeyRefs(d) # {}
    BY <2>2
  <2> QED BY <2>2, <2>3, Holders DEF IInv
<1>3. Pinned = direct \cup UNION {item[r].uses : r \in direct}
  BY DEF Pinned
<1> HIDE DEF direct
<1>4. s \in direct \/ \E r \in direct : s \in item[r].uses
  BY <1>3
<1> QED BY <1>1, <1>2, <1>4

\* While a list is referred to, the sources of its images, and what their keys
\* refer to, are neither freed nor reused nor changed (ass_frame_ref,
\* ass_frame_unref).
THEOREM ListsDoNotChange ==
  ASSUME Serialised, ChainsApart
  PROVE  Spec => PinnedUnchanged
<1>1. ASSUME IInv, [Next]_vars
      PROVE  [\A s \in Pinned : /\ item'[s].live
                                /\ item'[s].key = item[s].key
                                /\ item'[s].uses = item[s].uses]_vars
  <2>1. ASSUME NEW s \in Pinned
        PROVE  item'[s].live /\ item'[s].key = item[s].key /\ item'[s].uses = item[s].uses
    <3>1. s \in Slots /\ item[s].ref_count # 0
      BY <1>1, PinnedHeld
    <3>2. Live(s) /\ Stands(s)
      BY <1>1, <3>1, HeldIsLive, HeldStands
    <3> QED BY <3>2 DEF Live, Stands
  <2> QED BY <2>1
<1>2. Spec => []IInv
  BY Invariance
<1> QED BY <1>1, <1>2, PTL DEF Spec, PinnedUnchanged
===============================================================================
