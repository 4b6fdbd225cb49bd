---------------------------- MODULE DbPoolProofs ----------------------------
(***************************************************************************)
(* Proofs about the connection pools for any number of requests and any    *)
(* sizes of the pools: nothing is leaked (NoLeak), a process that is asked *)
(* to stop has every connection back before it does (StopsEmptyHanded),    *)
(* and with two writer connections or more, whoever waits for one waits    *)
(* for a task that can finish (SomebodyCanFinish).                         *)
(*                                                                         *)
(* Every action does one of four things to the pools: it queues a task,    *)
(* serves the head of a queue, takes a task out of a queue, or gives a     *)
(* connection back.  A lemma for each says who has something with a pool   *)
(* afterwards; what remains for an action is that those are entitled.      *)
(***************************************************************************)
EXTENDS DbPool, FiniteSetTheorems, SequenceTheorems, TLAPS

(* Sequences without repetition. *)

Once(s) == \A i, j \in DOMAIN s : s[i] = s[j] => i = j

(* What a longer queue holds. *)
LEMMA Appended ==
    ASSUME NEW S, NEW s \in Seq(S), NEW e \in S, Once(s), e \notin Range(s)
    PROVE  /\ Append(s, e) \in Seq(S)
           /\ Once(Append(s, e))
           /\ Range(Append(s, e)) = Range(s) \cup {e}
<1> DEFINE t == Append(s, e)
<1>1. /\ t \in Seq(S) /\ DOMAIN t = 1..(Len(s) + 1) /\ DOMAIN s = 1..Len(s) /\ Len(s) \in Nat
      /\ \A i \in 1..Len(s) : t[i] = s[i]
      /\ t[Len(s) + 1] = e
  OBVIOUS
<1>2. \A i \in 1..Len(s) : s[i] # e BY <1>1 DEF Range
<1>3. Once(t) BY <1>1, <1>2 DEF Once
<1>4. Range(t) = Range(s) \cup {e} BY <1>1 DEF Range
<1>5. QED BY <1>1, <1>3, <1>4

(* What is left of a queue behind its head. *)
LEMMA Beheaded ==
    ASSUME NEW S, NEW s \in Seq(S), Once(s), s # <<>>
    PROVE  /\ Tail(s) \in Seq(S)
           /\ Once(Tail(s))
           /\ Head(s) \in Range(s)
           /\ Range(Tail(s)) = Range(s) \ {Head(s)}
<1> DEFINE t == Tail(s)
<1>1. /\ t \in Seq(S) /\ Len(s) \in Nat /\ Len(s) > 0 /\ DOMAIN s = 1..Len(s)
      /\ DOMAIN t = 1..(Len(s) - 1) /\ Head(s) = s[1]
      /\ \A i \in 1..(Len(s) - 1) : t[i] = s[i + 1]
  OBVIOUS
<1>2. Once(t) BY <1>1 DEF Once
<1>3. Head(s) \in Range(s) BY <1>1 DEF Range
<1>4. ASSUME NEW x PROVE x \in Range(t) <=> x \in Range(s) \ {Head(s)}
  <2>1. ASSUME x \in Range(t) PROVE x \in Range(s) \ {Head(s)}
    <3>1. PICK i \in 1..(Len(s) - 1) : x = t[i] BY <1>1, <2>1 DEF Range
    <3>2. i + 1 \in 1..Len(s) /\ x = s[i + 1] /\ i + 1 # 1 BY <1>1, <3>1
    <3>3. x # s[1] BY <1>1, <3>2 DEF Once
    <3>4. QED BY <1>1, <3>2, <3>3 DEF Range
  <2>2. ASSUME x \in Range(s), x # Head(s) PROVE x \in Range(t)
    <3>1. PICK i \in 1..Len(s) : x = s[i] BY <1>1, <2>2 DEF Range
    <3>2. i # 1 BY <1>1, <2>2, <3>1
    <3>3. i - 1 \in 1..(Len(s) - 1) /\ t[i - 1] = x BY <1>1, <3>1, <3>2
    <3>4. QED BY <1>1, <3>3 DEF Range
  <2>3. QED BY <2>1, <2>2
<1>5. QED BY <1>1, <1>2, <1>3, <1>4

(* What is left of a queue that one has left. *)
LEMMA Removed ==
    ASSUME NEW S, NEW s \in Seq(S), Once(s), NEW k \in DOMAIN s
    PROVE  /\ RemoveAt(s, k) \in Seq(S)
           /\ Once(RemoveAt(s, k))
           /\ Range(RemoveAt(s, k)) = Range(s) \ {s[k]}
<1> DEFINE t == RemoveAt(s, k)
<1>0. Len(s) \in Nat /\ DOMAIN s = 1..Len(s) /\ k \in 1..Len(s) OBVIOUS
<1>1. /\ t \in Seq(S) /\ Len(t) = Len(s) - 1
      /\ \A i \in 1..(Len(s) - 1) : t[i] = IF i < k THEN s[i] ELSE s[i + 1]
  <2> DEFINE a == SubSeq(s, 1, k - 1)
             b == SubSeq(s, k + 1, Len(s))
  <2>1. a \in Seq(S) /\ Len(a) = k - 1 /\ \A i \in 1..(k - 1) : a[i] = s[i] BY <1>0
  <2>2. b \in Seq(S) /\ Len(b) = Len(s) - k /\ \A i \in 1..(Len(s) - k) : b[i] = s[k + i] BY <1>0
  <2> HIDE DEF a, b
  <2>3. a \o b \in Seq(S) /\ Len(a \o b) = Len(s) - 1
    <3>1. a \o b \in Seq(S) BY <2>1, <2>2
    <3>2. Len(a \o b) = Len(a) + Len(b) BY <2>1, <2>2, ConcatProperties
    <3>3. (k - 1) + (Len(s) - k) = Len(s) - 1 BY <1>0
    <3>4. QED BY <2>1, <2>2, <3>1, <3>2, <3>3
  <2>4. \A i \in 1..(Len(s) - 1) : (a \o b)[i] = IF i <= k - 1 THEN a[i] ELSE b[i - (k - 1)]
    BY <1>0, <2>1, <2>2
  <2>5. ASSUME NEW i \in 1..(Len(s) - 1) PROVE (a \o b)[i] = IF i < k THEN s[i] ELSE s[i + 1]
    <3>1. CASE i < k BY <1>0, <2>1, <2>4, <3>1
    <3>2. CASE ~ (i < k)
      <4>1. i - (k - 1) \in 1..(Len(s) - k) /\ k + (i - (k - 1)) = i + 1 BY <1>0, <3>2
      <4>2. b[i - (k - 1)] = s[i + 1] BY <2>2, <4>1
      <4>3. ~ (i <= k - 1) BY <1>0, <3>2
      <4>4. (a \o b)[i] = b[i - (k - 1)] BY <2>4, <4>3
      <4>5. QED BY <3>2, <4>2, <4>4
    <3>3. QED BY <3>1, <3>2
  <2>6. t = a \o b BY DEF RemoveAt, a, b
  <2>7. QED BY <2>3, <2>5, <2>6
<1> HIDE DEF t
<1>2. DOMAIN t = 1..(Len(s) - 1) BY <1>0, <1>1
<1>3. ASSUME NEW i \in 1..(Len(s) - 1), NEW j \in 1..(Len(s) - 1), t[i] = t[j] PROVE i = j
  <2> DEFINE g(x) == IF x < k THEN x ELSE x + 1
  <2>1. i \in Int /\ j \in Int /\ k \in Int BY <1>0
  <2>2. g(i) \in DOMAIN s /\ g(j) \in DOMAIN s BY <1>0
  <2>3. s[g(i)] = s[g(j)] BY <1>1, <1>3
  <2>4. g(i) = g(j)
    <3> HIDE DEF g
    <3>1. QED BY <2>2, <2>3 DEF Once
  <2>5. QED BY <2>1, <2>4
<1>3a. Once(t) BY <1>2, <1>3 DEF Once
<1>4. ASSUME NEW x PROVE x \in Range(t) <=> x \in Range(s) \ {s[k]}
  <2>1. ASSUME x \in Range(t) PROVE x \in Range(s) \ {s[k]}
    <3>1. PICK i \in 1..(Len(s) - 1) : x = t[i] BY <1>2, <2>1 DEF Range
    <3>2. PICK j \in 1..Len(s) : x = s[j] /\ j # k BY <1>0, <1>1, <3>1
    <3>3. QED BY <1>0, <3>2 DEF Range, Once
  <2>2. ASSUME x \in Range(s), x # s[k] PROVE x \in Range(t)
    <3>1. PICK j \in 1..Len(s) : x = s[j] /\ j # k BY <1>0, <2>2 DEF Range
    <3>2. CASE j < k
      <4>1. j \in 1..(Len(s) - 1) /\ t[j] = x BY <1>0, <1>1, <3>1, <3>2
      <4>2. QED BY <1>2, <4>1 DEF Range
    <3>3. CASE j > k
      <4>1. j - 1 \in 1..(Len(s) - 1) /\ ~ (j - 1 < k) BY <1>0, <3>3
      <4>2. t[j - 1] = x BY <1>0, <1>1, <3>1, <4>1
      <4>3. QED BY <1>2, <4>1, <4>2 DEF Range
    <3>4. QED BY <1>0, <3>1, <3>2, <3>3
  <2>3. QED BY <2>1, <2>2
<1>5. QED BY <1>1, <1>3a, <1>4 DEF t

-----------------------------------------------------------------------------
(* What a step may do to the pools. *)

With(p) == used[p] \cup Range(queue[p])

Pools ==
    /\ used \in [Pool -> SUBSET Task]
    /\ queue \in [Pool -> Seq(Task)]
    /\ \A p \in Pool :
        /\ used[p] \cap Range(queue[p]) = {}
        /\ Once(queue[p])
        /\ Cardinality(used[p]) <= Size[p]

(* The tasks of a process can be counted. *)
LEMMA TasksCount ==
    ASSUME NEW S \in SUBSET Task
    PROVE  IsFiniteSet(S) /\ Cardinality(S) \in Nat
<1>1. IsFiniteSet(Request) BY DbPoolAssumption
<1>2. Task = ((Request \cup {"main"}) \cup {"leader"}) \cup {"publisher"} BY DEF Task
<1>3. IsFiniteSet(Task)
  <2>1. IsFiniteSet(Request \cup {"main"}) BY <1>1, FS_AddElement
  <2>2. IsFiniteSet((Request \cup {"main"}) \cup {"leader"}) BY <2>1, FS_AddElement
  <2>3. IsFiniteSet(((Request \cup {"main"}) \cup {"leader"}) \cup {"publisher"}) BY <2>2, FS_AddElement
  <2>4. QED BY <1>2, <2>3
<1>4. QED BY <1>3, FS_Subset, FS_CardinalityType

(* A size is a positive number. *)
LEMMA Sizes == \A p \in Pool : Size[p] \in Nat \ {0}
BY DbPoolAssumption DEF Size, Pool

(* NoLeak says the same in two parts. *)
LEMMA LeakParts ==
    ASSUME TypeOK
    PROVE  NoLeak <=> Pools /\ \A p \in Pool : \A t \in With(p) : Entitled(t, p)
BY DEF NoLeak, Pools, With, Once, TypeOK

LEMMA InvParts ==
    ASSUME PoolInv
    PROVE  Pools /\ \A p \in Pool : \A t \in With(p) : Entitled(t, p)
BY LeakParts DEF PoolInv

(* What an action has to show. *)
LEMMA Assemble ==
    ASSUME Pools',
           replica' \in BOOLEAN, main' \in Main, todo' \in [Request -> Seq(Pool)],
           pub' \in Pub, batch' \in 0..MaxBatch, token' \in BOOLEAN,
           \A p \in Pool : \A t \in With(p)' : Entitled(t, p)',
           PublisherKeeps', InOrder'
    PROVE  PoolInv'
<1>1. TypeOK' BY DEF TypeOK, Pools
<1>2. NoLeak' BY DEF NoLeak, Pools, With, Once
<1>3. QED BY <1>1, <1>2 DEF PoolInv

(* Nobody takes more of the pools than before. *)
LEMMA FewerEffect ==
    ASSUME Pools,
           used' \in [Pool -> SUBSET Task], queue' \in [Pool -> Seq(Task)],
           \A p \in Pool : /\ used'[p] \subseteq used[p]
                           /\ Range(queue'[p]) \subseteq Range(queue[p])
                           /\ Once(queue'[p])
    PROVE  Pools' /\ \A p \in Pool : With(p)' \subseteq With(p)
<1>1. ASSUME NEW p \in Pool PROVE Cardinality(used'[p]) <= Size[p]
  <2>1. used[p] \in SUBSET Task /\ used'[p] \in SUBSET used[p] BY DEF Pools
  <2>2. Cardinality(used'[p]) <= Cardinality(used[p]) BY <2>1, TasksCount, FS_Subset
  <2>3. Cardinality(used'[p]) \in Nat /\ Cardinality(used[p]) \in Nat BY <2>1, TasksCount
  <2>4. Cardinality(used[p]) <= Size[p] /\ Size[p] \in Nat BY Sizes DEF Pools
  <2>5. QED BY <2>2, <2>3, <2>4
<1>2. \A p \in Pool : used'[p] \cap Range(queue'[p]) = {} BY DEF Pools
<1>3. QED BY <1>1, <1>2 DEF Pools, With

(* A connection goes back. *)
LEMMA ReleaseEffect ==
    ASSUME Pools, NEW p \in Pool, NEW t \in used[p], Release(p, t), UNCHANGED queue
    PROVE  /\ Pools'
           /\ \A q \in Pool : With(q)' = IF q = p THEN With(p) \ {t} ELSE With(q)
<1>1. /\ used' \in [Pool -> SUBSET Task] /\ queue' \in [Pool -> Seq(Task)]
      /\ used'[p] = used[p] \ {t}
      /\ \A q \in Pool : q # p => used'[q] = used[q]
  BY DEF Pools, Release
<1>2. Pools' BY <1>1, FewerEffect DEF Pools
<1>3. QED BY <1>1, <1>2 DEF Pools, With

(* A task joins a queue, and may give back what it had of that pool. *)
LEMMA GetEffect ==
    ASSUME Pools, NEW p \in Pool, NEW t \in Task, t \notin Range(queue[p]), Get(p, t),
           Release(p, t) \/ (t \notin used[p] /\ UNCHANGED used)
    PROVE  /\ Pools'
           /\ \A q \in Pool : With(q)' = IF q = p THEN With(p) \cup {t} ELSE With(q)
<1>1. /\ used' \in [Pool -> SUBSET Task]
      /\ used'[p] = used[p] \ {t}
      /\ \A q \in Pool : q # p => used'[q] = used[q]
  BY DEF Pools, Release
<1>2. queue[p] \in Seq(Task) /\ Once(queue[p]) BY DEF Pools
<1>3. /\ Append(queue[p], t) \in Seq(Task) /\ Once(Append(queue[p], t))
      /\ Range(Append(queue[p], t)) = Range(queue[p]) \cup {t}
  BY <1>2, Appended
<1>4. /\ queue' \in [Pool -> Seq(Task)]
      /\ queue'[p] = Append(queue[p], t)
      /\ \A q \in Pool : q # p => queue'[q] = queue[q]
  BY <1>3 DEF Pools, Get
<1>5. ASSUME NEW q \in Pool PROVE Cardinality(used'[q]) <= Size[q]
  <2>1. used[q] \in SUBSET Task /\ used'[q] \in SUBSET used[q] BY <1>1 DEF Pools
  <2>2. Cardinality(used'[q]) <= Cardinality(used[q]) BY <2>1, TasksCount, FS_Subset
  <2>3. Cardinality(used'[q]) \in Nat /\ Cardinality(used[q]) \in Nat BY <2>1, TasksCount
  <2>4. Cardinality(used[q]) <= Size[q] /\ Size[q] \in Nat BY Sizes DEF Pools
  <2>5. QED BY <2>2, <2>3, <2>4
<1>6. \A q \in Pool : used'[q] \cap Range(queue'[q]) = {} /\ Once(queue'[q])
  BY <1>1, <1>3, <1>4 DEF Pools
<1>7. Pools' BY <1>1, <1>4, <1>5, <1>6 DEF Pools
<1>8. QED BY <1>1, <1>3, <1>4, <1>7 DEF With

(* The head of a queue leaves it. *)
LEMMA BeheadEffect ==
    ASSUME Pools, NEW p \in Pool, queue[p] # <<>>, queue' = [queue EXCEPT ![p] = Tail(@)]
    PROVE  /\ queue' \in [Pool -> Seq(Task)]
           /\ \A q \in Pool : Once(queue'[q])
           /\ Head(queue[p]) \in Range(queue[p]) /\ Head(queue[p]) \in Task
           /\ \A q \in Pool : Range(queue'[q]) =
                IF q = p THEN Range(queue[p]) \ {Head(queue[p])} ELSE Range(queue[q])
<1>1. queue[p] \in Seq(Task) /\ Once(queue[p]) BY DEF Pools
<1>2. /\ Tail(queue[p]) \in Seq(Task) /\ Once(Tail(queue[p]))
      /\ Head(queue[p]) \in Range(queue[p])
      /\ Range(Tail(queue[p])) = Range(queue[p]) \ {Head(queue[p])}
  BY <1>1, Beheaded
<1>3. Head(queue[p]) \in Task BY <1>1
<1>4. queue'[p] = Tail(queue[p]) /\ \A q \in Pool : q # p => queue'[q] = queue[q] BY DEF Pools
<1>5. QED BY <1>2, <1>3, <1>4 DEF Pools

(* A get that fails at the head of the queue. *)
LEMMA FailEffect ==
    ASSUME Pools, NEW p \in Pool, queue[p] # <<>>, queue' = [queue EXCEPT ![p] = Tail(@)],
           UNCHANGED used
    PROVE  /\ Pools'
           /\ \A q \in Pool : With(q)' =
                IF q = p THEN With(p) \ {Head(queue[p])} ELSE With(q)
<1>1. Pools' BY BeheadEffect, FewerEffect DEF Pools
<1>2. Head(queue[p]) \notin used[p] BY BeheadEffect DEF Pools
<1>3. QED BY <1>1, <1>2, BeheadEffect DEF With

(* The head of a queue gets its connection. *)
LEMMA GrantEffect ==
    ASSUME Pools, NEW p \in Pool, Grant(p)
    PROVE  Pools' /\ \A q \in Pool : With(q)' = With(q)
<1> DEFINE h == Head(queue[p])
<1>1. queue[p] # <<>> /\ queue' = [queue EXCEPT ![p] = Tail(@)] /\ Cardinality(used[p]) < Size[p]
  BY DEF Grant, Ready
<1>2. /\ queue' \in [Pool -> Seq(Task)]
      /\ \A q \in Pool : Once(queue'[q])
      /\ h \in Range(queue[p]) /\ h \in Task
      /\ \A q \in Pool : Range(queue'[q]) = IF q = p THEN Range(queue[p]) \ {h} ELSE Range(queue[q])
  BY <1>1, BeheadEffect
<1> HIDE DEF h
<1>3. /\ used'[p] = used[p] \cup {h}
      /\ \A q \in Pool : q # p => used'[q] = used[q]
      /\ used' \in [Pool -> SUBSET Task]
  BY <1>2 DEF Grant, Pools, h
<1>4. Cardinality(used'[p]) <= Size[p]
  <2>1. used[p] \in SUBSET Task BY DEF Pools
  <2>2. IsFiniteSet(used[p]) /\ Cardinality(used[p]) \in Nat BY <2>1, TasksCount
  <2>3. Cardinality(used'[p]) <= Cardinality(used[p]) + 1
    <3>1. Cardinality(used[p] \cup {h}) =
            IF h \in used[p] THEN Cardinality(used[p]) ELSE Cardinality(used[p]) + 1
      BY <2>2, FS_AddElement
    <3>2. QED BY <1>3, <2>2, <3>1
  <2>4. Cardinality(used'[p]) \in Nat BY <1>3, TasksCount
  <2>5. Size[p] \in Nat BY Sizes
  <2>6. QED BY <1>1, <2>2, <2>3, <2>4, <2>5
<1>5. \A q \in Pool : used'[q] \cap Range(queue'[q]) = {} BY <1>2, <1>3 DEF Pools
<1>6. \A q \in Pool : Cardinality(used'[q]) <= Size[q] BY <1>3, <1>4 DEF Pools
<1>7. Pools' BY <1>2, <1>3, <1>5, <1>6 DEF Pools
<1>8. QED BY <1>2, <1>3, <1>7 DEF With

-----------------------------------------------------------------------------
(* The steps of the process and of main. *)

(* Giving a connection to the next in line. *)
LEMMA GrantKeeps == ASSUME PoolInv, NEW p \in Pool, Grant(p) PROVE PoolInv'
<1>1. Pools' /\ \A q \in Pool : With(q)' = With(q) BY InvParts, GrantEffect
<1>2. UNCHANGED <<replica, main, todo, pub, batch, token>> BY DEF Grant, publisher
<1>3. \A q \in Pool : \A t \in With(q)' : Entitled(t, q)' BY <1>1, <1>2, InvParts DEF Entitled
<1>4. \A q \in Pool : used[q] \subseteq used'[q] BY DEF Grant, PoolInv, TypeOK
<1>5. PublisherKeeps' BY <1>2, <1>4 DEF PoolInv, PublisherKeeps, Pool
<1>6. InOrder' BY <1>2 DEF PoolInv, InOrder
<1>7. QED BY <1>1, <1>2, <1>3, <1>5, <1>6, Assemble DEF PoolInv, TypeOK

(* Without a process nobody has anything. *)
LEMMA ExitKeeps == ASSUME PoolInv, Exit PROVE PoolInv'
<1>1. used' = [p \in Pool |-> {}] /\ queue' = [p \in Pool |-> <<>>] BY DEF Exit
<1>2. \A p \in Pool : used'[p] = {} /\ queue'[p] = <<>> BY <1>1
<1>3. Range(<<>>) = {} /\ Once(<<>>) BY DEF Range, Once
<1>4. Cardinality({}) = 0 BY FS_EmptySet
<1>5. used' \in [Pool -> SUBSET Task] /\ queue' \in [Pool -> Seq(Task)] BY <1>1
<1>6. ASSUME NEW p \in Pool
      PROVE  /\ used'[p] \cap Range(queue'[p]) = {} /\ Once(queue'[p])
             /\ Cardinality(used'[p]) <= Size[p] /\ With(p)' = {}
  <2>1. used'[p] = {} /\ queue'[p] = <<>> BY <1>2
  <2>2. Size[p] \in Nat BY Sizes
  <2>3. 0 <= Size[p] BY <2>2
  <2>4. Cardinality(used'[p]) <= Size[p] BY <1>4, <2>1, <2>3
  <2>5. QED BY <1>3, <2>1, <2>4 DEF With
<1>7. /\ replica' \in BOOLEAN /\ main' \in Main /\ pub' \in Pub /\ batch' \in 0..MaxBatch
      /\ token' \in BOOLEAN /\ todo' \in [Request -> Seq(Pool)]
  <2>1. replica' \in BOOLEAN BY DEF Exit, PoolInv, TypeOK
  <2>2. main' \in Main /\ pub' \in Pub BY DEF Exit, Main, Pub
  <2>3. batch' \in 0..MaxBatch BY DbPoolAssumption DEF Exit
  <2>4. token' \in BOOLEAN BY DEF Exit
  <2>5. todo' \in [Request -> Seq(Pool)]
    <3>1. <<>> \in Seq(Pool) OBVIOUS
    <3>2. QED BY <3>1 DEF Exit
  <2>6. QED BY <2>1, <2>2, <2>3, <2>4, <2>5
<1>8. PublisherKeeps' /\ InOrder'
  BY DEF Exit, PublisherKeeps, InOrder
<1>9. Pools' BY <1>5, <1>6 DEF Pools
<1>10. QED BY <1>6, <1>7, <1>8, <1>9, Assemble

LEMMA BootKeeps == ASSUME PoolInv, Boot PROVE PoolInv'
<1>1. /\ main = "down" /\ main' = "migrate" /\ replica' \in BOOLEAN
      /\ Get("writer", "main") /\ UNCHANGED <<used, todo, pub, batch, token>>
  BY DEF Boot, publisher
<1>2. "writer" \in Pool /\ "main" \in Task BY DEF Pool, Task
<1>3. "main" \notin With("writer")
  BY <1>1, <1>2, InvParts, DbPoolAssumption DEF Entitled
<1>4. Pools' /\ \A q \in Pool : With(q)' = IF q = "writer" THEN With(q) \cup {"main"} ELSE With(q)
  BY <1>1, <1>2, <1>3, InvParts, GetEffect DEF With
<1>5. ASSUME NEW q \in Pool, NEW t \in With(q)' PROVE Entitled(t, q)'
  <2>1. CASE t \in With(q) BY <1>1, <2>1, InvParts DEF Entitled
  <2>2. CASE t = "main" /\ q = "writer" BY <1>1, <2>2 DEF Entitled
  <2>3. QED BY <1>4, <2>1, <2>2
<1>6. PublisherKeeps' /\ InOrder'
  BY <1>1 DEF PoolInv, PublisherKeeps, InOrder
<1>7. QED BY <1>1, <1>4, <1>5, <1>6, Assemble DEF PoolInv, TypeOK, Main

LEMMA MigratedKeeps == ASSUME PoolInv, Migrated PROVE PoolInv'
<1>1. /\ main = "migrate" /\ main' = "ensure" /\ "main" \in used["writer"]
      /\ Release("writer", "main") /\ Get("writer", "main")
      /\ UNCHANGED <<replica, todo, pub, batch, token>>
  BY DEF Migrated, publisher
<1>2. "writer" \in Pool /\ "main" \in Task BY DEF Pool, Task
<1>3. "main" \notin Range(queue["writer"]) BY <1>1, <1>2, InvParts DEF Pools
<1>4. Pools' /\ \A q \in Pool : With(q)' = IF q = "writer" THEN With(q) \cup {"main"} ELSE With(q)
  BY <1>1, <1>2, <1>3, InvParts, GetEffect
<1>5. ASSUME NEW q \in Pool, NEW t \in With(q)' PROVE Entitled(t, q)'
  <2>1. CASE t \in With(q) BY <1>1, <2>1, InvParts DEF Entitled
  <2>2. CASE t = "main" /\ q = "writer" BY <1>1, <2>2 DEF Entitled
  <2>3. QED BY <1>4, <2>1, <2>2
<1>6. "leader" \in used["writer"] => "leader" \in used'["writer"]
  BY <1>1, <1>2 DEF Release, PoolInv, TypeOK
<1>7. PublisherKeeps' /\ InOrder'
  BY <1>1, <1>6 DEF PoolInv, PublisherKeeps, InOrder
<1>8. QED BY <1>1, <1>4, <1>5, <1>7, Assemble DEF PoolInv, TypeOK, Main

LEMMA KeyEnsuredKeeps == ASSUME PoolInv, KeyEnsured PROVE PoolInv'
<1>1. /\ main = "ensure" /\ main' = "serve" /\ "main" \in used["writer"]
      /\ Release("writer", "main") /\ pub' = "connect"
      /\ UNCHANGED <<replica, queue, todo, batch, token>>
  BY DEF KeyEnsured
<1>2. "writer" \in Pool BY DEF Pool
<1>3. Pools' /\ \A q \in Pool : With(q)' = IF q = "writer" THEN With(q) \ {"main"} ELSE With(q)
  BY <1>1, <1>2, InvParts, ReleaseEffect
<1>4. ASSUME NEW q \in Pool, NEW t \in With(q)' PROVE Entitled(t, q)'
  <2>1. Entitled(t, q) /\ ~ (t = "main" /\ q = "writer") BY <1>3, InvParts
  <2>2. t # "leader" /\ t # "publisher"
    <3>1. pub = "off" BY <1>1 DEF PoolInv, InOrder
    <3>2. QED BY <2>1, <3>1, DbPoolAssumption DEF Entitled
  <2>3. QED BY <1>1, <2>1, <2>2 DEF Entitled
<1>5. PublisherKeeps' /\ InOrder'
  BY <1>1 DEF PublisherKeeps, InOrder
<1>6. QED BY <1>1, <1>3, <1>4, <1>5, Assemble DEF PoolInv, TypeOK, Main, Pub

(* SIGTERM and the end of the drain leave the pools alone. *)
LEMMA StopKeeps == ASSUME PoolInv, Sigterm \/ Drained PROVE PoolInv'
<1>1. /\ UNCHANGED <<replica, used, queue, todo, pub, batch>>
      /\ main \in {"serve", "drain"} /\ main' \in {"drain", "stop"} /\ token' \in BOOLEAN
  BY DEF Sigterm, Drained, pools, publisher, PoolInv, TypeOK
<1>2. Pools' /\ \A q \in Pool : With(q)' = With(q) BY <1>1, InvParts DEF Pools, With
<1>3. \A q \in Pool : \A t \in With(q)' : Entitled(t, q)' BY <1>1, <1>2, InvParts DEF Entitled
<1>4. PublisherKeeps' BY <1>1 DEF PoolInv, PublisherKeeps
<1>5. InOrder' BY <1>1 DEF Sigterm, Drained, InOrder
<1>6. QED BY <1>1, <1>2, <1>3, <1>4, <1>5, Assemble DEF PoolInv, TypeOK, Main

-----------------------------------------------------------------------------
(* The steps of a request. *)

(* Requests are not the other tasks. *)
LEMMA RequestsApart ==
    ASSUME NEW r \in Request
    PROVE  r \in Task /\ r # "main" /\ r # "leader" /\ r # "publisher"
BY DbPoolAssumption DEF Task

(* The calls are made of the pools. *)
LEMMA CallsTyped == Calls \subseteq Seq(Pool)
<1>1. "writer" \in Pool /\ Reader \in Pool BY DEF Reader, Pool
<1>2. QED BY <1>1 DEF Calls

LEMMA ArriveKeeps == ASSUME PoolInv, NEW r \in Request, Arrive(r) PROVE PoolInv'
<1>1. /\ main = "serve" /\ todo[r] = <<>>
      /\ UNCHANGED <<replica, used, queue, main, pub, batch, token>>
  BY DEF Arrive, pools, publisher
<1>2. PICK c \in Calls : todo' = [todo EXCEPT ![r] = c] BY DEF Arrive
<1>3. todo' \in [Request -> Seq(Pool)] /\ \A o \in Request : o # r => todo'[o] = todo[o]
  BY <1>2, CallsTyped DEF PoolInv, TypeOK
<1>4. Pools' /\ \A q \in Pool : With(q)' = With(q) BY <1>1, InvParts DEF Pools, With
<1>5. ASSUME NEW q \in Pool, NEW t \in With(q)' PROVE Entitled(t, q)'
  <2>1. Entitled(t, q) BY <1>4, InvParts
  <2>2. t # r BY <1>1, <2>1, RequestsApart DEF Entitled
  <2>3. QED BY <1>1, <1>3, <2>1, <2>2 DEF Entitled
<1>6. PublisherKeeps' /\ InOrder' BY <1>1 DEF PoolInv, PublisherKeeps, InOrder
<1>7. QED BY <1>1, <1>3, <1>4, <1>5, <1>6, Assemble DEF PoolInv, TypeOK

LEMMA AskKeeps == ASSUME PoolInv, NEW r \in Request, Ask(r) PROVE PoolInv'
<1> DEFINE p == Head(todo[r])
<1>1. /\ todo[r] # <<>> /\ ~Waits(r) /\ ~Holds(r) /\ Get(p, r)
      /\ UNCHANGED <<replica, used, main, todo, pub, batch, token>>
  BY DEF Ask, publisher
<1>2. p \in Pool /\ r \in Task BY <1>1, RequestsApart DEF PoolInv, TypeOK
<1>3. r \notin Range(queue[p]) /\ r \notin used[p] BY <1>1, <1>2 DEF Waits, Holds
<1>4. Pools' /\ \A q \in Pool : With(q)' = IF q = p THEN With(q) \cup {r} ELSE With(q)
  BY <1>1, <1>2, <1>3, InvParts, GetEffect
<1>5. ASSUME NEW q \in Pool, NEW t \in With(q)' PROVE Entitled(t, q)'
  <2>1. CASE t \in With(q) BY <1>1, <2>1, InvParts DEF Entitled
  <2>2. CASE t = r /\ q = p BY <1>1, <2>2 DEF Entitled
  <2>3. QED BY <1>4, <2>1, <2>2
<1>6. PublisherKeeps' /\ InOrder' BY <1>1 DEF PoolInv, PublisherKeeps, InOrder
<1>7. QED BY <1>1, <1>4, <1>5, <1>6, Assemble DEF PoolInv, TypeOK

LEMMA FinishKeeps == ASSUME PoolInv, NEW r \in Request, Finish(r) PROVE PoolInv'
<1> DEFINE p == Head(todo[r])
<1>1. /\ todo[r] # <<>> /\ r \in used[p] /\ Release(p, r)
      /\ UNCHANGED <<replica, queue, main, pub, batch, token>>
  BY DEF Finish, publisher
<1>2. PICK rest \in {Tail(todo[r]), <<>>} : todo' = [todo EXCEPT ![r] = rest] BY DEF Finish
<1>3. p \in Pool /\ Tail(todo[r]) \in Seq(Pool) BY <1>1 DEF PoolInv, TypeOK
<1>4. /\ todo' \in [Request -> Seq(Pool)]
      /\ \A o \in Request : o # r => todo'[o] = todo[o]
  <2>1. <<>> \in Seq(Pool) OBVIOUS
  <2>2. rest \in Seq(Pool) BY <1>2, <1>3, <2>1
  <2>3. QED BY <1>2, <2>2 DEF PoolInv, TypeOK
<1>5. Pools' /\ \A q \in Pool : With(q)' = IF q = p THEN With(q) \ {r} ELSE With(q)
  BY <1>1, <1>3, InvParts, ReleaseEffect
<1>6. ASSUME NEW q \in Pool, NEW t \in With(q)' PROVE Entitled(t, q)'
  <2>1. Entitled(t, q) /\ ~ (t = r /\ q = p) BY <1>5, InvParts
  <2>2. t # r BY <2>1, RequestsApart DEF Entitled
  <2>3. QED BY <1>1, <1>4, <2>1, <2>2 DEF Entitled
<1>7. "leader" \in used["writer"] => "leader" \in used'["writer"]
  BY <1>1, <1>3, RequestsApart DEF Release, PoolInv, TypeOK, Pool
<1>8. InOrder'
  <2>1. CASE main = "stop" BY <1>1, <2>1 DEF PoolInv, InOrder
  <2>2. CASE main # "stop" BY <1>1, <2>2 DEF PoolInv, InOrder
  <2>3. QED BY <2>1, <2>2
<1>9. PublisherKeeps' BY <1>1, <1>7 DEF PoolInv, PublisherKeeps
<1>10. QED BY <1>1, <1>4, <1>5, <1>6, <1>8, <1>9, Assemble DEF PoolInv, TypeOK

LEMMA AbandonKeeps == ASSUME PoolInv, NEW r \in Request, Abandon(r) PROVE PoolInv'
<1>1. /\ todo[r] # <<>> /\ todo' = [todo EXCEPT ![r] = <<>>]
      /\ UNCHANGED <<replica, main, pub, batch, token>>
  BY DEF Abandon, publisher
<1>2. /\ todo' \in [Request -> Seq(Pool)] /\ todo'[r] = <<>>
      /\ \A o \in Request : o # r => todo'[o] = todo[o]
  <2>1. <<>> \in Seq(Pool) OBVIOUS
  <2>2. QED BY <1>1, <2>1 DEF PoolInv, TypeOK
<1>3. ASSUME NEW t, NEW q \in Pool, Entitled(t, q), t # r PROVE Entitled(t, q)'
  BY <1>1, <1>2, <1>3 DEF Entitled
<1>4. /\ Pools' /\ \A q \in Pool : With(q)' \subseteq With(q) \ {r}
      /\ "leader" \in used["writer"] => "leader" \in used'["writer"]
  <2>1. CASE \E p \in Pool : \E i \in DOMAIN queue[p] :
               queue[p][i] = r /\ queue' = [queue EXCEPT ![p] = RemoveAt(@, i)] /\ UNCHANGED used
    <3>1. PICK p \in Pool : \E i \in DOMAIN queue[p] :
               queue[p][i] = r /\ queue' = [queue EXCEPT ![p] = RemoveAt(@, i)] /\ UNCHANGED used
      BY <2>1
    <3>2. PICK i \in DOMAIN queue[p] :
               queue[p][i] = r /\ queue' = [queue EXCEPT ![p] = RemoveAt(@, i)] /\ UNCHANGED used
      BY <3>1
    <3>3. queue[p] \in Seq(Task) /\ Once(queue[p]) BY InvParts DEF Pools
    <3>4. /\ RemoveAt(queue[p], i) \in Seq(Task) /\ Once(RemoveAt(queue[p], i))
          /\ Range(RemoveAt(queue[p], i)) = Range(queue[p]) \ {r}
      BY <3>2, <3>3, Removed
    <3>5. /\ queue' \in [Pool -> Seq(Task)]
          /\ queue'[p] = RemoveAt(queue[p], i)
          /\ \A q \in Pool : q # p => queue'[q] = queue[q]
      BY <3>2, <3>4, InvParts DEF Pools
    <3>6. used' \in [Pool -> SUBSET Task] /\ used' = used BY <3>2, InvParts DEF Pools
    <3>7. Pools' BY <3>4, <3>5, <3>6, InvParts, FewerEffect DEF Pools
    <3>8. r \in Range(queue[p]) BY <3>2 DEF Range
    <3>9. \A q \in Pool : r \in With(q) => q = p
      BY <3>8, InvParts, RequestsApart DEF With, Entitled
    <3>10. r \notin used[p] BY <3>8, InvParts DEF Pools
    <3>11. \A q \in Pool : With(q)' \subseteq With(q) \ {r}
      BY <3>4, <3>5, <3>6, <3>9, <3>10 DEF With
    <3>12. QED BY <3>6, <3>7, <3>11
  <2>2. CASE ~Waits(r) /\ used' = [p \in Pool |-> used[p] \ {r}] /\ UNCHANGED queue
    <3>1. \A p \in Pool : used'[p] = used[p] \ {r} BY <2>2
    <3>2. used' \in [Pool -> SUBSET Task] /\ queue' \in [Pool -> Seq(Task)] BY <2>2, InvParts DEF Pools
    <3>3. Pools' BY <2>2, <3>1, <3>2, InvParts, FewerEffect DEF Pools
    <3>4. \A q \in Pool : With(q)' \subseteq With(q) \ {r} BY <2>2, <3>1 DEF With, Waits
    <3>5. QED BY <3>1, <3>3, <3>4, RequestsApart DEF Pool
  <2>3. QED BY <2>1, <2>2 DEF Abandon
<1>5. \A q \in Pool : \A t \in With(q)' : Entitled(t, q)' BY <1>3, <1>4, InvParts
<1>6. PublisherKeeps' BY <1>1, <1>4 DEF PoolInv, PublisherKeeps
<1>7. InOrder' BY <1>1, <1>2 DEF PoolInv, InOrder
<1>8. QED BY <1>1, <1>2, <1>4, <1>5, <1>6, <1>7, Assemble DEF PoolInv, TypeOK

-----------------------------------------------------------------------------
(* The steps of the publisher. *)

(* The publisher's steps are nothing to the others. *)
LEMMA OthersEntitled ==
    ASSUME UNCHANGED <<main, todo>>, NEW q \in Pool, NEW t, Entitled(t, q),
           t \notin {"leader", "publisher"}
    PROVE  Entitled(t, q)'
BY DEF Entitled

(* Rows are counted down to none. *)
LEMMA ContinueTyped ==
    ASSUME NEW n \in 0..MaxBatch, Continue(n)
    PROVE  /\ batch' \in 0..MaxBatch /\ pub' \in {"sleep", "produce"}
           /\ pub' = "produce" => batch' > 0
BY DbPoolAssumption DEF Continue

(* A publisher that is not yet, or no longer, there has nothing. *)
LEMMA NoLeader ==
    ASSUME PoolInv, pub \in {"off", "connect", "ended"}, NEW q \in Pool
    PROVE  "leader" \notin With(q)
BY InvParts, DbPoolAssumption DEF Entitled

LEMMA NoQuery ==
    ASSUME PoolInv, pub \notin {"fetch", "mark"}, NEW q \in Pool
    PROVE  "publisher" \notin With(q)
BY InvParts, DbPoolAssumption DEF Entitled

LEMMA ConnectKeeps == ASSUME PoolInv, Connect PROVE PoolInv'
<1>1. /\ pub = "connect" /\ pub' = "leader" /\ Get("writer", "leader")
      /\ UNCHANGED <<replica, used, main, todo, batch, token>>
  BY DEF Connect
<1>2. "writer" \in Pool /\ "leader" \in Task BY DEF Pool, Task
<1>3. "leader" \notin With("writer") BY <1>1, <1>2, NoLeader
<1>4. Pools' /\ \A q \in Pool : With(q)' = IF q = "writer" THEN With(q) \cup {"leader"} ELSE With(q)
  BY <1>1, <1>2, <1>3, InvParts, GetEffect DEF With
<1>5. ASSUME NEW q \in Pool, NEW t \in With(q)' PROVE Entitled(t, q)'
  <2>1. CASE t \in With(q)
    <3>1. t \notin {"leader", "publisher"} BY <1>1, <2>1, NoLeader, NoQuery
    <3>2. QED BY <1>1, <2>1, <3>1, InvParts, OthersEntitled
  <2>2. CASE t = "leader" /\ q = "writer" BY <1>1, <2>2 DEF Entitled, Pub
  <2>3. QED BY <1>4, <2>1, <2>2
<1>6. PublisherKeeps' /\ InOrder' BY <1>1 DEF PoolInv, PublisherKeeps, InOrder
<1>7. QED BY <1>1, <1>4, <1>5, <1>6, Assemble DEF PoolInv, TypeOK, Pub

LEMMA ConnectFailsKeeps == ASSUME PoolInv, ConnectFails PROVE PoolInv'
<1>1. /\ pub = "connect" /\ pub' = "ended"
      /\ UNCHANGED <<replica, used, queue, main, todo, batch, token>>
  BY DEF ConnectFails, pools
<1>2. Pools' /\ \A q \in Pool : With(q)' = With(q) BY <1>1, InvParts DEF Pools, With
<1>3. ASSUME NEW q \in Pool, NEW t \in With(q)' PROVE Entitled(t, q)'
  <2>1. t \notin {"leader", "publisher"} BY <1>1, <1>2, NoLeader, NoQuery
  <2>2. QED BY <1>1, <1>2, <2>1, InvParts, OthersEntitled
<1>4. PublisherKeeps' /\ InOrder' BY <1>1 DEF PoolInv, PublisherKeeps, InOrder
<1>5. QED BY <1>1, <1>2, <1>3, <1>4, Assemble DEF PoolInv, TypeOK, Pub

LEMMA LeaderFailsKeeps == ASSUME PoolInv, LeaderFails PROVE PoolInv'
<1>1. /\ pub = "leader" /\ pub' = "ended" /\ queue["writer"] # <<>>
      /\ Head(queue["writer"]) = "leader" /\ queue' = [queue EXCEPT !["writer"] = Tail(@)]
      /\ UNCHANGED <<replica, used, main, todo, batch, token>>
  BY DEF LeaderFails, Ready
<1>2. "writer" \in Pool BY DEF Pool
<1>3. Pools' /\ \A q \in Pool : With(q)' = IF q = "writer" THEN With(q) \ {"leader"} ELSE With(q)
  BY <1>1, <1>2, InvParts, FailEffect
<1>4. ASSUME NEW q \in Pool, NEW t \in With(q)' PROVE Entitled(t, q)'
  <2>1. Entitled(t, q) /\ t \in With(q) /\ ~ (t = "leader" /\ q = "writer") BY <1>3, InvParts
  <2>2. t # "leader" BY <2>1, DbPoolAssumption DEF Entitled
  <2>3. t # "publisher" BY <1>1, <2>1, NoQuery
  <2>4. QED BY <1>1, <2>1, <2>2, <2>3, OthersEntitled
<1>5. PublisherKeeps' /\ InOrder' BY <1>1 DEF PoolInv, PublisherKeeps, InOrder
<1>6. QED BY <1>1, <1>3, <1>4, <1>5, Assemble DEF PoolInv, TypeOK, Pub

LEMMA StartedKeeps == ASSUME PoolInv, Started PROVE PoolInv'
<1>1. /\ pub = "leader" /\ pub' = "sleep" /\ "leader" \in used["writer"]
      /\ UNCHANGED <<replica, used, queue, main, todo, batch, token>>
  BY DEF Started, pools
<1>2. Pools' /\ \A q \in Pool : With(q)' = With(q) BY <1>1, InvParts DEF Pools, With
<1>3. \A q \in Pool : \A t \in With(q)' : Entitled(t, q)'
  BY <1>1, <1>2, InvParts DEF Entitled, Pub
<1>4. PublisherKeeps' /\ InOrder' BY <1>1 DEF PoolInv, PublisherKeeps, InOrder
<1>5. QED BY <1>1, <1>2, <1>3, <1>4, Assemble DEF PoolInv, TypeOK, Pub

(* A query of the publisher asks for its connection. *)
LEMMA QueryKeeps == ASSUME PoolInv, Poll \/ Produced PROVE PoolInv'
<1>1. /\ pub \in {"sleep", "produce"} /\ pub' \in {"fetch", "mark"} /\ Get("writer", "publisher")
      /\ pub' = "mark" => pub = "produce"
      /\ UNCHANGED <<replica, used, main, todo, batch, token>>
  BY DEF Poll, Produced
<1>2. "writer" \in Pool /\ "publisher" \in Task BY DEF Pool, Task
<1>3. "publisher" \notin With("writer") BY <1>1, <1>2, NoQuery
<1>4. Pools' /\ \A q \in Pool : With(q)' = IF q = "writer" THEN With(q) \cup {"publisher"} ELSE With(q)
  BY <1>1, <1>2, <1>3, InvParts, GetEffect DEF With
<1>5. ASSUME NEW q \in Pool, NEW t \in With(q)' PROVE Entitled(t, q)'
  <2>1. CASE t \in With(q)
    <3>1. Entitled(t, q) BY <2>1, InvParts
    <3>2. CASE t = "leader" BY <1>1, <3>1, <3>2, DbPoolAssumption DEF Entitled, Pub
    <3>3. CASE t # "leader"
      <4>1. t # "publisher" BY <1>1, <2>1, NoQuery
      <4>2. QED BY <1>1, <3>1, <3>3, <4>1, OthersEntitled
    <3>4. QED BY <3>2, <3>3
  <2>2. CASE t = "publisher" /\ q = "writer" BY <1>1, <2>2 DEF Entitled
  <2>3. QED BY <1>4, <2>1, <2>2
<1>6. PublisherKeeps' /\ InOrder' BY <1>1 DEF PoolInv, PublisherKeeps, InOrder
<1>7. QED BY <1>1, <1>4, <1>5, <1>6, Assemble DEF PoolInv, TypeOK, Pub

(* What an answered, a failed or a spared query leaves. *)
LEMMA AfterQuery ==
    ASSUME PoolInv, Pools',
           pub \in {"fetch", "produce", "mark"}, pub' \in {"sleep", "produce"},
           pub' = "produce" => batch' > 0, batch' \in 0..MaxBatch,
           UNCHANGED <<replica, main, todo, token>>,
           "leader" \in used["writer"] => "leader" \in used'["writer"],
           \A q \in Pool : With(q)' \subseteq With(q),
           "publisher" \notin With("writer")'
    PROVE  PoolInv'
<1>1. ASSUME NEW q \in Pool, NEW t \in With(q)' PROVE Entitled(t, q)'
  <2>1. Entitled(t, q) BY InvParts
  <2>2. CASE t = "leader" BY <2>1, <2>2, DbPoolAssumption DEF Entitled, Pub
  <2>3. CASE t = "publisher" BY <2>1, <2>3, DbPoolAssumption DEF Entitled
  <2>4. CASE t \notin {"leader", "publisher"} BY <2>1, <2>4, OthersEntitled
  <2>5. QED BY <2>2, <2>3, <2>4
<1>2. PublisherKeeps' /\ InOrder' BY DEF PoolInv, PublisherKeeps, InOrder
<1>3. pub' \in Pub BY DEF Pub
<1>4. QED BY <1>1, <1>2, <1>3, Assemble DEF PoolInv, TypeOK

(* The next row, or the end of the batch, is in range. *)
LEMMA RowsLeft ==
    ASSUME PoolInv
    PROVE  /\ 0 \in 0..MaxBatch
           /\ pub \in {"produce", "mark"} => batch - 1 \in 0..MaxBatch
BY DbPoolAssumption DEF PoolInv, TypeOK, PublisherKeeps

LEMMA AnswerKeeps == ASSUME PoolInv, Fetched \/ Marked PROVE PoolInv'
<1>1. /\ pub \in {"fetch", "mark"} /\ "publisher" \in used["writer"]
      /\ Release("writer", "publisher")
      /\ UNCHANGED <<replica, queue, main, todo, token>>
  BY DEF Fetched, Marked
<1>2. \E n \in 0..MaxBatch : Continue(n) BY RowsLeft DEF Fetched, Marked
<1>3. "writer" \in Pool BY DEF Pool
<1>4. Pools' /\ \A q \in Pool : With(q)' = IF q = "writer" THEN With(q) \ {"publisher"} ELSE With(q)
  BY <1>1, <1>3, InvParts, ReleaseEffect
<1>5. "leader" \in used["writer"] => "leader" \in used'["writer"]
  BY <1>1, <1>3 DEF Release, PoolInv, TypeOK
<1>6. QED BY <1>1, <1>2, <1>3, <1>4, <1>5, ContinueTyped, AfterQuery

LEMMA NotProducedKeeps == ASSUME PoolInv, NotProduced PROVE PoolInv'
<1>1. /\ pub = "produce"
      /\ UNCHANGED <<replica, used, queue, main, todo, token>>
  BY DEF NotProduced, pools
<1>2. \E n \in 0..MaxBatch : Continue(n) BY <1>1, RowsLeft DEF NotProduced
<1>3. Pools' /\ \A q \in Pool : With(q)' = With(q) BY <1>1, InvParts DEF Pools, With
<1>4. "publisher" \notin With("writer") /\ "writer" \in Pool BY <1>1, NoQuery DEF Pool
<1>5. QED BY <1>1, <1>2, <1>3, <1>4, ContinueTyped, AfterQuery

LEMMA QueryFailsKeeps == ASSUME PoolInv, QueryFails PROVE PoolInv'
<1>1. /\ pub \in {"fetch", "mark"} /\ queue["writer"] # <<>>
      /\ Head(queue["writer"]) = "publisher" /\ queue' = [queue EXCEPT !["writer"] = Tail(@)]
      /\ UNCHANGED <<replica, used, main, todo, token>>
  BY DEF QueryFails, Ready
<1>2. \E n \in 0..MaxBatch : Continue(n)
  <2>1. CASE pub = "fetch" BY <2>1, RowsLeft DEF QueryFails
  <2>2. CASE pub = "mark" BY <2>2, RowsLeft DEF QueryFails
  <2>3. QED BY <1>1, <2>1, <2>2
<1>3. "writer" \in Pool BY DEF Pool
<1>4. Pools' /\ \A q \in Pool : With(q)' = IF q = "writer" THEN With(q) \ {"publisher"} ELSE With(q)
  BY <1>1, <1>3, InvParts, FailEffect
<1>5. QED BY <1>1, <1>2, <1>3, <1>4, ContinueTyped, AfterQuery

LEMMA ObserveCancelKeeps == ASSUME PoolInv, ObserveCancel PROVE PoolInv'
<1>1. /\ pub = "sleep" /\ pub' = "ended" /\ Release("writer", "leader")
      /\ UNCHANGED <<replica, queue, main, todo, batch, token>>
  BY DEF ObserveCancel
<1>2. "leader" \in used["writer"] /\ "writer" \in Pool BY <1>1 DEF PoolInv, PublisherKeeps, Pool
<1>3. Pools' /\ \A q \in Pool : With(q)' = IF q = "writer" THEN With(q) \ {"leader"} ELSE With(q)
  BY <1>1, <1>2, InvParts, ReleaseEffect
<1>4. ASSUME NEW q \in Pool, NEW t \in With(q)' PROVE Entitled(t, q)'
  <2>1. Entitled(t, q) /\ t \in With(q) /\ ~ (t = "leader" /\ q = "writer") BY <1>3, InvParts
  <2>2. t # "leader" BY <2>1, DbPoolAssumption DEF Entitled
  <2>3. t # "publisher" BY <1>1, <2>1, NoQuery
  <2>4. QED BY <1>1, <2>1, <2>2, <2>3, OthersEntitled
<1>5. PublisherKeeps' /\ InOrder' BY <1>1 DEF PoolInv, PublisherKeeps, InOrder
<1>6. QED BY <1>1, <1>3, <1>4, <1>5, Assemble DEF PoolInv, TypeOK, Pub

-----------------------------------------------------------------------------
(* The theorems. *)

LEMMA PoolInit == Init => PoolInv
<1> SUFFICES ASSUME Init PROVE PoolInv OBVIOUS
<1>1. \A p \in Pool : used[p] = {} /\ queue[p] = <<>> BY DEF Init
<1>2. <<>> \in Seq(Task) /\ <<>> \in Seq(Pool) OBVIOUS
<1>3. TypeOK
  <2>1. used \in [Pool -> SUBSET Task] /\ replica \in BOOLEAN /\ token \in BOOLEAN BY DEF Init
  <2>2. queue \in [Pool -> Seq(Task)] /\ todo \in [Request -> Seq(Pool)] BY <1>2 DEF Init
  <2>3. main \in Main /\ pub \in Pub BY DEF Init, Main, Pub
  <2>4. batch \in 0..MaxBatch BY DbPoolAssumption DEF Init
  <2>5. QED BY <2>1, <2>2, <2>3, <2>4 DEF TypeOK
<1>4. Range(<<>>) = {} BY DEF Range
<1>5. ASSUME NEW p \in Pool PROVE Cardinality(used[p]) <= Size[p]
  <2>1. Cardinality(used[p]) = 0 BY <1>1, FS_EmptySet
  <2>2. Size[p] \in Nat BY Sizes
  <2>3. QED BY <2>1, <2>2
<1>6. NoLeak BY <1>1, <1>4, <1>5 DEF NoLeak
<1>7. PublisherKeeps /\ InOrder BY DEF Init, PublisherKeeps, InOrder
<1>8. QED BY <1>3, <1>6, <1>7 DEF PoolInv

LEMMA PoolStep == PoolInv /\ [Next]_vars => PoolInv'
<1> SUFFICES ASSUME PoolInv, [Next]_vars PROVE PoolInv' OBVIOUS
<1>1. CASE Run
  BY <1>1, ExitKeeps, BootKeeps, MigratedKeeps, KeyEnsuredKeeps, StopKeeps DEF Run, Dies, Joined
<1>2. CASE Publish
  BY <1>2, ConnectKeeps, ConnectFailsKeeps, LeaderFailsKeeps, StartedKeeps, QueryKeeps,
     AnswerKeeps, NotProducedKeeps, QueryFailsKeeps, ObserveCancelKeeps DEF Publish
<1>3. CASE \E p \in Pool : Grant(p) BY <1>3, GrantKeeps
<1>4. CASE \E r \in Request : Step(r)
  BY <1>4, ArriveKeeps, AskKeeps, FinishKeeps, AbandonKeeps DEF Step
<1>5. CASE UNCHANGED vars
  <2>1. UNCHANGED <<replica, used, queue, main, todo, pub, batch, token>>
    BY <1>5 DEF vars, pools, publisher
  <2>2. TypeOK' BY <2>1 DEF PoolInv, TypeOK
  <2>3. NoLeak' BY <2>1 DEF PoolInv, NoLeak, Entitled
  <2>4. PublisherKeeps' /\ InOrder' BY <2>1 DEF PoolInv, PublisherKeeps, InOrder
  <2>5. QED BY <2>2, <2>3, <2>4 DEF PoolInv
<1>6. QED BY <1>1, <1>2, <1>3, <1>4, <1>5 DEF Next

(* Holders and waiters of db.rs's pools are tasks in progress, the publisher *)
(* has its connection while it polls, and is stopped after the drain.        *)
THEOREM PoolInvariance == Spec => []PoolInv
<1>1. QED BY PoolInit, PoolStep, PTL DEF Spec

(* Every variable of the pools and their users keeps its type. *)
THEOREM TypeCorrect == Spec => []TypeOK
<1>1. PoolInv => TypeOK BY DEF PoolInv
<1>2. QED BY <1>1, PoolInvariance, PTL

(* No early return, error or dropped future of a handler leaves a connection *)
(* or a place in a queue behind.                                             *)
THEOREM NothingLeaks == Spec => []NoLeak
<1>1. PoolInv => NoLeak BY DEF PoolInv
<1>2. QED BY <1>1, PoolInvariance, PTL

(* The safety half of "nobody waits for ever": with two connections or more  *)
(* in the writer pool, one that waits for the publisher's leader_obj alone   *)
(* does not exist.                                                           *)
THEOREM NoStarvation ==
    ASSUME WriterSize > 1
    PROVE  Spec => []SomebodyCanFinish
<1>1. ASSUME PoolInv PROVE SomebodyCanFinish
  <2> SUFFICES ASSUME NEW p \in Pool, ~ (Cardinality(used[p]) < Size[p])
               PROVE  \E t \in used[p] : t # "leader" /\ ~Waits(t)
    BY DEF SomebodyCanFinish
  <2>1. used[p] \in SUBSET Task /\ Cardinality(used[p]) \in Nat /\ IsFiniteSet(used[p])
    BY <1>1, InvParts, TasksCount DEF Pools
  <2>2. Cardinality(used[p]) = Size[p] /\ Size[p] \in Nat \ {0}
    BY <1>1, <2>1, InvParts, Sizes DEF Pools
  <2>3. PICK t \in used[p] : t # "leader"
    <3>1. CASE p = "writer"
      <4>1. Size[p] > 1 BY <3>1 DEF Size, Pool
      <4>2. IsFiniteSet({"leader"}) /\ Cardinality({"leader"}) = 1 BY FS_Singleton
      <4>3. SUFFICES ASSUME used[p] \subseteq {"leader"} PROVE FALSE OBVIOUS
      <4>4. Cardinality(used[p]) <= 1 BY <4>2, <4>3, FS_Subset
      <4>5. QED BY <2>2, <4>1, <4>4
    <3>2. CASE p # "writer"
      <4>1. used[p] # {} BY <2>2, FS_EmptySet
      <4>2. "leader" \notin used[p]
        BY <1>1, <3>2, InvParts, DbPoolAssumption DEF With, Entitled
      <4>3. QED BY <4>1, <4>2
    <3>3. QED BY <3>1, <3>2
  <2>4. ASSUME NEW q \in Pool, t \in Range(queue[q]) PROVE FALSE
    <3>1. Entitled(t, p) /\ Entitled(t, q) BY <1>1, <2>3, <2>4, InvParts DEF With
    <3>2. p = q BY <2>3, <3>1, DbPoolAssumption DEF Entitled
    <3>3. QED BY <1>1, <2>3, <2>4, <3>2, InvParts DEF Pools
  <2>5. QED BY <2>3, <2>4 DEF Waits
<1>2. QED BY <1>1, PoolInvariance, PTL

(* When main.rs may return after publisher.shutdown, no task of the process  *)
(* has anything with a pool.                                                 *)
THEOREM ConnectionsComeBack == Spec => []StopsEmptyHanded
<1>1. ASSUME PoolInv PROVE StopsEmptyHanded
  <2> SUFFICES ASSUME main = "stop", pub = "ended", NEW p \in Pool
               PROVE  used[p] = {} /\ queue[p] = <<>>
    BY DEF StopsEmptyHanded
  <2>1. \A t : ~ Entitled(t, p) BY <1>1 DEF Entitled, PoolInv, InOrder
  <2>2. used[p] = {} /\ Range(queue[p]) = {} BY <1>1, <2>1, InvParts DEF With
  <2>3. queue[p] \in Seq(Task) BY <1>1, InvParts DEF Pools
  <2>4. queue[p] = <<>>
    <3>1. SUFFICES ASSUME queue[p] # <<>> PROVE FALSE OBVIOUS
    <3>2. 1 \in DOMAIN queue[p] BY <2>3, <3>1
    <3>3. QED BY <2>2, <3>2 DEF Range
  <2>5. QED BY <2>2, <2>4
<1>2. QED BY <1>1, PoolInvariance, PTL
=============================================================================
