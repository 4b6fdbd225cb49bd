------------------------- MODULE SigningKeysProofs -------------------------
(***************************************************************************)
(* Proofs about SigningKeys, for any number of replicas, of keys, of       *)
(* tokens and of changes, and for any clocks that agree up to the leeway.  *)
(***************************************************************************)
EXTENDS SigningKeys, WellFoundedInduction, TLAPS

(* A set of positions has a last one. *)
LEMMA LastPosition ==
    ASSUME NEW n \in Nat, NEW T, T \subseteq 1..n, T # {}
    PROVE  \E m \in T : \A k \in T : k <= m
<1> DEFINE D == {n - k : k \in T}
           Less == OpToRel(<, Nat)
<1>0. \A k \in T : k \in Nat /\ n - k \in Nat
  <2>1. \A k \in 1..n : k \in Nat /\ n - k \in Nat OBVIOUS
  <2>2. QED BY <2>1
<1>1. D \subseteq Nat /\ D # {} BY <1>0
<1>2. IsWellFoundedOn(Less, Nat) BY NatLessThanWellFounded
<1>3. PICK x \in D : \A y \in D : ~ (<<y, x>> \in Less)
  <2> HIDE DEF D, Less
  <2>1. QED BY <1>1, <1>2, WFMin
<1>4. \A y \in D : ~ (y < x)
  <2> SUFFICES ASSUME NEW y \in D, y < x PROVE FALSE OBVIOUS
  <2>1. <<y, x>> \in Less BY <1>1 DEF OpToRel
  <2>2. QED BY <1>3, <2>1
<1>5. PICK m \in T : x = n - m OBVIOUS
<1>6. ASSUME NEW k \in T PROVE k <= m
  <2>1. ~ (n - k < x) BY <1>4
  <2>2. k \in Nat /\ m \in Nat BY <1>0
  <2>3. QED BY <1>5, <2>1, <2>2
<1>7. QED BY <1>6

(* The types hold at first. *)
LEMMA TypeInit == Init => TypeOK
<1> SUFFICES ASSUME Init PROVE TypeOK OBVIOUS
<1> USE KeysAssumption DEF Init
<1>1. log \in Seq(Seq(Key)) /\ Len(log) = 1
  <2>1. <<>> \in Seq(Key) OBVIOUS
  <2>2. << <<>> >> \in Seq(Seq(Key)) /\ Len(<< <<>> >>) = 1 BY <2>1
  <2>3. QED BY <2>2
<1>2. applied \in 1..Len(log) BY <1>1
<1>3. replica \in [Replica -> Phase] BY DEF Phase
<1>4. QED BY <1>1, <1>2, <1>3 DEF TypeOK

(* The table and what it shows. *)
LEMMA KeysType ==
    ASSUME TypeOK
    PROVE  /\ Keys \in Seq(Key) /\ Len(log) \in Nat \ {0}
           /\ DOMAIN Keys = 1..Len(Keys) /\ Len(Keys) \in Nat
           /\ Active(Keys) \subseteq 1..Len(Keys)
           /\ \A g \in Replica : ReaderKeys(g) \in Seq(Key)
<1>1. log \in Seq(Seq(Key)) /\ applied \in 1..Len(log) BY DEF TypeOK
<1>2. Len(log) \in Nat \ {0} /\ Len(log) \in DOMAIN log /\ applied \in DOMAIN log BY <1>1
<1>3. Keys \in Seq(Key) /\ log[applied] \in Seq(Key) BY <1>1, <1>2 DEF Keys
<1>4. DOMAIN Keys = 1..Len(Keys) /\ Len(Keys) \in Nat BY <1>3
<1>5. QED BY <1>2, <1>3, <1>4 DEF Active, ReaderKeys

(* Writing a state of the table. *)
LEMMA LogAppends ==
    ASSUME TypeOK, NEW keys \in Seq(Key), log' = Append(log, keys)
    PROVE  /\ log' \in Seq(Seq(Key)) /\ Keys' = keys
           /\ \A n \in 1..Len(log) : n \in 1..Len(log')
<1>1. log \in Seq(Seq(Key)) BY DEF TypeOK
<1>2. log' \in Seq(Seq(Key)) /\ Len(log') = Len(log) + 1 /\ log'[Len(log) + 1] = keys BY <1>1
<1>3. Len(log) \in Nat BY <1>1
<1>4. QED BY <1>2, <1>3 DEF Keys

(* The states that InsertKey and ChangeStatus write. *)
NewKey(g) == [by |-> g, kek |-> Kek[g], status |-> "active"]

LEMMA InsertedKeys ==
    ASSUME TypeOK, NEW g \in Replica, InsertKey(g)
    PROVE  /\ NewKey(g) \in Key
           /\ Keys' = Append(Keys, NewKey(g)) /\ Keys' \in Seq(Key) /\ log' \in Seq(Seq(Key))
           /\ \A n \in 1..Len(log) : n \in 1..Len(log')
<1>1. NewKey(g) \in Key BY KeysAssumption DEF NewKey, Key
<1>2. Append(Keys, NewKey(g)) \in Seq(Key) BY <1>1, KeysType
<1>3. log' = Append(log, Append(Keys, NewKey(g))) BY DEF InsertKey, NewKey
<1>4. QED BY <1>1, <1>2, <1>3, LogAppends

LEMMA ChangedKeys ==
    ASSUME TypeOK, NEW k \in DOMAIN Keys, NEW status \in {"retired", "revoked"}, ChangeStatus(k, status)
    PROVE  /\ Keys' = [Keys EXCEPT ![k].status = status] /\ Keys' \in Seq(Key) /\ log' \in Seq(Seq(Key))
           /\ DOMAIN Keys' = DOMAIN Keys /\ Len(Keys') = Len(Keys)
           /\ \A j \in DOMAIN Keys : /\ Keys'[j].by = Keys[j].by /\ Keys'[j].kek = Keys[j].kek
                                     /\ j # k => Keys'[j] = Keys[j]
           /\ \A n \in 1..Len(log) : n \in 1..Len(log')
<1> DEFINE keys == [Keys EXCEPT ![k].status = status]
<1>1. Keys \in Seq(Key) /\ DOMAIN Keys = 1..Len(Keys) BY KeysType
<1>2. Keys[k] \in Key BY <1>1
<1>3. [Keys[k] EXCEPT !.status = status] \in Key BY <1>2 DEF Key
<1>4. keys = [Keys EXCEPT ![k] = [Keys[k] EXCEPT !.status = status]] OBVIOUS
<1>5. keys \in Seq(Key) /\ DOMAIN keys = DOMAIN Keys /\ Len(keys) = Len(Keys) BY <1>1, <1>3, <1>4
<1>6. \A j \in DOMAIN Keys : /\ keys[j].by = Keys[j].by /\ keys[j].kek = Keys[j].kek
                             /\ j # k => keys[j] = Keys[j]
  BY <1>1, <1>2, <1>4 DEF Key
<1>7. log' = Append(log, keys) BY DEF ChangeStatus
<1> HIDE DEF keys
<1>8. Keys' = keys /\ log' \in Seq(Seq(Key)) /\ \A n \in 1..Len(log) : n \in 1..Len(log')
  BY <1>5, <1>7, LogAppends
<1>9. QED BY <1>5, <1>6, <1>8 DEF keys

-----------------------------------------------------------------------------
(* Every step keeps the types. *)
LEMMA TypeStep == TypeOK /\ [Next]_vars => TypeOK'
<1> SUFFICES ASSUME TypeOK, [Next]_vars PROVE TypeOK' OBVIOUS
<1> USE KeysAssumption
<1> DEFINE Tables == schema \in 0..Migrations /\ log \in Seq(Seq(Key)) /\ applied \in 1..Len(log)
           Starts == /\ replica \in [Replica -> Phase]
                     /\ plan \in [Replica -> 0..Migrations]
                     /\ \A g \in Replica : /\ replica[g] = "migrate" => plan[g] < Migrations
                                           /\ replica[g] \in {"count", "insert", "serving"} => schema = Migrations
           Rest == /\ tokens \subseteq Token
                   /\ verdict \in Verdict \cup {None}
                   /\ now \in 0..MaxTime /\ changes \in 0..MaxChanges /\ stops \in 0..MaxStops
<1>t. Tables /\ Starts /\ Rest BY DEF TypeOK
<1>s. ASSUME NEW g \in Replica, NEW p \in Phase, Becomes(g, p), UNCHANGED <<schema, plan>>,
             p = "migrate" => plan[g] < Migrations,
             p \in {"count", "insert", "serving"} => schema = Migrations
      PROVE  Starts'
  BY <1>t, <1>s DEF Becomes
<1>1. ASSUME NEW g \in Replica, ReadSchema(g) PROVE TypeOK'
  <2>1. plan' = [plan EXCEPT ![g] = schema] /\ UNCHANGED <<database, tokens, verdict, bounds>>
        /\ replica' = [replica EXCEPT ![g] = IF schema = Migrations THEN "count" ELSE "migrate"]
    BY <1>1 DEF ReadSchema, Becomes
  <2>2. Tables' /\ Rest' BY <1>t, <2>1 DEF database, bounds
  <2>3. schema' = schema /\ schema \in 0..Migrations BY <1>t, <2>1 DEF database
  <2>4. CASE schema = Migrations BY <1>t, <2>1, <2>2, <2>3, <2>4 DEF TypeOK, Phase
  <2>5. CASE schema # Migrations
    <3>1. schema < Migrations BY <2>3, <2>5
    <3>2. Starts' BY <1>t, <2>1, <2>3, <2>5, <3>1 DEF Phase
    <3>3. QED BY <2>2, <3>2 DEF TypeOK
  <2>6. QED BY <2>4, <2>5
<1>2. ASSUME NEW g \in Replica, Migrate(g) PROVE TypeOK'
  <2>1. replica[g] = "migrate" /\ plan[g] < Migrations /\ UNCHANGED <<log, applied, tokens, verdict, bounds>>
    BY <1>2, <1>t DEF Migrate
  <2>2. CASE plan[g] = schema
    <3>1. schema' = schema + 1 /\ plan' = [plan EXCEPT ![g] = schema + 1]
          /\ replica' = [replica EXCEPT ![g] = IF schema + 1 = Migrations THEN "count" ELSE "migrate"]
      BY <1>2, <2>2 DEF Migrate, Becomes
    <3>2. schema \in 0..Migrations /\ schema < Migrations BY <1>t, <2>1, <2>2
    <3>3. schema + 1 \in 0..Migrations /\ (schema + 1 # Migrations => schema + 1 < Migrations) BY <3>2
    <3>4. \A h \in Replica : replica[h] \notin {"count", "insert", "serving"} BY <1>t, <3>2
    <3>5. Tables' /\ Rest' BY <1>t, <2>1, <3>1, <3>3 DEF bounds
    <3>6. Starts' BY <1>t, <3>1, <3>3, <3>4 DEF Phase
    <3>7. QED BY <3>5, <3>6 DEF TypeOK
  <2>3. CASE plan[g] # schema
    <3>1. Becomes(g, "down") /\ UNCHANGED <<schema, plan>> BY <1>2, <2>3 DEF Migrate
    <3>2. Starts' BY <1>s, <3>1 DEF Phase
    <3>3. QED BY <1>t, <2>1, <3>1, <3>2 DEF TypeOK, bounds
  <2>4. QED BY <2>2, <2>3
<1>3. ASSUME NEW g \in Replica, CountKeys(g) PROVE TypeOK'
  <2>1. replica[g] = "count" /\ UNCHANGED <<database, plan, tokens, verdict, bounds>>
        /\ \E p \in {"insert", "serving"} : Becomes(g, p)
    BY <1>3 DEF CountKeys
  <2>2. schema = Migrations BY <1>t, <2>1
  <2>3. Starts' BY <1>s, <2>1, <2>2 DEF Phase, database
  <2>4. QED BY <1>t, <2>1, <2>3 DEF TypeOK, database, bounds
<1>4. ASSUME NEW g \in Replica, InsertKey(g) PROVE TypeOK'
  <2>1. replica[g] = "insert" /\ UNCHANGED <<schema, applied, plan, tokens, verdict, bounds>> /\ Becomes(g, "serving")
    BY <1>4 DEF InsertKey
  <2>2. schema = Migrations BY <1>t, <2>1
  <2>3. Starts' BY <1>s, <2>1, <2>2 DEF Phase
  <2>4. log' \in Seq(Seq(Key)) /\ applied' \in 1..Len(log') BY <1>4, <1>t, <2>1, InsertedKeys
  <2>5. QED BY <1>t, <2>1, <2>3, <2>4 DEF TypeOK, bounds
<1>5. ASSUME NEW g \in Replica, Stop(g) PROVE TypeOK'
  <2>1. stops < MaxStops /\ stops' = stops + 1 /\ Becomes(g, "down")
        /\ UNCHANGED <<database, plan, tokens, verdict, now, changes>>
    BY <1>5 DEF Stop
  <2>2. Starts' BY <1>s, <2>1 DEF Phase, database
  <2>3. stops' \in 0..MaxStops BY <1>t, <2>1
  <2>4. QED BY <1>t, <2>1, <2>2, <2>3 DEF TypeOK, database
<1>6. ASSUME NEW g \in Replica, Sign(g) PROVE TypeOK'
  <2>1. PICK k \in DOMAIN Keys : tokens' = tokens \cup {[kid |-> k, nbf |-> Clock(g), exp |-> Clock(g) + Life, at |-> now]}
    BY <1>6 DEF Sign
  <2>2. k \in Nat /\ now \in Nat /\ Clock(g) \in Nat /\ Clock(g) + Life \in Nat
    <3>1. DOMAIN Keys = 1..Len(Keys) /\ Len(Keys) \in Nat BY <1>t, KeysType
    <3>2. k \in Nat BY <3>1
    <3>3. now \in Nat BY <1>t DEF TypeOK
    <3>4. Skew[g] \in Nat /\ Life \in Nat BY KeysAssumption
    <3>5. Clock(g) \in Nat BY <3>3, <3>4 DEF Clock
    <3>6. QED BY <3>2, <3>3, <3>4, <3>5
  <2>3. [kid |-> k, nbf |-> Clock(g), exp |-> Clock(g) + Life, at |-> now] \in Token BY <2>2 DEF Token
  <2>4. UNCHANGED <<database, replica, plan, verdict, bounds>> BY <1>6 DEF Sign
  <2>5. Rest' BY <1>t, <2>1, <2>3, <2>4 DEF bounds
  <2>6. QED BY <1>t, <2>4, <2>5 DEF TypeOK, database
<1>7. ASSUME NEW g \in Replica, NEW t \in tokens, Authenticate(g, t) PROVE TypeOK'
  <2>1. t \in Token /\ now \in Nat /\ ReaderKeys(g) \in Seq(Key) BY <1>t, KeysType
  <2>2. (t.kid \in Published(ReaderKeys(g)) /\ InTime(t, Clock(g))) \in BOOLEAN BY DEF InTime
  <2>3. verdict' \in Verdict BY <1>7, <2>1, <2>2 DEF Authenticate, Verdict
  <2>4. UNCHANGED <<database, replica, plan, tokens, bounds>> BY <1>7 DEF Authenticate
  <2>5. QED BY <1>t, <2>3, <2>4 DEF TypeOK, database, bounds
<1>8. ASSUME Replicate PROVE TypeOK'
  <2>1. applied' \in 1..Len(log) BY <1>8, <1>t, KeysType DEF Replicate
  <2>2. QED BY <1>8, <1>t, <2>1 DEF Replicate, TypeOK, bounds
<1>9. ASSUME Tick PROVE TypeOK'
  <2>1. now' \in 0..MaxTime BY <1>9, <1>t DEF Tick
  <2>2. QED BY <1>9, <1>t, <2>1 DEF Tick, TypeOK, database
<1>10. ASSUME NEW k \in DOMAIN Keys, NEW status \in {"retired", "revoked"}, ChangeStatus(k, status) PROVE TypeOK'
  <2>1. changes' \in 0..MaxChanges /\ UNCHANGED <<schema, applied, replica, plan, tokens, verdict, now, stops>>
    BY <1>10, <1>t DEF ChangeStatus
  <2>2. log' \in Seq(Seq(Key)) /\ applied' \in 1..Len(log') BY <1>10, <1>t, <2>1, ChangedKeys
  <2>3. QED BY <1>t, <2>1, <2>2 DEF TypeOK
<1>11. CASE UNCHANGED vars BY <1>11, <1>t DEF vars, TypeOK
<1>12. QED BY <1>1, <1>2, <1>3, <1>4, <1>5, <1>6, <1>7, <1>8, <1>9, <1>10, <1>11 DEF Next, Boot

-----------------------------------------------------------------------------
(* A step either leaves the keys alone, or is one of the two that write. *)
LEMMA KeysStep ==
    ASSUME [Next]_vars
    PROVE  \/ Keys' = Keys
           \/ \E g \in Replica : InsertKey(g)
           \/ \E k \in DOMAIN Keys, status \in {"retired", "revoked"} : ChangeStatus(k, status)
<1>1. ASSUME NEW g \in Replica,
             \/ ReadSchema(g) \/ Migrate(g) \/ CountKeys(g) \/ Stop(g) \/ Sign(g)
             \/ \E t \in tokens : Authenticate(g, t)
      PROVE  Keys' = Keys
  BY <1>1 DEF ReadSchema, Migrate, CountKeys, Stop, Sign, Authenticate, database, Keys
<1>2. CASE Replicate \/ Tick \/ UNCHANGED vars BY <1>2 DEF Replicate, Tick, vars, database, Keys
<1>3. QED BY <1>1, <1>2 DEF Next, Boot

(* How a replica gets to insert or to serve. *)
LEMMA PhaseStep ==
    ASSUME TypeOK, [Next]_vars, NEW g \in Replica
    PROVE  \/ replica'[g] = replica[g]
           \/ replica'[g] \in {"down", "migrate", "count"}
           \/ CountKeys(g) \/ InsertKey(g)
<1>0. replica \in [Replica -> Phase] BY DEF TypeOK
<1>1. ASSUME NEW h \in Replica, ReadSchema(h) \/ Migrate(h) \/ Stop(h)
      PROVE  replica'[g] = replica[g] \/ replica'[g] \in {"down", "migrate", "count"}
  BY <1>0, <1>1 DEF ReadSchema, Migrate, Stop, Becomes
<1>2. ASSUME NEW h \in Replica, CountKeys(h) \/ InsertKey(h), h # g PROVE replica'[g] = replica[g]
  BY <1>0, <1>2 DEF CountKeys, InsertKey, Becomes
<1>3. ASSUME NEW h \in Replica, Sign(h) \/ \E t \in tokens : Authenticate(h, t) PROVE replica' = replica
  BY <1>3 DEF Sign, Authenticate
<1>4. CASE Replicate \/ Tick \/ UNCHANGED vars \/ \E k \in DOMAIN Keys, status \in {"retired", "revoked"} : ChangeStatus(k, status)
  BY <1>4 DEF Replicate, Tick, vars, ChangeStatus
<1>5. QED BY <1>1, <1>2, <1>3, <1>4 DEF Next, Boot

(* No keys, none of them active. *)
LEMMA EmptyTable == ASSUME TypeOK PROVE (Keys # <<>> <=> DOMAIN Keys # {}) /\ (Active(Keys) # {} => Keys # <<>>)
<1>1. Keys \in Seq(Key) BY KeysType
<1>2. QED BY <1>1 DEF Active

(* Keys stay with their makers, and one of them active. *)
LEMMA KeysStayStep == TypeOK /\ KeysStay /\ [Next]_vars => KeysStay'
<1> SUFFICES ASSUME TypeOK, KeysStay, [Next]_vars PROVE KeysStay' OBVIOUS
<1>0. TypeOK' BY TypeStep
<1>1. Keys \in Seq(Key) /\ DOMAIN Keys = 1..Len(Keys) /\ Len(Keys) \in Nat BY KeysType
<1>2. \A k \in DOMAIN Keys' : Keys'[k].kek = Kek[Keys'[k].by]
  <2>1. \A k \in DOMAIN Keys : Keys[k].kek = Kek[Keys[k].by] BY DEF KeysStay
  <2>2. ASSUME NEW g \in Replica, InsertKey(g) PROVE \A k \in DOMAIN Keys' : Keys'[k].kek = Kek[Keys'[k].by]
    <3>1. Keys' = Append(Keys, NewKey(g)) /\ NewKey(g).kek = Kek[NewKey(g).by] BY <2>2, InsertedKeys DEF NewKey
    <3>2. QED BY <1>1, <2>1, <3>1
  <2>3. ASSUME NEW k \in DOMAIN Keys, NEW status \in {"retired", "revoked"}, ChangeStatus(k, status)
        PROVE \A j \in DOMAIN Keys' : Keys'[j].kek = Kek[Keys'[j].by]
    BY <2>1, <2>3, ChangedKeys
  <2>4. QED BY <2>1, <2>2, <2>3, KeysStep
<1>3. Keys' # <<>> => Active(Keys') # {}
  <2>1. Keys # <<>> => Active(Keys) # {} BY DEF KeysStay
  <2>2. ASSUME NEW g \in Replica, InsertKey(g) PROVE Active(Keys') # {}
    <3>1. Keys' = Append(Keys, NewKey(g)) /\ NewKey(g).status = "active" BY <2>2, InsertedKeys DEF NewKey
    <3>2. Len(Keys) + 1 \in DOMAIN Keys' /\ Keys'[Len(Keys) + 1] = NewKey(g) BY <1>1, <3>1
    <3>3. QED BY <3>1, <3>2 DEF Active
  <2>3. ASSUME NEW k \in DOMAIN Keys, NEW status \in {"retired", "revoked"}, ChangeStatus(k, status)
        PROVE Active(Keys') # {}
    <3>1. PICK j \in Active(Keys) : j # k BY <2>3 DEF ChangeStatus
    <3>2. j \in DOMAIN Keys' /\ Keys'[j] = Keys[j] BY <2>3, <3>1, ChangedKeys DEF Active
    <3>3. QED BY <3>1, <3>2 DEF Active
  <2>4. QED BY <2>1, <2>2, <2>3, KeysStep
<1>4. ASSUME NEW g \in Replica, replica'[g] = "serving" PROVE Keys' # <<>>
  <2>1. ASSUME Keys # <<>> PROVE Keys' # <<>>
    <3>1. ASSUME NEW h \in Replica, InsertKey(h) PROVE Keys' # <<>> BY <1>1, <3>1, InsertedKeys
    <3>2. ASSUME NEW k \in DOMAIN Keys, NEW status \in {"retired", "revoked"}, ChangeStatus(k, status) PROVE Keys' # <<>>
      BY <1>1, <3>2, ChangedKeys
    <3>3. QED BY <2>1, <3>1, <3>2, KeysStep
  <2>2. CASE replica'[g] = replica[g] BY <1>4, <2>1, <2>2 DEF KeysStay
  <2>3. CASE CountKeys(g)
    <3>1. replica' = [replica EXCEPT ![g] = IF Active(Keys) = {} THEN "insert" ELSE "serving"]
      BY <2>3 DEF CountKeys, Becomes, KeysCounted
    <3>2. Active(Keys) # {} BY <1>4, <3>1 DEF TypeOK
    <3>3. QED BY <2>1, <3>2, EmptyTable
  <2>4. CASE InsertKey(g) BY <1>1, <2>4, InsertedKeys
  <2>5. QED BY <1>4, <2>2, <2>3, <2>4, PhaseStep
<1>5. ASSUME NEW g \in Replica, replica'[g] = "insert" PROVE \A k \in DOMAIN Keys' : Keys'[k].by # g
  <2>1. CASE replica'[g] = replica[g]
    <3>1. \A k \in DOMAIN Keys : Keys[k].by # g BY <1>5, <2>1 DEF KeysStay
    <3>2. ASSUME NEW h \in Replica, InsertKey(h) PROVE \A k \in DOMAIN Keys' : Keys'[k].by # g
      <4>1. replica'[h] = "serving" BY <3>2 DEF InsertKey, Becomes, TypeOK
      <4>2. h # g BY <1>5, <4>1
      <4>3. Keys' = Append(Keys, NewKey(h)) /\ NewKey(h).by # g BY <3>2, <4>2, InsertedKeys DEF NewKey
      <4>4. QED BY <1>1, <3>1, <4>3
    <3>3. ASSUME NEW k \in DOMAIN Keys, NEW status \in {"retired", "revoked"}, ChangeStatus(k, status)
          PROVE \A j \in DOMAIN Keys' : Keys'[j].by # g
      BY <3>1, <3>3, ChangedKeys
    <3>4. QED BY <3>1, <3>2, <3>3, KeysStep
  <2>2. CASE CountKeys(g)
    <3>1. replica' = [replica EXCEPT ![g] = IF Active(Keys) = {} THEN "insert" ELSE "serving"] /\ Keys' = Keys
      BY <2>2 DEF CountKeys, Becomes, KeysCounted, database, Keys
    <3>2. Active(Keys) = {} BY <1>5, <3>1 DEF TypeOK
    <3>3. DOMAIN Keys' = {} BY <3>1, <3>2, EmptyTable DEF KeysStay
    <3>4. QED BY <3>3
  <2>3. CASE InsertKey(g)
    <3>1. replica'[g] = "serving" BY <2>3 DEF InsertKey, Becomes, TypeOK
    <3>2. QED BY <1>5, <3>1
  <2>4. QED BY <1>5, <2>1, <2>2, <2>3, PhaseStep
<1>6. QED BY <1>2, <1>3, <1>4, <1>5 DEF KeysStay

(* No replica inserts a second key. *)
LEMMA OneKeyStep == TypeOK /\ KeysStay /\ OneKeyPerReplica /\ [Next]_vars => OneKeyPerReplica'
<1> SUFFICES ASSUME TypeOK, KeysStay, OneKeyPerReplica, [Next]_vars PROVE OneKeyPerReplica' OBVIOUS
<1>1. Keys \in Seq(Key) /\ DOMAIN Keys = 1..Len(Keys) /\ Len(Keys) \in Nat BY KeysType
<1>2. ASSUME NEW g \in Replica, InsertKey(g) PROVE OneKeyPerReplica'
  <2>1. replica[g] = "insert" BY <1>2 DEF InsertKey
  <2>2. \A k \in DOMAIN Keys : Keys[k].by # g BY <2>1 DEF KeysStay
  <2>3. Keys' = Append(Keys, NewKey(g)) /\ NewKey(g).by = g BY <1>2, InsertedKeys DEF NewKey
  <2>4. DOMAIN Keys' = 1..(Len(Keys) + 1) /\ Keys'[Len(Keys) + 1].by = g
        /\ \A k \in DOMAIN Keys : Keys'[k] = Keys[k]
    BY <1>1, <2>3
  <2>5. SUFFICES ASSUME NEW j \in DOMAIN Keys', NEW k \in DOMAIN Keys', Keys'[j].by = Keys'[k].by PROVE j = k
    BY DEF OneKeyPerReplica
  <2>6. CASE j \in DOMAIN Keys /\ k \in DOMAIN Keys BY <2>4, <2>5, <2>6 DEF OneKeyPerReplica
  <2>7. CASE j = Len(Keys) + 1 BY <1>1, <2>2, <2>4, <2>5, <2>7
  <2>8. CASE k = Len(Keys) + 1 BY <1>1, <2>2, <2>4, <2>5, <2>8
  <2>9. QED BY <1>1, <2>4, <2>6, <2>7, <2>8
<1>3. ASSUME NEW k \in DOMAIN Keys, NEW status \in {"retired", "revoked"}, ChangeStatus(k, status) PROVE OneKeyPerReplica'
  BY <1>3, ChangedKeys DEF OneKeyPerReplica
<1>4. CASE Keys' = Keys BY <1>4 DEF OneKeyPerReplica
<1>5. QED BY <1>2, <1>3, <1>4, KeysStep

-----------------------------------------------------------------------------
(* What a step does to the tokens and to the last verdict. *)
LEMMA TokensStep ==
    ASSUME [Next]_vars
    PROVE  \/ tokens' = tokens
           \/ \E g \in Replica, k \in DOMAIN Keys :
                tokens' = tokens \cup {[kid |-> k, nbf |-> Clock(g), exp |-> Clock(g) + Life, at |-> now]}
<1>1. ASSUME NEW g \in Replica,
             \/ ReadSchema(g) \/ Migrate(g) \/ CountKeys(g) \/ InsertKey(g) \/ Stop(g)
             \/ \E t \in tokens : Authenticate(g, t)
      PROVE  tokens' = tokens
  BY <1>1 DEF ReadSchema, Migrate, CountKeys, InsertKey, Stop, Authenticate
<1>2. ASSUME NEW g \in Replica, Sign(g)
      PROVE  \E k \in DOMAIN Keys :
                tokens' = tokens \cup {[kid |-> k, nbf |-> Clock(g), exp |-> Clock(g) + Life, at |-> now]}
  BY <1>2 DEF Sign
<1>3. CASE Replicate \/ Tick \/ UNCHANGED vars \/ \E k \in DOMAIN Keys, status \in {"retired", "revoked"} : ChangeStatus(k, status)
  BY <1>3 DEF Replicate, Tick, vars, ChangeStatus
<1>4. QED BY <1>1, <1>2, <1>3 DEF Next, Boot

LEMMA ClockStep == ASSUME TypeOK, [Next]_vars PROVE now' \in Nat /\ now \in Nat /\ now <= now'
<1>0. now \in Nat BY DEF TypeOK
<1>1. ASSUME NEW g \in Replica,
             \/ ReadSchema(g) \/ Migrate(g) \/ CountKeys(g) \/ InsertKey(g) \/ Stop(g) \/ Sign(g)
             \/ \E t \in tokens : Authenticate(g, t)
      PROVE  now' = now
  BY <1>1 DEF ReadSchema, Migrate, CountKeys, InsertKey, Stop, Sign, Authenticate, bounds
<1>3. CASE Tick BY <1>0, <1>3 DEF Tick
<1>4. Tick \/ now' = now
  <2>1. now' = now \/ Tick \/ Replicate \/ UNCHANGED vars \/ \E k \in DOMAIN Keys, status \in {"retired", "revoked"} : ChangeStatus(k, status)
    BY <1>1 DEF Next, Boot
  <2>2. QED BY <2>1 DEF Replicate, vars, ChangeStatus, bounds
<1>5. QED BY <1>0, <1>3, <1>4

(* Tokens keep the dates of their clock. *)
LEMMA DatedStep == TypeOK /\ TokensDated /\ [Next]_vars => TokensDated'
<1> SUFFICES ASSUME TypeOK, TokensDated, [Next]_vars, NEW t \in tokens'
             PROVE  t.at <= now' /\ \E g \in Replica : t.nbf = t.at + Skew[g] /\ t.exp = t.at + Skew[g] + Life
  BY DEF TokensDated
<1>1. now' \in Nat /\ now \in Nat /\ now <= now' BY ClockStep
<1>2. CASE t \in tokens
  <2>1. t.at \in Nat BY <1>2 DEF TypeOK, Token
  <2>2. t.at <= now /\ \E g \in Replica : t.nbf = t.at + Skew[g] /\ t.exp = t.at + Skew[g] + Life
    BY <1>2 DEF TokensDated
  <2>3. QED BY <1>1, <2>1, <2>2
<1>3. CASE t \notin tokens
  <2>1. PICK g \in Replica, k \in DOMAIN Keys :
           tokens' = tokens \cup {[kid |-> k, nbf |-> Clock(g), exp |-> Clock(g) + Life, at |-> now]}
    BY <1>3, TokensStep
  <2>2. t = [kid |-> k, nbf |-> Clock(g), exp |-> Clock(g) + Life, at |-> now] BY <1>3, <2>1
  <2>3. t.at = now /\ t.nbf = t.at + Skew[g] /\ t.exp = t.at + Skew[g] + Life BY <2>2 DEF Clock
  <2>4. QED BY <1>1, <2>3
<1>4. QED BY <1>2, <1>3

-----------------------------------------------------------------------------
LEMMA VerdictStep ==
    ASSUME [Next]_vars
    PROVE  verdict' = verdict \/ \E g \in Replica, t \in tokens : Authenticate(g, t)
<1>1. ASSUME NEW g \in Replica,
             ReadSchema(g) \/ Migrate(g) \/ CountKeys(g) \/ InsertKey(g) \/ Stop(g) \/ Sign(g)
      PROVE  verdict' = verdict
  BY <1>1 DEF ReadSchema, Migrate, CountKeys, InsertKey, Stop, Sign
<1>2. CASE Replicate \/ Tick \/ UNCHANGED vars \/ \E k \in DOMAIN Keys, status \in {"retired", "revoked"} : ChangeStatus(k, status)
  BY <1>2 DEF Replicate, Tick, vars, ChangeStatus
<1>3. QED BY <1>1, <1>2 DEF Next, Boot

(* The times of a token seen by any clock: good within its life, and refused
   once leeway and clocks are used up. *)
LEMMA TokenTimes ==
    ASSUME TypeOK, TokensDated, NEW t \in tokens, NEW g \in Replica
    PROVE  /\ now <= t.at + Life => InTime(t, Clock(g))
           /\ InTime(t, Clock(g)) => now <= t.at + Life + 2 * Leeway
<1>1. PICK h \in Replica : t.at <= now /\ t.nbf = t.at + Skew[h] /\ t.exp = t.at + Skew[h] + Life
  BY DEF TokensDated
<1>2. t.at \in Nat /\ now \in Nat BY DEF TypeOK, Token
<1>3. /\ Skew[g] \in Nat /\ Skew[h] \in Nat /\ Life \in Nat /\ Leeway \in Nat
      /\ Skew[g] <= Skew[h] + Leeway /\ Skew[h] <= Skew[g] + Leeway
  BY KeysAssumption
<1>4. QED BY <1>1, <1>2, <1>3 DEF InTime, Clock

(* What is judged: the key as the reader shows it, and the times. *)
LEMMA Judged ==
    ASSUME TypeOK, TokensDated, NEW g \in Replica, NEW t \in tokens, Authenticate(g, t)
    PROVE  GoodTokensAccepted' /\ StaleTokensRefused'
<1>1. /\ verdict'.token = t /\ verdict'.keys = ReaderKeys(g) /\ verdict'.at = now
      /\ verdict'.ok <=> (t.kid \in Published(ReaderKeys(g)) /\ InTime(t, Clock(g)))
  BY DEF Authenticate
<1>2. now <= t.at + Life => InTime(t, Clock(g)) BY TokenTimes
<1>3. InTime(t, Clock(g)) => now <= t.at + Life + 2 * Leeway BY TokenTimes
<1>4. GoodTokensAccepted' BY <1>1, <1>2 DEF GoodTokensAccepted, Published
<1>5. StaleTokensRefused' BY <1>1, <1>3 DEF StaleTokensRefused, Published
<1>6. QED BY <1>4, <1>5

LEMMA VerdictsStep ==
    TypeOK /\ TokensDated /\ GoodTokensAccepted /\ StaleTokensRefused /\ [Next]_vars
      => GoodTokensAccepted' /\ StaleTokensRefused'
<1> SUFFICES ASSUME TypeOK, TokensDated, GoodTokensAccepted, StaleTokensRefused, [Next]_vars
             PROVE  GoodTokensAccepted' /\ StaleTokensRefused'
  OBVIOUS
<1>1. CASE verdict' = verdict BY <1>1 DEF GoodTokensAccepted, StaleTokensRefused
<1>2. QED BY <1>1, Judged, VerdictStep

-----------------------------------------------------------------------------
(* Theorems. *)

LEMMA InvInit == Init => KeysInv
<1> SUFFICES ASSUME Init PROVE KeysInv OBVIOUS
<1>1. TypeOK BY TypeInit
<1>2. Keys = <<>> BY DEF Init, Keys
<1>3. DOMAIN Keys = {} BY <1>2
<1>4. \A g \in Replica : replica[g] = "down" BY DEF Init
<1>5. KeysStay BY <1>2, <1>3, <1>4 DEF KeysStay
<1>6. OneKeyPerReplica BY <1>3 DEF OneKeyPerReplica
<1>7. TokensDated /\ GoodTokensAccepted /\ StaleTokensRefused
  BY DEF Init, TokensDated, GoodTokensAccepted, StaleTokensRefused
<1>8. QED BY <1>1, <1>5, <1>6, <1>7 DEF KeysInv

(* The inductive invariant: keys stay with their makers and one of them
   active, and tokens are dated by one of the clocks. *)
THEOREM KeysInvariance == Spec => []KeysInv
<1>1. Init => KeysInv BY InvInit
<1>2. KeysInv /\ [Next]_vars => KeysInv'
  BY TypeStep, KeysStayStep, OneKeyStep, DatedStep, VerdictsStep DEF KeysInv
<1>3. QED BY <1>1, <1>2, PTL DEF Spec

(* Every variable keeps its type; replicas past the migrations have them
   all. *)
THEOREM TypeCorrect == Spec => []TypeOK
<1>1. KeysInv => TypeOK BY DEF KeysInv
<1>2. QED BY <1>1, KeysInvariance, PTL

(* A token in its life whose key is shown is accepted, on any replica
   (services/mod.rs:125). *)
THEOREM GoodTokens == Spec => []GoodTokensAccepted
<1>1. KeysInv => GoodTokensAccepted BY DEF KeysInv
<1>2. QED BY <1>1, KeysInvariance, PTL

(* An accepted token is not older than leeway and clocks allow, and its key
   not revoked as far as the reader knows (auth.rs:40). *)
THEOREM StaleTokens == Spec => []StaleTokensRefused
<1>1. KeysInv => StaleTokensRefused BY DEF KeysInv
<1>2. QED BY <1>1, KeysInvariance, PTL

(* However often replicas start, each adds one key at most
   (services/mod.rs:512). *)
THEOREM KeysDoNotPileUp == Spec => []OneKeyPerReplica
<1>1. KeysInv => OneKeyPerReplica BY DEF KeysInv
<1>2. QED BY <1>1, KeysInvariance, PTL

(* A serving replica can sign unless the newest key is of another
   key-encryption key (main.rs:31). *)
THEOREM ServingReplicasSign == Spec => []ServingCanSign
<1>1. KeysInv => ServingCanSign
  <2> SUFFICES ASSUME KeysInv, NEW g \in Replica, replica[g] = "serving"
               PROVE  /\ Active(Keys) # {}
                      /\ CanSign(g) \/ \E k \in Active(Keys) : Kek[Keys[k].by] # Kek[g]
    BY DEF ServingCanSign
  <2>1. TypeOK /\ KeysStay BY DEF KeysInv
  <2>2. Active(Keys) # {} BY <2>1 DEF KeysStay
  <2>3. Active(Keys) \subseteq 1..Len(Keys) /\ Len(Keys) \in Nat BY <2>1, KeysType
  <2>4. PICK m \in Active(Keys) : \A j \in Active(Keys) : j <= m
    <3> DEFINE A == Active(Keys)
    <3> HIDE DEF A
    <3>1. A \subseteq 1..Len(Keys) /\ A # {} BY <2>2, <2>3 DEF A
    <3>2. \E m \in A : \A j \in A : j <= m BY <2>3, <3>1, LastPosition
    <3>3. QED BY <3>2 DEF A
  <2>5. m \in DOMAIN Keys /\ Newest(m) BY <2>4 DEF Active, Newest
  <2>6. Keys[m].kek = Kek[Keys[m].by] BY <2>1, <2>5 DEF KeysStay
  <2>7. CASE Keys[m].kek = Kek[g] BY <2>2, <2>5, <2>7 DEF CanSign, Decrypts
  <2>8. CASE Keys[m].kek # Kek[g] BY <2>2, <2>4, <2>6, <2>8
  <2>9. QED BY <2>7, <2>8
<1>2. QED BY <1>1, KeysInvariance, PTL
=============================================================================
