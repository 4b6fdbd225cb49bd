------------------------- MODULE VerificationProofs -------------------------
(***************************************************************************)
(* Proofs about Verification, for any number of users, tokens and requests *)
(* in progress, any limits and any clock.                                  *)
(***************************************************************************)
EXTENDS Verification, FiniteSetTheorems, TLAPS

(* Type correctness: every variable keeps its type, and a request is about a
   user or a token as its state says. *)
LEMMA TypeInit == Init => TypeOK
BY VerificationAssumption DEF Init, TypeOK, PC, Resending, Verifying

LEMMA TypeStep == TypeOK /\ [Next]_vars => TypeOK'
<1> SUFFICES ASSUME TypeOK, [Next]_vars PROVE TypeOK' OBVIOUS
<1> USE VerificationAssumption DEF TypeOK, PC, Resending, Verifying, Goto, rows, locks, local
<1>1. ASSUME NEW u \in User, NEW t \in Token, NEW late \in 0..MaxTime, SignUp(u, t, late)
      PROVE  TypeOK'
  BY <1>1 DEF SignUp, InsertToken
<1>2. ASSUME NEW c \in Client, NEW u \in User, LookUpUser(c, u)
      PROVE  TypeOK'
  BY <1>2 DEF LookUpUser
<1>3. ASSUME NEW c \in Client, CountTokens(c) PROVE TypeOK'
  BY <1>3 DEF CountTokens
<1>4. ASSUME NEW c \in Client, NEW t \in Token, InsertTokenAndEvent(c, t)
      PROVE  TypeOK'
  BY <1>4 DEF InsertTokenAndEvent, InsertToken
<1>5. ASSUME NEW c \in Client, NEW t \in Token, FindToken(c, t)
      PROVE  TypeOK'
  BY <1>5 DEF FindToken
<1>6. ASSUME NEW c \in Client, ConsumeToken(c) PROVE TypeOK'
  BY <1>6 DEF ConsumeToken
<1>7. ASSUME NEW c \in Client, MarkEmailVerified(c) PROVE TypeOK'
  BY <1>7 DEF MarkEmailVerified
<1>8. ASSUME NEW c \in Client, CommitVerification(c) PROVE TypeOK'
  <2>1. target[c] \in Token BY <1>8 DEF CommitVerification
  <2>2. /\ status' \in [User -> {None, "pending", "active"}]
        /\ consumed' \subseteq Token
    BY <1>8, <2>1 DEF CommitVerification
  <2>3. verified' \in [Token -> Nat]
    <3>1. verified' = [verified EXCEPT ![target[c]] = verified[target[c]] + 1]
      BY <1>8 DEF CommitVerification
    <3>2. verified[target[c]] + 1 \in Nat BY <2>1
    <3>3. QED BY <3>1, <3>2
  <2>4. /\ tokenLock' \in [Token -> Client \cup {None}]
        /\ userLock' \in [User -> Client \cup {None}]
    BY <1>8 DEF CommitVerification, Release
  <2>5. QED BY <1>8, <2>1, <2>2, <2>3, <2>4 DEF CommitVerification
<1>9. ASSUME NEW c \in Client, Fail(c) PROVE TypeOK'
  BY <1>9 DEF Fail, Release
<1>10. CASE Tick
  BY <1>10 DEF Tick
<1>11. CASE UNCHANGED vars
  BY <1>11 DEF vars
<1>12. QED
  BY <1>1, <1>2, <1>3, <1>4, <1>5, <1>6, <1>7, <1>8, <1>9, <1>10, <1>11
  DEF Next, Resend, Verify

(* The state of the service and of its requests keeps its type. *)
THEOREM TypeCorrect == Spec => []TypeOK
<1>1. QED BY TypeInit, TypeStep, PTL DEF Spec

-----------------------------------------------------------------------------
(* The invariants of verify_email: what a transaction has consumed and not
   committed is locked, and what is consumed was verified once. *)
LEMMA TokensInit ==
    Init => /\ TokensBelongToUsers /\ LockedUntilCommit
            /\ VerifiedIffConsumed /\ ActiveIffTokenConsumed
BY VerificationAssumption
DEF Init, TokensBelongToUsers, LockedUntilCommit, VerifiedIffConsumed,
    ActiveIffTokenConsumed, Resending, Verifying

LEMMA TokensStep ==
    VerificationInv /\ [Next]_vars =>
        (TokensBelongToUsers /\ LockedUntilCommit /\ VerifiedIffConsumed /\ ActiveIffTokenConsumed)'
<1> SUFFICES ASSUME VerificationInv, [Next]_vars
             PROVE  (/\ TokensBelongToUsers /\ LockedUntilCommit
                     /\ VerifiedIffConsumed /\ ActiveIffTokenConsumed)'
  OBVIOUS
<1>0. TypeOK /\ TypeOK' BY TypeStep DEF VerificationInv
<1> DEFINE Rest == /\ TokensBelongToUsers
                   /\ LockedUntilCommit
                   /\ VerifiedIffConsumed
                   /\ ActiveIffTokenConsumed
<1> USE VerificationAssumption, <1>0
    DEF VerificationInv, TypeOK, TokensBelongToUsers, LockedUntilCommit, VerifiedIffConsumed,
        ActiveIffTokenConsumed, PC, Resending, Verifying, Goto, rows, locks, local
<1>1. ASSUME NEW u \in User, NEW t \in Token, NEW late \in 0..MaxTime, SignUp(u, t, late)
      PROVE  Rest'
  <2>1. t \notin consumed /\ \A c \in Client : pc[c] \in Verifying => target[c] # t
    BY <1>1 DEF SignUp, InsertToken
  <2>2. /\ owner' = [owner EXCEPT ![t] = u]
        /\ status' = [status EXCEPT ![u] = "pending"]
        /\ status[u] = None
        /\ UNCHANGED <<consumed, tokenLock, pc, target, verified>>
    BY <1>1 DEF SignUp, InsertToken
  <2>3. TokensBelongToUsers' BY <2>1, <2>2
  <2>4. LockedUntilCommit' /\ VerifiedIffConsumed' BY <2>2
  <2>5. ActiveIffTokenConsumed'
    <3>1. \A s \in consumed : owner'[s] = owner[s] BY <2>1, <2>2
    <3>2. \A s \in consumed : owner[s] # u BY <2>2
    <3>3. QED BY <2>2, <3>1, <3>2
  <2>6. QED BY <2>3, <2>4, <2>5
<1>2. ASSUME NEW c \in Client, NEW u \in User, LookUpUser(c, u)
      PROVE  Rest'
  BY <1>2 DEF LookUpUser
<1>3. ASSUME NEW c \in Client, CountTokens(c) PROVE Rest'
  BY <1>3 DEF CountTokens
<1>4. ASSUME NEW c \in Client, NEW t \in Token, InsertTokenAndEvent(c, t)
      PROVE  Rest'
  <2>1. t \notin consumed BY <1>4 DEF InsertTokenAndEvent, InsertToken
  <2>2. /\ owner' = [owner EXCEPT ![t] = target[c]]
        /\ pc' = [pc EXCEPT ![c] = "idle"]
        /\ target' = [target EXCEPT ![c] = None]
        /\ UNCHANGED <<status, consumed, tokenLock, verified>>
    BY <1>4 DEF InsertTokenAndEvent, InsertToken
  <2>3. \A d \in Client : pc'[d] # "idle" =>
            d # c /\ pc[d] = pc'[d] /\ target'[d] = target[d]
            /\ (pc[d] \in Verifying => target[d] # t)
    BY <1>4, <2>2 DEF InsertTokenAndEvent, InsertToken
  <2>4. TokensBelongToUsers' BY <1>4, <2>1, <2>2, <2>3 DEF InsertTokenAndEvent
  <2>5. LockedUntilCommit' /\ VerifiedIffConsumed' BY <2>2, <2>3
  <2>6. ActiveIffTokenConsumed' BY <2>1, <2>2
  <2>7. QED BY <2>4, <2>5, <2>6
<1>5. ASSUME NEW c \in Client, NEW t \in Token, FindToken(c, t)
      PROVE  Rest'
  BY <1>5 DEF FindToken
<1>6. ASSUME NEW c \in Client, ConsumeToken(c) PROVE Rest'
  BY <1>6 DEF ConsumeToken
<1>7. ASSUME NEW c \in Client, MarkEmailVerified(c) PROVE Rest'
  BY <1>7 DEF MarkEmailVerified
<1>8. ASSUME NEW c \in Client, CommitVerification(c) PROVE Rest'
  <2> DEFINE t == target[c]
  <2>1. /\ t \in Token /\ t \notin consumed
        /\ owner[t] \in User /\ status[owner[t]] # None
        /\ tokenLock[t] = c
    BY <1>8 DEF CommitVerification
  <2>2. /\ consumed' = consumed \cup {t}
        /\ status' = [status EXCEPT ![owner[t]] = "active"]
        /\ verified' = [verified EXCEPT ![t] = verified[t] + 1]
        /\ pc' = [pc EXCEPT ![c] = "idle"]
        /\ target' = [target EXCEPT ![c] = None]
        /\ UNCHANGED owner
    BY <1>8 DEF CommitVerification
  <2> HIDE DEF t
  <2>3. TokensBelongToUsers' BY <2>1, <2>2
  <2>4. LockedUntilCommit'
    <3>1. SUFFICES ASSUME NEW d \in Client, pc'[d] \in {"consumed", "marked"}
                   PROVE  tokenLock'[target'[d]] = d /\ target'[d] \notin consumed'
      OBVIOUS
    <3>2. d # c /\ pc'[d] = pc[d] /\ target'[d] = target[d] BY <2>2, <3>1
    <3>3. /\ target[d] \in Token /\ tokenLock[target[d]] = d
          /\ target[d] \notin consumed /\ target[d] # t
      BY <2>1, <3>1, <3>2
    <3>4. tokenLock'[target[d]] = d BY <1>8, <3>2, <3>3 DEF CommitVerification, Release
    <3>5. QED BY <2>2, <3>2, <3>3, <3>4
  <2>5. VerifiedIffConsumed' BY <2>1, <2>2
  <2>6. ActiveIffTokenConsumed' BY <2>1, <2>2
  <2>7. QED BY <2>3, <2>4, <2>5, <2>6
<1>9. ASSUME NEW c \in Client, Fail(c) PROVE Rest'
  BY <1>9 DEF Fail, Release
<1>10. CASE Tick
  BY <1>10 DEF Tick
<1>11. CASE UNCHANGED vars
  BY <1>11 DEF vars
<1>12. QED
  BY <1>1, <1>2, <1>3, <1>4, <1>5, <1>6, <1>7, <1>8, <1>9, <1>10, <1>11
  DEF Next, Resend, Verify

-----------------------------------------------------------------------------
(* The rate limit. *)

(* Tokens and requests are finitely many, so they can be counted. *)
LEMMA CountsAreNat ==
    ASSUME NEW S, S \subseteq Token \/ S \subseteq Client
    PROVE  IsFiniteSet(S) /\ Cardinality(S) \in Nat
BY VerificationAssumption, FS_Subset, FS_CardinalityType

LEMMA LimitInit == Init => LimitWithCounted
<1> SUFFICES ASSUME Init, NEW u \in User
             PROVE  Cardinality(Recent(u)) + Cardinality(Counted(u))
                        <= MaxTokensPerHour + Cardinality(Client) - 1
  BY DEF LimitWithCounted
<1>1. Recent(u) = {} /\ Counted(u) = {} BY VerificationAssumption DEF Init, Recent, Counted
<1>2. Cardinality(Client) \in Nat /\ Cardinality(Client) # 0
  BY VerificationAssumption, FS_CardinalityType, FS_EmptySet
<1>3. QED BY <1>1, <1>2, VerificationAssumption, FS_EmptySet

(* A step that adds neither a token nor a request past the check. *)
LEMMA LimitKept ==
    ASSUME LimitWithCounted, NEW u \in User,
           (Recent(u))' \subseteq Recent(u), (Counted(u))' \subseteq Counted(u)
    PROVE  (Cardinality(Recent(u)) + Cardinality(Counted(u))
                <= MaxTokensPerHour + Cardinality(Client) - 1)'
<1>1. /\ IsFiniteSet(Recent(u)) /\ IsFiniteSet(Counted(u))
      /\ Cardinality(Recent(u)) \in Nat /\ Cardinality(Counted(u)) \in Nat
  BY CountsAreNat DEF Recent, Counted
<1>2. Cardinality(Client) \in Nat BY CountsAreNat
<1>3. /\ Cardinality((Recent(u))') <= Cardinality(Recent(u))
      /\ Cardinality((Recent(u))') \in Nat
      /\ Cardinality((Counted(u))') <= Cardinality(Counted(u))
      /\ Cardinality((Counted(u))') \in Nat
  BY <1>1, FS_Subset, FS_CardinalityType
<1>4. QED BY <1>1, <1>2, <1>3, VerificationAssumption DEF LimitWithCounted

LEMMA LimitStep == VerificationInv /\ [Next]_vars => LimitWithCounted'
<1> SUFFICES ASSUME VerificationInv, [Next]_vars, NEW u \in User
             PROVE  (Cardinality(Recent(u)) + Cardinality(Counted(u))
                         <= MaxTokensPerHour + Cardinality(Client) - 1)'
  BY DEF LimitWithCounted
<1> DEFINE Grows == ~ ((Recent(u))' \subseteq Recent(u) /\ (Counted(u))' \subseteq Counted(u))
<1>0. /\ TypeOK /\ TokensBelongToUsers /\ LimitWithCounted
      /\ IsFiniteSet(Recent(u)) /\ Cardinality(Recent(u)) \in Nat
      /\ IsFiniteSet(Counted(u)) /\ Cardinality(Counted(u)) \in Nat
      /\ Cardinality(Client) \in Nat
      /\ MaxTokensPerHour \in Nat \ {0} /\ Hour \in Nat \ {0}
  BY CountsAreNat, VerificationAssumption DEF VerificationInv, Recent, Counted
(* The first token of u: nothing was counted for u before. *)
<1>1. ASSUME NEW v \in User, NEW t \in Token, NEW late \in 0..MaxTime, SignUp(v, t, late), Grows
      PROVE  (Cardinality(Recent(u)) + Cardinality(Counted(u))
                  <= MaxTokensPerHour + Cardinality(Client) - 1)'
  <2>1. /\ status[v] = None
        /\ owner' = [owner EXCEPT ![t] = v]
        /\ created' = [created EXCEPT ![t] = now]
        /\ UNCHANGED <<pc, target, now>>
    BY <1>1 DEF SignUp, InsertToken, local
  <2>2. v = u BY <1>0, <1>1, <2>1 DEF Recent, Counted, TypeOK
  <2>3. Recent(u) = {} BY <1>0, <2>1, <2>2, VerificationAssumption
    DEF Recent, TypeOK, TokensBelongToUsers
  <2>4. (Counted(u))' = {} BY <1>0, <2>1, <2>2 DEF Counted, TokensBelongToUsers, Resending
  <2>5. (Recent(u))' \subseteq {t} BY <1>0, <2>1, <2>3 DEF Recent, TypeOK
  <2>6. Cardinality((Recent(u))') <= 1 /\ Cardinality((Recent(u))') \in Nat
    <3>1. IsFiniteSet({t}) /\ Cardinality({t}) = 1 BY FS_Singleton
    <3>2. QED BY <2>5, <3>1, FS_Subset, FS_CardinalityType
  <2>7. Cardinality(Client) # 0
    BY VerificationAssumption, FS_EmptySet
  <2>8. QED BY <1>0, <2>4, <2>6, <2>7, FS_EmptySet
(* The check: what it counted is below the limit, and everybody else may be
   past it. *)
<1>2. ASSUME NEW c \in Client, CountTokens(c), Grows
      PROVE  (Cardinality(Recent(u)) + Cardinality(Counted(u))
                  <= MaxTokensPerHour + Cardinality(Client) - 1)'
  <2>1. (Recent(u))' = Recent(u) BY <1>2 DEF CountTokens, Recent, rows
  <2>2. pc[c] = "looked" /\ BelowLimit(target[c]) /\ target[c] = u
    BY <1>0, <1>2, <2>1 DEF CountTokens, Counted, Goto, TypeOK
  <2>3. Cardinality(Recent(u)) < MaxTokensPerHour BY <2>2 DEF BelowLimit
  <2>4. (Counted(u))' \subseteq Client BY DEF Counted
  <2>5. Cardinality((Counted(u))') <= Cardinality(Client) /\ Cardinality((Counted(u))') \in Nat
    BY <2>4, VerificationAssumption, FS_Subset, FS_CardinalityType
  <2>6. QED BY <1>0, <2>1, <2>3, <2>5
(* The insertion: the request stops counting when its token starts to. *)
<1>3. ASSUME NEW c \in Client, NEW t \in Token, InsertTokenAndEvent(c, t), Grows
      PROVE  (Cardinality(Recent(u)) + Cardinality(Counted(u))
                  <= MaxTokensPerHour + Cardinality(Client) - 1)'
  <2>1. /\ pc[c] = "counted"
        /\ owner' = [owner EXCEPT ![t] = target[c]]
        /\ created' = [created EXCEPT ![t] = now]
        /\ pc' = [pc EXCEPT ![c] = "idle"]
        /\ target' = [target EXCEPT ![c] = None]
        /\ UNCHANGED now
    BY <1>3 DEF InsertTokenAndEvent, InsertToken, Goto
  <2>2. (Counted(u))' \subseteq Counted(u) \ {c} BY <1>0, <2>1 DEF Counted, TypeOK
  <2>3. (Recent(u))' \subseteq Recent(u) \cup {t} BY <1>0, <2>1 DEF Recent, TypeOK
  <2>4. target[c] = u BY <1>0, <1>3, <2>1, <2>2 DEF Recent, TypeOK
  <2>5. c \in Counted(u) BY <2>1, <2>4 DEF Counted
  <2>6. /\ Cardinality((Counted(u))') <= Cardinality(Counted(u)) - 1
        /\ Cardinality((Counted(u))') \in Nat
    <3>1. IsFiniteSet(Counted(u) \ {c}) /\ Cardinality(Counted(u) \ {c}) = Cardinality(Counted(u)) - 1
      BY <1>0, <2>5, FS_RemoveElement
    <3>2. QED BY <2>2, <3>1, FS_Subset, FS_CardinalityType
  <2>7. /\ Cardinality((Recent(u))') <= Cardinality(Recent(u)) + 1
        /\ Cardinality((Recent(u))') \in Nat
    <3>1. /\ IsFiniteSet(Recent(u) \cup {t})
          /\ Cardinality(Recent(u) \cup {t}) <= Cardinality(Recent(u)) + 1
          /\ Cardinality(Recent(u) \cup {t}) \in Nat
      <4>1. /\ IsFiniteSet(Recent(u) \cup {t})
            /\ Cardinality(Recent(u) \cup {t}) \in {Cardinality(Recent(u)), Cardinality(Recent(u)) + 1}
        BY <1>0, FS_AddElement
      <4>2. QED BY <1>0, <4>1
    <3>2. /\ IsFiniteSet((Recent(u))')
          /\ Cardinality((Recent(u))') <= Cardinality(Recent(u) \cup {t})
      BY <2>3, <3>1, FS_Subset
    <3>3. QED BY <1>0, <3>1, <3>2, FS_CardinalityType
  <2>8. QED BY <1>0, <2>6, <2>7 DEF LimitWithCounted
(* No other step adds to either set. *)
<1>4. ASSUME ~ \E v \in User, t \in Token, late \in 0..MaxTime : SignUp(v, t, late),
             ~ \E c \in Client : CountTokens(c),
             ~ \E c \in Client, t \in Token : InsertTokenAndEvent(c, t)
      PROVE  ~ Grows
  <2>1. ASSUME NEW c \in Client, NEW v \in User, LookUpUser(c, v) PROVE ~ Grows
    BY <1>0, <2>1 DEF LookUpUser, Goto, Recent, Counted, rows, TypeOK
  <2>2. ASSUME NEW c \in Client, NEW t \in Token, FindToken(c, t) PROVE ~ Grows
    BY <1>0, <2>2 DEF FindToken, Goto, Recent, Counted, rows, TypeOK
  <2>3. ASSUME NEW c \in Client, ConsumeToken(c) PROVE ~ Grows
    BY <1>0, <2>3 DEF ConsumeToken, Goto, Recent, Counted, rows, TypeOK
  <2>4. ASSUME NEW c \in Client, MarkEmailVerified(c) PROVE ~ Grows
    BY <1>0, <2>4 DEF MarkEmailVerified, Goto, Recent, Counted, rows, TypeOK
  <2>5. ASSUME NEW c \in Client, CommitVerification(c) PROVE ~ Grows
    BY <1>0, <2>5 DEF CommitVerification, Goto, Recent, Counted, TypeOK
  <2>6. ASSUME NEW c \in Client, Fail(c) PROVE ~ Grows
    BY <1>0, <2>6 DEF Fail, Goto, Recent, Counted, rows, TypeOK
  <2>7. CASE Tick
    BY <1>0, <2>7 DEF Tick, Recent, Counted, rows, local, TypeOK
  <2>8. CASE UNCHANGED vars
    BY <2>8 DEF vars, Recent, Counted, rows, local
  <2>9. QED
    BY <1>4, <2>1, <2>2, <2>3, <2>4, <2>5, <2>6, <2>7, <2>8 DEF Next, Resend, Verify
<1>5. CASE Grows BY <1>1, <1>2, <1>3, <1>4, <1>5
<1>6. CASE ~ Grows BY <1>0, <1>6, LimitKept
<1>7. QED BY <1>5, <1>6

-----------------------------------------------------------------------------
(* The conjunction of all of it is inductive. *)
THEOREM Invariance == Spec => []VerificationInv
<1>1. Init => VerificationInv
  BY TypeInit, TokensInit, LimitInit DEF VerificationInv
<1>2. VerificationInv /\ [Next]_vars => VerificationInv'
  BY TypeStep, TokensStep, LimitStep DEF VerificationInv
<1>3. QED BY <1>1, <1>2, PTL DEF Spec

(* However many requests race with the same link, one of them is answered with
   success at most. *)
THEOREM OneVerificationPerToken == Spec => []VerifiedAtMostOnce
<1>1. VerificationInv => VerifiedAtMostOnce
  BY DEF VerificationInv, VerifiedIffConsumed, VerifiedAtMostOnce
<1>2. QED BY Invariance, <1>1, PTL

(* verify_email is atomic: the token is consumed and its user activated, or
   neither, at whatever statement the request fails. *)
THEOREM VerificationIsAtomic == Spec => []ActiveIffTokenConsumed
<1>1. VerificationInv => ActiveIffTokenConsumed BY DEF VerificationInv
<1>2. QED BY Invariance, <1>1, PTL

(* resend_verification exceeds its limit by less than the number of requests
   in progress, and so keeps it when they do not overlap. *)
THEOREM RateLimitHoldsUpToRaces == Spec => []RateLimitUpToRaces
<1>1. VerificationInv => RateLimitUpToRaces
  <2>1. ASSUME VerificationInv, NEW u \in User
        PROVE  Cardinality(Recent(u)) <= MaxTokensPerHour + Cardinality(Client) - 1
    <3>1. /\ Cardinality(Recent(u)) \in Nat /\ Cardinality(Counted(u)) \in Nat
          /\ Cardinality(Client) \in Nat
      BY CountsAreNat DEF Recent, Counted
    <3>2. QED BY <2>1, <3>1, VerificationAssumption DEF VerificationInv, LimitWithCounted
  <2>2. QED BY <2>1 DEF RateLimitUpToRaces
<1>2. QED BY Invariance, <1>1, PTL

-----------------------------------------------------------------------------
(* Tokens of a user who is active. *)
LEMMA MailsStep ==
    ASSUME VerificationInv, [Next]_vars, NEW u \in User, status[u] = "active"
    PROVE  Cardinality(TokensOf(u))' + Cardinality(ResendsOf(u))'
               <= Cardinality(TokensOf(u)) + Cardinality(ResendsOf(u))
<1> DEFINE Grows == ~ ((TokensOf(u))' \subseteq TokensOf(u) /\ (ResendsOf(u))' \subseteq ResendsOf(u))
<1>0. /\ TypeOK
      /\ IsFiniteSet(TokensOf(u)) /\ Cardinality(TokensOf(u)) \in Nat
      /\ IsFiniteSet(ResendsOf(u)) /\ Cardinality(ResendsOf(u)) \in Nat
  BY CountsAreNat DEF VerificationInv, TokensOf, ResendsOf
<1>n. None \notin User \cup Token /\ None # "active" BY VerificationAssumption
(* The insertion: a request that saw the user pending becomes a token. *)
<1>1. ASSUME NEW c \in Client, NEW t \in Token, InsertTokenAndEvent(c, t), Grows
      PROVE  Cardinality(TokensOf(u))' + Cardinality(ResendsOf(u))'
                 <= Cardinality(TokensOf(u)) + Cardinality(ResendsOf(u))
  <2>1. /\ pc[c] = "counted"
        /\ owner' = [owner EXCEPT ![t] = target[c]]
        /\ pc' = [pc EXCEPT ![c] = "idle"]
        /\ target' = [target EXCEPT ![c] = None]
    BY <1>1 DEF InsertTokenAndEvent, InsertToken, Goto
  <2>2. (ResendsOf(u))' \subseteq ResendsOf(u) \ {c}
    BY <1>0, <2>1 DEF ResendsOf, Resending, TypeOK
  <2>3. (TokensOf(u))' \subseteq TokensOf(u) \cup {t} BY <1>0, <2>1 DEF TokensOf, TypeOK
  <2>4. target[c] = u BY <1>0, <1>1, <2>1, <2>2 DEF TokensOf, TypeOK
  <2>5. c \in ResendsOf(u) BY <2>1, <2>4 DEF ResendsOf, Resending
  <2>6. /\ Cardinality((ResendsOf(u))') <= Cardinality(ResendsOf(u)) - 1
        /\ Cardinality((ResendsOf(u))') \in Nat
    <3>1. /\ IsFiniteSet(ResendsOf(u) \ {c})
          /\ Cardinality(ResendsOf(u) \ {c}) = Cardinality(ResendsOf(u)) - 1
      BY <1>0, <2>5, FS_RemoveElement
    <3>2. QED BY <2>2, <3>1, FS_Subset, FS_CardinalityType
  <2>7. /\ Cardinality((TokensOf(u))') <= Cardinality(TokensOf(u)) + 1
        /\ Cardinality((TokensOf(u))') \in Nat
    <3>1. /\ IsFiniteSet(TokensOf(u) \cup {t})
          /\ Cardinality(TokensOf(u) \cup {t}) \in {Cardinality(TokensOf(u)), Cardinality(TokensOf(u)) + 1}
      BY <1>0, FS_AddElement
    <3>2. /\ IsFiniteSet((TokensOf(u))')
          /\ Cardinality((TokensOf(u))') <= Cardinality(TokensOf(u) \cup {t})
      BY <2>3, <3>1, FS_Subset
    <3>3. QED BY <1>0, <3>1, <3>2, FS_CardinalityType
  <2>8. QED BY <1>0, <2>6, <2>7
(* No other step adds to either set: a request that looks the user up now
   finds it active. *)
<1>2. ASSUME ~ \E c \in Client, t \in Token : InsertTokenAndEvent(c, t)
      PROVE  ~ Grows
  <2>0. ASSUME NEW v \in User, NEW t \in Token, NEW late \in 0..MaxTime, SignUp(v, t, late) PROVE ~ Grows
    BY <1>0, <1>n, <2>0 DEF SignUp, InsertToken, TokensOf, ResendsOf, local, TypeOK
  <2>1. ASSUME NEW c \in Client, NEW v \in User, LookUpUser(c, v) PROVE ~ Grows
    BY <1>0, <2>1 DEF LookUpUser, Goto, TokensOf, ResendsOf, rows, TypeOK
  <2>2. ASSUME NEW c \in Client, NEW t \in Token, FindToken(c, t) PROVE ~ Grows
    BY <1>0, <2>2 DEF FindToken, Goto, TokensOf, ResendsOf, Resending, rows, TypeOK
  <2>3. ASSUME NEW c \in Client, CountTokens(c) PROVE ~ Grows
    BY <1>0, <2>3 DEF CountTokens, Goto, TokensOf, ResendsOf, Resending, rows, TypeOK
  <2>4. ASSUME NEW c \in Client, ConsumeToken(c) PROVE ~ Grows
    BY <1>0, <2>4 DEF ConsumeToken, Goto, TokensOf, ResendsOf, Resending, rows, TypeOK
  <2>5. ASSUME NEW c \in Client, MarkEmailVerified(c) PROVE ~ Grows
    BY <1>0, <2>5 DEF MarkEmailVerified, Goto, TokensOf, ResendsOf, Resending, rows, TypeOK
  <2>6. ASSUME NEW c \in Client, CommitVerification(c) PROVE ~ Grows
    BY <1>0, <2>6 DEF CommitVerification, Goto, TokensOf, ResendsOf, Resending, TypeOK
  <2>7. ASSUME NEW c \in Client, Fail(c) PROVE ~ Grows
    BY <1>0, <2>7 DEF Fail, Goto, TokensOf, ResendsOf, Resending, rows, TypeOK
  <2>8. CASE Tick \/ UNCHANGED vars
    BY <2>8 DEF Tick, vars, TokensOf, ResendsOf, rows, local
  <2>9. QED
    BY <1>2, <2>0, <2>1, <2>2, <2>3, <2>4, <2>5, <2>6, <2>7, <2>8 DEF Next, Resend, Verify
<1>3. CASE ~ Grows
  <2>1. /\ Cardinality((TokensOf(u))') <= Cardinality(TokensOf(u))
        /\ Cardinality((TokensOf(u))') \in Nat
        /\ Cardinality((ResendsOf(u))') <= Cardinality(ResendsOf(u))
        /\ Cardinality((ResendsOf(u))') \in Nat
    BY <1>0, <1>3, FS_Subset, FS_CardinalityType
  <2>2. QED BY <1>0, <2>1
<1>4. QED BY <1>1, <1>2, <1>3

(* Whoever has clicked a link gets no further mail than those that were already
   being asked for at that moment, for any number of requests and tokens. *)
THEOREM MailsEndWithActivation == Spec => NoMailsOnceActive
<1>1. VerificationInv /\ [Next]_vars
        => [\A u \in User : status[u] = "active" =>
              Cardinality(TokensOf(u))' + Cardinality(ResendsOf(u))'
                  <= Cardinality(TokensOf(u)) + Cardinality(ResendsOf(u))]_vars
  BY MailsStep
<1>2. QED BY <1>1, Invariance, PTL DEF Spec, NoMailsOnceActive

-----------------------------------------------------------------------------
(* Who holds a row lock. *)
LEMMA LocksStep ==
    ASSUME VerificationInv, LocksOfTransactions, [Next]_vars
    PROVE  LocksOfTransactions'
<1>0. TypeOK /\ TypeOK' BY TypeStep DEF VerificationInv
<1>1. /\ \A t \in Token, c \in Client :
           tokenLock[t] = c => pc[c] \in {"consumed", "marked"} /\ target[c] = t
      /\ \A u \in User, c \in Client :
           userLock[u] = c => pc[c] = "marked" /\ owner[target[c]] = u
      /\ \A c \in Client : pc[c] \in Verifying => target[c] \in Token /\ owner[target[c]] # None
  BY <1>0 DEF LocksOfTransactions, VerificationInv, TokensBelongToUsers, TypeOK
<1>t. /\ pc \in [Client -> PC] /\ target \in [Client -> User \cup Token \cup {None}]
      /\ tokenLock \in [Token -> Client \cup {None}] /\ userLock \in [User -> Client \cup {None}]
      /\ owner \in [Token -> User \cup {None}]
  BY <1>0 DEF TypeOK
<1>n. None \notin Client BY VerificationAssumption
<1> USE DEF LocksOfTransactions, Verifying, Goto, rows, locks, local
(* Rows that are inserted are of nobody's transaction. *)
<1>2. ASSUME UNCHANGED locks,
             \A c \in Client : pc[c] \in {"consumed", "marked"} =>
               pc'[c] = pc[c] /\ target'[c] = target[c] /\ owner'[target[c]] = owner[target[c]]
      PROVE  LocksOfTransactions'
  BY <1>1, <1>2
<1>3. ASSUME NEW u \in User, NEW t \in Token, NEW late \in 0..MaxTime, SignUp(u, t, late)
      PROVE  LocksOfTransactions'
  <2>1. owner[t] = None /\ owner' = [owner EXCEPT ![t] = u] /\ UNCHANGED <<locks, pc, target>>
    BY <1>3 DEF SignUp, InsertToken
  <2>2. QED BY <1>1, <1>2, <1>t, <2>1
<1>4. ASSUME NEW c \in Client, NEW t \in Token, InsertTokenAndEvent(c, t) PROVE LocksOfTransactions'
  <2>1. /\ pc[c] = "counted" /\ owner[t] = None /\ owner' = [owner EXCEPT ![t] = target[c]]
        /\ pc' = [pc EXCEPT ![c] = "idle"] /\ target' = [target EXCEPT ![c] = None] /\ UNCHANGED locks
    BY <1>4 DEF InsertTokenAndEvent, InsertToken
  <2>2. QED BY <1>1, <1>2, <1>t, <2>1
<1>5. ASSUME NEW c \in Client, NEW p, NEW x,
             pc[c] \in {"idle", "looked", "found"}, Goto(c, p, x), UNCHANGED <<owner, locks>>
      PROVE  LocksOfTransactions'
  BY <1>2, <1>5, <1>t
<1>6. ASSUME NEW c \in Client, NEW u \in User, LookUpUser(c, u) PROVE LocksOfTransactions'
  BY <1>5, <1>6 DEF LookUpUser
<1>7. ASSUME NEW c \in Client, NEW t \in Token, FindToken(c, t) PROVE LocksOfTransactions'
  BY <1>5, <1>7 DEF FindToken
<1>8. ASSUME NEW c \in Client, CountTokens(c) PROVE LocksOfTransactions'
  BY <1>5, <1>8 DEF CountTokens
<1>9. ASSUME NEW c \in Client, ConsumeToken(c) PROVE LocksOfTransactions'
  <2>1. CASE target[c] \in consumed BY <1>5, <1>9, <2>1 DEF ConsumeToken
  <2>2. CASE target[c] \notin consumed
    <3>1. /\ pc[c] = "found" /\ pc' = [pc EXCEPT ![c] = "consumed"]
          /\ target' = [target EXCEPT ![c] = target[c]] /\ UNCHANGED <<owner, userLock>>
          /\ tokenLock' = [tokenLock EXCEPT ![target[c]] = c]
      BY <1>9, <2>2 DEF ConsumeToken
    <3>2. target' = target BY <1>t, <3>1
    <3>3. QED BY <1>1, <1>t, <3>1, <3>2
  <2>3. QED BY <2>1, <2>2
<1>10. ASSUME NEW c \in Client, MarkEmailVerified(c) PROVE LocksOfTransactions'
  <2>1. /\ pc[c] = "consumed" /\ pc' = [pc EXCEPT ![c] = "marked"]
        /\ target' = [target EXCEPT ![c] = target[c]] /\ UNCHANGED <<owner, tokenLock>>
        /\ userLock' = [userLock EXCEPT ![owner[target[c]]] = c]
    BY <1>10 DEF MarkEmailVerified
  <2>2. target' = target BY <1>t, <2>1
  <2>3. QED BY <1>1, <1>t, <2>1, <2>2
<1>11. ASSUME NEW c \in Client, CommitVerification(c) \/ Fail(c) PROVE LocksOfTransactions'
  <2>1. /\ pc' = [pc EXCEPT ![c] = "idle"] /\ target' = [target EXCEPT ![c] = None] /\ UNCHANGED owner
        /\ Release(c)
    BY <1>11 DEF CommitVerification, Fail
  <2>2. /\ \A t \in Token, d \in Client : tokenLock'[t] = d => d # c /\ tokenLock[t] = d
        /\ \A u \in User, d \in Client : userLock'[u] = d => d # c /\ userLock[u] = d
    BY <1>n, <2>1 DEF Release
  <2>3. \A d \in Client \ {c} : pc'[d] = pc[d] /\ target'[d] = target[d] BY <1>t, <2>1
  <2>4. QED BY <1>1, <2>1, <2>2, <2>3
<1>12. CASE Tick \/ UNCHANGED vars BY <1>2, <1>12 DEF Tick, vars
<1>13. QED BY <1>3, <1>4, <1>6, <1>7, <1>8, <1>9, <1>10, <1>11, <1>12 DEF Next, Resend, Verify

(* Verifications wait for one another along the order of their statements, and
   for nobody who has ended: they never wait in a circle. *)
THEOREM VerificationsWaitInOrder == Spec => []NoCircularWait
<1>1. Init => LocksOfTransactions BY VerificationAssumption DEF Init, LocksOfTransactions
<1>2. VerificationInv /\ LocksOfTransactions /\ [Next]_vars => LocksOfTransactions' BY LocksStep
<1>3. ASSUME VerificationInv, LocksOfTransactions PROVE NoCircularWait
  <2> SUFFICES ASSUME NEW c \in Client, NEW d \in Client, WaitsFor(c, d)
               PROVE  StatementsLeft(d) < StatementsLeft(c)
    BY DEF NoCircularWait
  <2>0. pc[c] \in Verifying => target[c] \in Token /\ owner[target[c]] \in User
    BY <1>3 DEF VerificationInv, TypeOK, TokensBelongToUsers
  <2>1. CASE pc[c] = "found" /\ tokenLock[target[c]] = d
    <3>1. pc[d] \in {"consumed", "marked"} BY <1>3, <2>0, <2>1 DEF LocksOfTransactions, Verifying
    <3>2. QED BY <2>1, <3>1 DEF StatementsLeft
  <2>2. CASE pc[c] = "consumed" /\ userLock[owner[target[c]]] = d
    <3>1. pc[d] = "marked" BY <1>3, <2>0, <2>2 DEF LocksOfTransactions, Verifying
    <3>2. QED BY <2>2, <3>1 DEF StatementsLeft
  <2>3. QED BY <2>1, <2>2 DEF WaitsFor
<1>4. Spec => [](VerificationInv /\ LocksOfTransactions) BY <1>1, <1>2, Invariance, PTL DEF Spec
<1>5. QED BY <1>3, <1>4, PTL
=============================================================================
