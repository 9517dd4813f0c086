----------------------------- MODULE SessionsProofs -----------------------------
(* Proofs about Sessions, for any users, any number of requests and any    *)
(* time.                                                                   *)
EXTENDS Sessions, FiniteSetTheorems, TLAPS

(* What a login in flight holds.                                           *)
LEMMA LoginFacts ==
  ASSUME SessionsTypeOK, NEW r \in Req
  PROVE  /\ At(r, "delete") => req[r].token \in RefreshToken
         /\ At(r, "create") => req[r].token \in RefreshToken /\ req[r].expiresAt \in Nat
  BY DEF SessionsTypeOK, At, Registration, Login

(* No request is at two calls.                                             *)
LEMMA OneCall == ASSUME NEW r \in Req PROVE ~(At(r, "delete") /\ At(r, "create"))
  BY DEF At

LEMMA CreatingFinite ==
  ASSUME NEW u, NEW S, S \subseteq Creating(u)
  PROVE  /\ IsFiniteSet(Creating(u)) /\ Cardinality(Creating(u)) \in Nat
         /\ Cardinality(Creating(u)) <= Cardinality(Req)
         /\ IsFiniteSet(S) /\ Cardinality(S) \in Nat /\ Cardinality(S) <= Cardinality(Creating(u))
         /\ Cardinality(Req) \in Nat
  <1>1. Creating(u) \subseteq Req
    BY DEF Creating
  <1>2. IsFiniteSet(Req)
    BY SessionsAssumption
  <1>3. IsFiniteSet(Creating(u)) /\ Cardinality(Creating(u)) <= Cardinality(Req)
    BY <1>1, <1>2, FS_Subset
  <1>4. IsFiniteSet(S) /\ Cardinality(S) <= Cardinality(Creating(u))
    BY <1>3, FS_Subset
  <1> QED
    BY <1>2, <1>3, <1>4, FS_CardinalityType

LEMMA SessionsOfFinite ==
  ASSUME NEW u, IsFiniteSet(sessions)
  PROVE  IsFiniteSet(SessionsOf(u)) /\ Cardinality(SessionsOf(u)) \in Nat
  <1>1. SessionsOf(u) \subseteq sessions
    BY DEF SessionsOf
  <1> QED
    BY <1>1, FS_Subset, FS_CardinalityType

-------------------------------------------------------------------------------
LEMMA InitInv == ASSUME SessionsInit PROVE SessionsInv
  <1>1. SessionsTypeOK
    BY SessionsAssumption DEF SessionsInit, SessionsTypeOK, At, Second
  <1>2. \A r \in Req : ~At(r, "create") /\ ~At(r, "delete")
    BY DEF SessionsInit, At
  <1>3. RowsOutliveTokens /\ LoginsDated /\ LastLoginStored /\ LastAmongSessions
    BY <1>2 DEF SessionsInit, RowsOutliveTokens, LoginsDated, LastLoginStored,
         LastAmongSessions, Registered, SessionsOf
  <1>4. IsFiniteSet(sessions) /\ Cardinality({}) = 0
    BY FS_EmptySet DEF SessionsInit
  <1>5. SessionsBounded
    <2>1. SUFFICES ASSUME NEW u \in UserId
                   PROVE  Cardinality(SessionsOf(u)) + Cardinality(Creating(u)) <= Cardinality(Req)
      BY DEF SessionsBounded
    <2>2. SessionsOf(u) = {}
      BY DEF SessionsInit, SessionsOf
    <2>3. Creating(u) = {}
      BY <1>2 DEF Creating
    <2>4. Cardinality(Req) \in Nat
      BY SessionsAssumption, FS_CardinalityType
    <2> QED
      BY <1>4, <2>2, <2>3, <2>4
  <1> QED
    BY <1>1, <1>3, <1>4, <1>5 DEF SessionsInv

(* A step that leaves the tokens alone keeps the invariant, if the logins  *)
(* it ends between their two writes are of users who are marked as cut, or *)
(* have a token.                                                           *)
LEMMA QuietStep ==
  ASSUME SessionsInv, sessions' = sessions, last' = last, cut \subseteq cut',
         SessionsTypeOK', LoginsDated',
         \A u \in UserId :
           /\ Creating(u)' \subseteq Creating(u)
           /\ Creating(u)' # Creating(u) => u \in cut' \/ SessionsOf(u) # {}
  PROVE  SessionsInv'
  <1>1. \A u \in UserId : SessionsOf(u)' = SessionsOf(u)
    BY DEF SessionsOf
  <1>2. RowsOutliveTokens' /\ LastAmongSessions' /\ IsFiniteSet(sessions')
    BY <1>1 DEF SessionsInv, RowsOutliveTokens, LastAmongSessions
  <1>3. LastLoginStored'
    BY DEF SessionsInv, LastLoginStored, LastAmongSessions
  <1>4. SessionsBounded'
    <2>1. SUFFICES ASSUME NEW u \in UserId
                   PROVE  Cardinality(SessionsOf(u)') + Cardinality(Creating(u)') <= Cardinality(Req)
      BY DEF SessionsBounded
    <2>2. Cardinality(SessionsOf(u)) + Cardinality(Creating(u)) <= Cardinality(Req)
      BY DEF SessionsInv, SessionsBounded
    <2>3. /\ Cardinality(Creating(u)') \in Nat /\ Cardinality(Creating(u)) \in Nat
          /\ Cardinality(Creating(u)') <= Cardinality(Creating(u))
          /\ Cardinality(Req) \in Nat
      BY CreatingFinite
    <2>4. Cardinality(SessionsOf(u)) \in Nat
      BY SessionsOfFinite DEF SessionsInv
    <2> QED
      BY <1>1, <2>2, <2>3, <2>4
  <1> QED
    BY <1>2, <1>3, <1>4 DEF SessionsInv

-------------------------------------------------------------------------------
(* A new request is not a login between its writes.                        *)
LEMMA HoldCreating ==
  ASSUME SessionsTypeOK, NEW r \in Req, NEW q, Hold(r, q), q.op = "register" \/ q.pc = "delete"
  PROVE  /\ \A u \in UserId : Creating(u)' = Creating(u)
         /\ \A s \in Req : s # r => req'[s] = req[s]
         /\ req'[r] = q
  <1>1. req'[r] = q /\ \A s \in Req : s # r => req'[s] = req[s]
    BY DEF Hold, SessionsTypeOK
  <1>2. ~At(r, "create") /\ ~At(r, "create")'
    BY <1>1 DEF At, Hold
  <1>3. \A s \in Req : s # r => (At(s, "create")' <=> At(s, "create"))
    BY <1>1 DEF At
  <1> QED
    BY <1>1, <1>2, <1>3 DEF Creating

(* An answered request is out of the way.                                  *)
LEMMA AnswerCreating ==
  ASSUME SessionsTypeOK, NEW r \in Req, Answer(r)
  PROVE  /\ \A u \in UserId : Creating(u)' = Creating(u) \ {r}
         /\ \A s \in Req : s # r => req'[s] = req[s]
         /\ req'[r] = NoRequest
  <1>1. req'[r] = NoRequest /\ \A s \in Req : s # r => req'[s] = req[s]
    BY DEF Answer, SessionsTypeOK
  <1>2. ~At(r, "create")'
    BY <1>1 DEF At
  <1>3. \A s \in Req : s # r => (At(s, "create")' <=> At(s, "create"))
    BY <1>1 DEF At
  <1> QED
    BY <1>1, <1>2, <1>3 DEF Creating

LEMMA BeginRegisterInv ==
  ASSUME SessionsInv, NEW r \in Req, NEW e \in Email, BeginRegister(r, e)
  PROVE  SessionsInv'
  <1> DEFINE q == [op |-> "register", email |-> e]
  <1>1. Hold(r, q) /\ q.op = "register"
    BY DEF BeginRegister
  <1>2. SessionsTypeOK
    BY DEF SessionsInv
  <1> HIDE DEF q
  <1>3. /\ \A u \in UserId : Creating(u)' = Creating(u)
        /\ \A s \in Req : s # r => req'[s] = req[s]
        /\ req'[r] = q
    BY <1>1, <1>2, HoldCreating
  <1>4. UNCHANGED <<now, users, sessions, last, cut>>
    BY DEF BeginRegister
  <1>5. q \in Registration /\ ~At(r, "delete")' /\ ~At(r, "create")'
    BY <1>3 DEF q, Registration, At
  <1>6. \A s \in Req : s # r => (At(s, "delete")' <=> At(s, "delete")) /\ (At(s, "create")' <=> At(s, "create"))
    BY <1>3 DEF At
  <1>7. req' \in [Req -> Registration \cup Login \cup {NoRequest}]
    BY <1>1, <1>2, <1>5 DEF Hold, SessionsTypeOK
  <1>8. SessionsTypeOK'
    BY <1>2, <1>3, <1>4, <1>5, <1>6, <1>7 DEF SessionsTypeOK, Registered
  <1>9. LoginsDated'
    BY <1>3, <1>4, <1>5, <1>6 DEF SessionsInv, LoginsDated, Registered
  <1> QED
    BY <1>3, <1>4, <1>8, <1>9, QuietStep

LEMMA BeginLoginInv ==
  ASSUME SessionsInv, NEW r \in Req, NEW u \in UserId, BeginLogin(r, u)
  PROVE  SessionsInv'
  <1> DEFINE t == [user |-> u, signed |-> now]
             q == [op |-> "login", pc |-> "delete", token |-> t]
  <1>1. Hold(r, q) /\ q.pc = "delete"
    BY DEF BeginLogin
  <1>2. SessionsTypeOK
    BY DEF SessionsInv
  <1>3. t \in RefreshToken /\ q \in Login /\ q.token = t /\ t.signed = now /\ t.user = u
    BY <1>2 DEF SessionsTypeOK, RefreshToken, Login
  <1> HIDE DEF q, t
  <1>4. /\ \A v \in UserId : Creating(v)' = Creating(v)
        /\ \A s \in Req : s # r => req'[s] = req[s]
        /\ req'[r] = q
    BY <1>1, <1>2, HoldCreating
  <1>5. UNCHANGED <<now, users, sessions, last, cut>> /\ Registered(u)
    BY DEF BeginLogin
  <1>6. ~At(r, "create")'
    BY <1>1, <1>4 DEF At
  <1>7. \A s \in Req : s # r => (At(s, "delete")' <=> At(s, "delete")) /\ (At(s, "create")' <=> At(s, "create"))
    BY <1>4 DEF At
  <1>8. req' \in [Req -> Registration \cup Login \cup {NoRequest}]
    BY <1>1, <1>2, <1>3 DEF Hold, SessionsTypeOK
  <1>9. SessionsTypeOK'
    BY <1>2, <1>3, <1>4, <1>5, <1>6, <1>7, <1>8 DEF SessionsTypeOK, Registered
  <1>10. LoginsDated'
    BY <1>2, <1>3, <1>4, <1>5, <1>6, <1>7
       DEF SessionsInv, SessionsTypeOK, LoginsDated, Registered, Second
  <1> QED
    BY <1>4, <1>5, <1>9, <1>10, QuietStep

LEMMA CreateUserInv ==
  ASSUME SessionsInv, NEW r \in Req, CreateUser(r) PROVE SessionsInv'
  <1>1. SessionsTypeOK
    BY DEF SessionsInv
  <1>2. PICK u \in UserId : ~Registered(u) /\ users' = [users EXCEPT ![u] = req[r].email]
    BY DEF CreateUser
  <1>3. /\ \A v \in UserId : Creating(v)' = Creating(v) \ {r}
        /\ \A s \in Req : s # r => req'[s] = req[s]
        /\ req'[r] = NoRequest
    BY <1>1, AnswerCreating DEF CreateUser
  <1>4. UNCHANGED <<now, sessions, last, cut>> /\ req[r] # NoRequest /\ req[r].op = "register"
        /\ \A v \in UserId : users[v] # req[r].email
    BY DEF CreateUser
  <1>5. ~At(r, "create") /\ ~At(r, "delete")' /\ ~At(r, "create")'
    BY <1>3, <1>4 DEF At
  <1>6. \A v \in UserId : Creating(v)' = Creating(v)
    BY <1>3, <1>5 DEF Creating
  <1>7. req[r].email \in Email
    BY <1>1, <1>4 DEF SessionsTypeOK, Registration, Login
  <1>8. /\ \A v \in UserId : users'[v] = IF v = u THEN req[r].email ELSE users[v]
        /\ users' \in [UserId -> Email \cup {NoUser}]
    BY <1>1, <1>2, <1>7 DEF SessionsTypeOK
  <1>9. \A v \in UserId : Registered(v) => Registered(v)'
    BY <1>2, <1>8 DEF Registered
  <1>10. \A s \in Req : s # r => (At(s, "delete")' <=> At(s, "delete")) /\ (At(s, "create")' <=> At(s, "create"))
    BY <1>3 DEF At
  <1>11. \A s \in Req : At(s, "delete") \/ At(s, "create") => req[s].token.user \in UserId
    BY <1>1, LoginFacts DEF RefreshToken
  <1>12. \A s \in sessions : s.token.user \in UserId
    BY <1>1 DEF SessionsTypeOK, Session, RefreshToken
  <1>13. req' \in [Req -> Registration \cup Login \cup {NoRequest}]
    BY <1>1 DEF SessionsTypeOK, CreateUser, Answer
  <1>14. SessionsTypeOK'
    <2>1. \A s \in Req :
             At(s, "delete")' \/ At(s, "create")' => users'[req'[s].token.user] # NoUser
      <3>1. TAKE s \in Req
      <3>2. HAVE At(s, "delete")' \/ At(s, "create")'
      <3>3. s # r /\ req'[s] = req[s] /\ (At(s, "delete") \/ At(s, "create"))
        BY <1>3, <1>5, <1>10, <3>2
      <3>4. Registered(req[s].token.user) /\ req[s].token.user \in UserId
        BY <1>1, <1>11, <3>3 DEF SessionsTypeOK
      <3> QED
        BY <1>9, <3>3, <3>4 DEF Registered
    <2>2. \A s \in sessions' : Registered(s.token.user)'
      BY <1>1, <1>4, <1>9, <1>12 DEF SessionsTypeOK
    <2> QED
      BY <1>1, <1>4, <1>8, <1>13, <2>1, <2>2 DEF SessionsTypeOK, Registered
  <1>15. LoginsDated'
    BY <1>3, <1>4, <1>5, <1>10 DEF SessionsInv, LoginsDated
  <1> QED
    BY <1>4, <1>6, <1>14, <1>15, QuietStep

LEMMA RefuseInv ==
  ASSUME SessionsInv, NEW r \in Req, Refuse(r) PROVE SessionsInv'
  <1>1. SessionsTypeOK
    BY DEF SessionsInv
  <1>2. /\ \A u \in UserId : Creating(u)' = Creating(u) \ {r}
        /\ \A s \in Req : s # r => req'[s] = req[s]
        /\ req'[r] = NoRequest
    BY <1>1, AnswerCreating DEF Refuse
  <1>3. UNCHANGED <<now, users, sessions, last, cut>>
    BY DEF Refuse
  <1>4. At(r, "create") => \E s \in sessions : s.token = req[r].token
    BY DEF Refuse, At
  <1>5. \A u \in UserId : Creating(u)' # Creating(u) => SessionsOf(u) # {}
    BY <1>2, <1>4 DEF Creating, SessionsOf
  <1>6. ~At(r, "create")' /\ ~At(r, "delete")'
    BY <1>2 DEF At
  <1>7. \A s \in Req : s # r => (At(s, "delete")' <=> At(s, "delete")) /\ (At(s, "create")' <=> At(s, "create"))
    BY <1>2 DEF At
  <1>8. req' \in [Req -> Registration \cup Login \cup {NoRequest}]
    BY <1>1 DEF SessionsTypeOK, Refuse, Answer
  <1>9. SessionsTypeOK'
    BY <1>1, <1>2, <1>3, <1>6, <1>7, <1>8 DEF SessionsTypeOK, Registered
  <1>10. LoginsDated'
    BY <1>2, <1>3, <1>6, <1>7 DEF SessionsInv, LoginsDated, Registered
  <1> QED
    BY <1>2, <1>3, <1>5, <1>9, <1>10, QuietStep

LEMMA DieInv ==
  ASSUME SessionsInv, NEW R \in SUBSET Req, Die(R) PROVE SessionsInv'
  <1>1. SessionsTypeOK
    BY DEF SessionsInv
  <1>2. UNCHANGED <<now, users, sessions, last>>
    BY DEF Die
  <1>3. \A s \in Req : (s \in R => req'[s] = NoRequest) /\ (s \notin R => req'[s] = req[s])
    BY DEF Die
  <1>4. /\ \A s \in R : ~At(s, "delete")' /\ ~At(s, "create")'
        /\ \A s \in Req \ R : (At(s, "delete")' <=> At(s, "delete")) /\ (At(s, "create")' <=> At(s, "create"))
    BY <1>3 DEF At
  <1>5. \A u \in UserId : Creating(u)' = Creating(u) \ R
    BY <1>3, <1>4 DEF Creating
  <1>6. \A u \in UserId : Creating(u)' # Creating(u) => u \in cut'
    BY <1>5 DEF Die
  <1>7. cut \subseteq cut' /\ cut' \subseteq UserId
    BY <1>1 DEF Die, SessionsTypeOK
  <1>8. req' \in [Req -> Registration \cup Login \cup {NoRequest}]
    BY <1>1 DEF SessionsTypeOK, Die
  <1>9. SessionsTypeOK'
    BY <1>1, <1>2, <1>3, <1>4, <1>7, <1>8 DEF SessionsTypeOK, Registered
  <1>10. LoginsDated'
    BY <1>2, <1>3, <1>4 DEF SessionsInv, LoginsDated, Registered
  <1> QED
    BY <1>2, <1>5, <1>6, <1>7, <1>9, <1>10, QuietStep

LEMMA TickInv ==
  ASSUME SessionsInv, Tick PROVE SessionsInv'
  <1>1. UNCHANGED <<users, sessions, req, last, cut>> /\ now' = now + 1 /\ now < MaxSecond
    BY DEF Tick
  <1>2. SessionsTypeOK
    BY DEF SessionsInv
  <1>3. \A u \in UserId : Creating(u)' = Creating(u)
    BY <1>1 DEF Creating, At
  <1>4. now' \in Second
    BY <1>1, <1>2, SessionsAssumption DEF SessionsTypeOK, Second
  <1>5. SessionsTypeOK'
    BY <1>1, <1>2, <1>4 DEF SessionsTypeOK, Registered, At
  <1>6. LoginsDated'
    <2>1. SUFFICES ASSUME NEW s \in Req
                   PROVE  /\ At(s, "delete") => req[s].token.signed <= now'
                          /\ At(s, "create") => req[s].expiresAt >= req[s].token.signed + Lifetime
      BY <1>1 DEF LoginsDated, At
    <2>2. /\ At(s, "delete") => req[s].token.signed <= now
          /\ At(s, "create") => req[s].expiresAt >= req[s].token.signed + Lifetime
      BY DEF SessionsInv, LoginsDated
    <2>3. At(s, "delete") => req[s].token.signed \in Nat
      BY <1>2, LoginFacts DEF RefreshToken, Second
    <2> QED
      BY <1>1, <1>2, <2>2, <2>3 DEF SessionsTypeOK, Second
  <1> QED
    BY <1>1, <1>3, <1>5, <1>6, QuietStep

-------------------------------------------------------------------------------
(* The old tokens go, the login waits for its second write.                *)
LEMMA DeleteOldInv ==
  ASSUME SessionsInv, NEW r \in Req, DeleteOld(r) PROVE SessionsInv'
  <1> DEFINE t == req[r].token
             q == [op |-> "login", pc |-> "create", token |-> t, expiresAt |-> Expiry]
  <1>1. SessionsTypeOK /\ At(r, "delete")
    BY DEF SessionsInv, DeleteOld
  <1>w. PICK w \in UserId : w = t.user
    BY <1>1, LoginFacts DEF RefreshToken
  <1>2. t \in RefreshToken /\ w \in UserId /\ t.signed \in Nat /\ t.signed <= now /\ Registered(w)
    BY <1>1, <1>w, LoginFacts DEF SessionsInv, SessionsTypeOK, LoginsDated, RefreshToken, Second
  <1>3. now \in Nat /\ Lifetime \in Nat /\ Expiry \in Nat /\ Expiry = now + Lifetime
    BY <1>1, SessionsAssumption DEF SessionsTypeOK, Second, Expiry
  <1>4. /\ q \in Login /\ q # NoRequest /\ q.op = "login" /\ q.pc = "create"
        /\ q.token = t /\ q.expiresAt = Expiry
    BY <1>2, <1>3, SessionsAssumption DEF Login
  <1>5. UNCHANGED <<now, users, last, cut>> /\ sessions' = sessions \ SessionsOf(w)
        /\ req' = [req EXCEPT ![r] = q]
    BY <1>w DEF DeleteOld
  <1> HIDE DEF q
  <1>6. req'[r] = q /\ \A s \in Req : s # r => req'[s] = req[s]
    BY <1>1, <1>5 DEF SessionsTypeOK
  <1>7. /\ At(r, "create")' /\ ~At(r, "delete")' /\ ~At(r, "create")
        /\ \A s \in Req : s # r => (At(s, "delete")' <=> At(s, "delete"))
                                 /\ (At(s, "create")' <=> At(s, "create"))
    BY <1>1, <1>4, <1>6 DEF At
  <1>8. SessionsOf(w)' = {} /\ \A u \in UserId : u # w => SessionsOf(u)' = SessionsOf(u)
    BY <1>5 DEF SessionsOf
  <1>9. /\ Creating(w)' = Creating(w) \cup {r} /\ r \notin Creating(w)
        /\ \A u \in UserId : u # w => Creating(u)' = Creating(u)
    BY <1>w, <1>4, <1>6, <1>7 DEF Creating
  <1>10. SessionsTypeOK'
    <2>1. req' \in [Req -> Registration \cup Login \cup {NoRequest}]
      BY <1>1, <1>4, <1>5 DEF SessionsTypeOK
    <2>2. \A s \in Req :
             At(s, "delete")' \/ At(s, "create")' => users'[req'[s].token.user] # NoUser
      BY <1>w, <1>1, <1>2, <1>4, <1>5, <1>6, <1>7 DEF SessionsTypeOK, Registered
    <2> QED
      BY <1>1, <1>5, <2>1, <2>2 DEF SessionsTypeOK, Registered
  <1>11. RowsOutliveTokens' /\ IsFiniteSet(sessions')
    BY <1>5, FS_Subset DEF SessionsInv, RowsOutliveTokens, Registered
  <1>12. LoginsDated'
    BY <1>2, <1>3, <1>4, <1>5, <1>6, <1>7 DEF SessionsInv, LoginsDated
  <1>13. LastAmongSessions'
    <2>1. SUFFICES ASSUME NEW u \in UserId
                   PROVE  /\ last[u] # NoToken => last[u].user = u
                          /\ SessionsOf(u)' # {} => \E s \in sessions' : s.token = last[u]
      BY <1>5 DEF LastAmongSessions
    <2>2. last[u] # NoToken => last[u].user = u
      BY DEF SessionsInv, LastAmongSessions
    <2>3. ASSUME SessionsOf(u)' # {} PROVE \E s \in sessions' : s.token = last[u]
      <3>1. u # w /\ SessionsOf(u) # {}
        BY <1>8, <2>3
      <3>2. PICK s \in sessions : s.token = last[u]
        BY <3>1 DEF SessionsInv, LastAmongSessions
      <3>3. s.token.user = u
        BY <1>1, <2>2, <3>2, SessionsAssumption DEF SessionsTypeOK, Session
      <3> QED
        BY <1>5, <3>1, <3>2, <3>3 DEF SessionsOf
    <2> QED
      BY <2>2, <2>3
  <1>14. LastLoginStored'
    <2>1. SUFFICES ASSUME NEW u \in UserId, last[u] # NoToken, Creating(u)' = {}, u \notin cut
                   PROVE  \E s \in sessions' : s.token = last[u]
      BY <1>5 DEF LastLoginStored
    <2>2. u # w /\ Creating(u) = {}
      BY <1>9, <2>1
    <2>3. PICK s \in sessions : s.token = last[u]
      BY <2>1, <2>2 DEF SessionsInv, LastLoginStored
    <2>4. s.token.user = u
      BY <2>1, <2>3 DEF SessionsInv, LastAmongSessions
    <2> QED
      BY <1>5, <2>2, <2>3, <2>4 DEF SessionsOf
  <1>15. SessionsBounded'
    <2>1. SUFFICES ASSUME NEW u \in UserId
                   PROVE  Cardinality(SessionsOf(u)') + Cardinality(Creating(u)') <= Cardinality(Req)
      BY DEF SessionsBounded
    <2>2. CASE u # w
      BY <1>8, <1>9, <2>2 DEF SessionsInv, SessionsBounded
    <2>3. CASE u = w
      <3>1. Creating(u)' \subseteq Req /\ IsFiniteSet(Req)
        BY SessionsAssumption DEF Creating
      <3>2. Cardinality(Creating(u)') \in Nat /\ Cardinality(Creating(u)') <= Cardinality(Req)
        BY <3>1, FS_Subset, FS_CardinalityType
      <3>3. Cardinality(SessionsOf(u)') = 0
        BY <1>8, <2>3, FS_EmptySet
      <3> QED
        BY <3>2, <3>3
    <2> QED
      BY <2>2, <2>3
  <1> QED
    BY <1>10, <1>11, <1>12, <1>13, <1>14, <1>15 DEF SessionsInv

(* The login stores its token and is answered: the number of its user's    *)
(* tokens grows by one, that of the logins still to store theirs shrinks.  *)
LEMMA CreateSessionInv ==
  ASSUME SessionsInv, NEW r \in Req, CreateSession(r) PROVE SessionsInv'
  <1> DEFINE t == req[r].token
             n == [token |-> t, expiresAt |-> req[r].expiresAt]
  <1>1. SessionsTypeOK /\ At(r, "create") /\ \A s \in sessions : s.token # t
    BY DEF SessionsInv, CreateSession
  <1>w. PICK w \in UserId : w = t.user
    BY <1>1, LoginFacts DEF RefreshToken
  <1>2. t \in RefreshToken /\ w \in UserId /\ Registered(w) /\ t # NoToken
    BY <1>1, <1>w, LoginFacts, SessionsAssumption DEF SessionsTypeOK, RefreshToken
  <1>3. n \in Session /\ n.token = t /\ n \notin sessions /\ n.expiresAt = req[r].expiresAt
    BY <1>1, <1>2, LoginFacts DEF Session
  <1>4. n.expiresAt >= t.signed + Lifetime
    BY <1>1, <1>3 DEF SessionsInv, LoginsDated
  <1>5. /\ UNCHANGED <<now, users>> /\ sessions' = sessions \cup {n}
        /\ last' = [last EXCEPT ![w] = t] /\ cut' = cut \ {w}
    BY <1>w DEF CreateSession
  <1> HIDE DEF n
  <1>6. /\ \A u \in UserId : Creating(u)' = Creating(u) \ {r}
        /\ \A s \in Req : s # r => req'[s] = req[s]
        /\ req'[r] = NoRequest
    BY <1>1, AnswerCreating DEF CreateSession
  <1>7. /\ ~At(r, "create")' /\ ~At(r, "delete")'
        /\ \A s \in Req : s # r => (At(s, "delete")' <=> At(s, "delete"))
                                 /\ (At(s, "create")' <=> At(s, "create"))
    BY <1>6 DEF At
  <1>8. /\ SessionsOf(w)' = SessionsOf(w) \cup {n} /\ n \notin SessionsOf(w)
        /\ \A u \in UserId : u # w => SessionsOf(u)' = SessionsOf(u)
    BY <1>w, <1>3, <1>5 DEF SessionsOf
  <1>9. r \in Creating(w) /\ \A u \in UserId : u # w => r \notin Creating(u)
    BY <1>w, <1>1 DEF Creating
  <1>10. /\ last'[w] = t /\ \A u \in UserId : u # w => last'[u] = last[u]
         /\ last' \in [UserId -> RefreshToken \cup {NoToken}]
    BY <1>1, <1>2, <1>5 DEF SessionsTypeOK
  <1>11. SessionsTypeOK'
    <2>1. req' \in [Req -> Registration \cup Login \cup {NoRequest}]
      BY <1>1 DEF SessionsTypeOK, CreateSession, Answer
    <2>2. \A s \in Req :
             At(s, "delete")' \/ At(s, "create")' => users'[req'[s].token.user] # NoUser
      BY <1>1, <1>5, <1>6, <1>7 DEF SessionsTypeOK, Registered
    <2>3. \A s \in sessions' : users'[s.token.user] # NoUser
      BY <1>w, <1>1, <1>2, <1>3, <1>5 DEF SessionsTypeOK, Registered
    <2> QED
      BY <1>1, <1>3, <1>5, <1>10, <2>1, <2>2, <2>3 DEF SessionsTypeOK, Registered
  <1>12. RowsOutliveTokens'
    BY <1>3, <1>4, <1>5 DEF SessionsInv, RowsOutliveTokens, Registered
  <1>13. IsFiniteSet(sessions')
    BY <1>5, FS_AddElement DEF SessionsInv
  <1>14. LoginsDated'
    BY <1>5, <1>6, <1>7 DEF SessionsInv, LoginsDated
  <1>15. LastAmongSessions' /\ LastLoginStored'
    <2>1. SUFFICES ASSUME NEW u \in UserId
                   PROVE  /\ last'[u] # NoToken => last'[u].user = u
                          /\ SessionsOf(u)' # {} => \E s \in sessions' : s.token = last'[u]
                          /\ last'[u] # NoToken /\ Creating(u)' = {} /\ u \notin cut'
                               => \E s \in sessions' : s.token = last'[u]
      BY DEF LastAmongSessions, LastLoginStored
    <2>2. CASE u = w
      BY <1>w, <1>3, <1>5, <1>10, <2>2
    <2>3. CASE u # w
      <3>1. /\ last[u] # NoToken => last[u].user = u
            /\ SessionsOf(u) # {} => \E s \in sessions : s.token = last[u]
            /\ last[u] # NoToken /\ Creating(u) = {} /\ u \notin cut
                 => \E s \in sessions : s.token = last[u]
        BY DEF SessionsInv, LastAmongSessions, LastLoginStored
      <3>2. Creating(u)' = Creating(u)
        BY <1>6, <1>9, <2>3
      <3> QED
        BY <1>5, <1>8, <1>10, <2>3, <3>1, <3>2
    <2> QED
      BY <2>2, <2>3
  <1>16. SessionsBounded'
    <2>1. SUFFICES ASSUME NEW u \in UserId
                   PROVE  Cardinality(SessionsOf(u)') + Cardinality(Creating(u)') <= Cardinality(Req)
      BY DEF SessionsBounded
    <2>2. Cardinality(SessionsOf(u)) + Cardinality(Creating(u)) <= Cardinality(Req)
      BY DEF SessionsInv, SessionsBounded
    <2>3. CASE u # w
      BY <1>6, <1>8, <1>9, <2>2, <2>3
    <2>4. CASE u = w
      <3>1. IsFiniteSet(SessionsOf(w)) /\ Cardinality(SessionsOf(w)) \in Nat
        BY SessionsOfFinite DEF SessionsInv
      <3>2. /\ IsFiniteSet(Creating(w)) /\ Cardinality(Creating(w)) \in Nat
            /\ Cardinality(Req) \in Nat
        BY CreatingFinite
      <3>3. Cardinality(SessionsOf(w)') = Cardinality(SessionsOf(w)) + 1
        BY <1>8, <3>1, FS_AddElement
      <3>4. Cardinality(Creating(w)') = Cardinality(Creating(w)) - 1
        BY <1>2, <1>6, <1>9, <3>2, FS_RemoveElement
      <3> QED
        BY <2>2, <2>4, <3>1, <3>2, <3>3, <3>4
    <2> QED
      BY <2>3, <2>4
  <1> QED
    BY <1>11, <1>12, <1>13, <1>14, <1>15, <1>16 DEF SessionsInv

-------------------------------------------------------------------------------
LEMMA StepInv == ASSUME SessionsInv, [SessionsNext]_sessionVars PROVE SessionsInv'
  <1>1. ASSUME NEW r \in Req, SessionStep(r) PROVE SessionsInv'
    BY <1>1, BeginRegisterInv, CreateUserInv, BeginLoginInv, DeleteOldInv, CreateSessionInv,
       RefuseInv DEF SessionStep
  <1>2. ASSUME NEW R \in SUBSET Req, Die(R) PROVE SessionsInv'
    BY <1>2, DieInv
  <1>3. CASE Tick
    BY <1>3, TickInv
  <1>4. CASE UNCHANGED sessionVars
    BY <1>4 DEF sessionVars, SessionsInv, SessionsTypeOK, RowsOutliveTokens,
         LoginsDated, LastLoginStored, LastAmongSessions, SessionsBounded, SessionsOf,
         Creating, At, Registered
  <1> QED
    BY <1>1, <1>2, <1>3, <1>4 DEF SessionsNext

(* The inductive invariant.                                                *)
THEOREM SessionsInvCorrect == SessionsSpec => []SessionsInv
  <1>1. SessionsInit => SessionsInv
    BY InitInv
  <1>2. SessionsInv /\ [SessionsNext]_sessionVars => SessionsInv'
    BY StepInv
  <1> QED
    BY <1>1, <1>2, PTL DEF SessionsSpec

(* The refresh tokens of a user never outnumber the requests that ever     *)
(* were at work at once (loginService, auth.service.ts:59-73).             *)
THEOREM SessionsStayBounded == SessionsSpec => []SessionsBounded
  <1>1. SessionsInv => SessionsBounded
    BY DEF SessionsInv
  <1> QED
    BY <1>1, SessionsInvCorrect, PTL

(* The token of the last login answered to a user is in the table, unless  *)
(* a login of the user is, or died, between its two writes.                *)
THEOREM LastLoginStays == SessionsSpec => []LastLoginStored
  <1>1. SessionsInv => LastLoginStored
    BY DEF SessionsInv
  <1> QED
    BY <1>1, SessionsInvCorrect, PTL

(* No row of the table lapses before the token it holds.                   *)
THEOREM RowsOutlast == SessionsSpec => []RowsOutliveTokens
  <1>1. SessionsInv => RowsOutliveTokens
    BY DEF SessionsInv
  <1> QED
    BY <1>1, SessionsInvCorrect, PTL

(* Tables and requests keep their types, and every token stored or about   *)
(* to be stored is that of a registered user.                              *)
THEOREM SessionsTypeCorrect == SessionsSpec => []SessionsTypeOK
  <1>1. SessionsInv => SessionsTypeOK
    BY DEF SessionsInv
  <1> QED
    BY <1>1, SessionsInvCorrect, PTL
=============================================================================
