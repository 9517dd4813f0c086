-------------------------------- MODULE Sessions --------------------------------
(***************************************************************************)
(* services/auth.service.ts: users and their refresh tokens.  Register and *)
(* login are sequences of awaited calls (prisma, bcrypt), each a step,     *)
(* that interleave with those of other requests and with time.  A refresh  *)
(* token is a JWT of user, second of signing and expiry: two of a user     *)
(* signed in one second are the same string.  refreshTokenService looks at *)
(* signature and expiry only and changes nothing; the device token is      *)
(* PriceAlertChecker's.  Users are never deleted nor given another email.  *)
(***************************************************************************)
EXTENDS Naturals, FiniteSets

CONSTANTS
  Email,
  UserId, NoUser,   \* row identifiers (uuids)
  Req, NoRequest,   \* slots for requests in flight: bounds the concurrency
  NoToken,
  Lifetime,         \* REFRESH_TOKEN_EXPIRATION_DAYS, in steps of the clock
  MaxSecond         \* bound: where the clock stops

VARIABLES
  now,         \* Date.now(), in seconds
  users,       \* [UserId -> Email \cup {NoUser}], table User
  sessions,    \* table RefreshToken
  req,         \* [Req -> requests in flight \cup {NoRequest}]
  last,        \* history: token of the last login of a user that was answered
  cut          \* history: users whose login died between its two writes, and
               \* who have not logged in since

sessionVars == <<now, users, sessions, req, last, cut>>

Second == 0..MaxSecond

RefreshToken == [user : UserId, signed : Second]

(* The expiry a JWT carries is its second of signing plus Lifetime.        *)
Session == [token : RefreshToken, expiresAt : Nat]

(* What a request remembers between two calls.                             *)
Registration == [op : {"register"}, email : Email]
Login == [op : {"login"}, pc : {"delete"}, token : RefreshToken]
           \cup [op : {"login"}, pc : {"create"}, token : RefreshToken, expiresAt : Nat]

ASSUME SessionsAssumption ==
  /\ NoUser \notin Email
  /\ NoRequest \notin Registration \cup Login
  /\ NoToken \notin RefreshToken
  /\ IsFiniteSet(Req)
  /\ Lifetime \in Nat /\ MaxSecond \in Nat

Registered(u) == users[u] # NoUser

SessionsOf(u) == {s \in sessions : s.token.user = u}

(* Request r is a login about to make the call pc.                         *)
At(r, pc) == req[r] # NoRequest /\ req[r].op = "login" /\ req[r].pc = pc

(* Logins of u that have deleted the old tokens and not stored the new.    *)
Creating(u) == {r \in Req : At(r, "create") /\ req[r].token.user = u}

Hold(r, q) == req[r] = NoRequest /\ req' = [req EXCEPT ![r] = q]

Answer(r) == req' = [req EXCEPT ![r] = NoRequest]

-------------------------------------------------------------------------------
SessionsInit ==
  /\ now = 0
  /\ users = [u \in UserId |-> NoUser]
  /\ sessions = {}
  /\ req = [r \in Req |-> NoRequest]
  /\ last = [u \in UserId |-> NoToken]
  /\ cut = {}

(* registerService: findUnique, then bcrypt.hash.                          *)
BeginRegister(r, e) ==
  /\ \A u \in UserId : users[u] # e
  /\ Hold(r, [op |-> "register", email |-> e])
  /\ UNCHANGED <<now, users, sessions, last, cut>>

(* The database refuses a second row with the email.                       *)
CreateUser(r) ==
  /\ req[r] # NoRequest /\ req[r].op = "register"
  /\ \A u \in UserId : users[u] # req[r].email
  /\ \E u \in UserId : ~Registered(u) /\ users' = [users EXCEPT ![u] = req[r].email]
  /\ Answer(r)
  /\ UNCHANGED <<now, sessions, last, cut>>

(* Mutant: the user is not looked for. *)
BeginLoginUnknown(r, u) ==
  /\ Hold(r, [op |-> "login", pc |-> "delete", token |-> [user |-> u, signed |-> now]])
  /\ UNCHANGED <<now, users, sessions, last, cut>>

(* loginService: the user is found, bcrypt.compare agrees, the tokens are  *)
(* signed.  What the calls read of the user never changes: one step.       *)
BeginLogin(r, u) ==
  /\ Registered(u)
  /\ Hold(r, [op |-> "login", pc |-> "delete", token |-> [user |-> u, signed |-> now]])
  /\ UNCHANGED <<now, users, sessions, last, cut>>

(* expiresAt, computed when deleteMany has returned.                       *)
Expiry == now + Lifetime

(* Mutant: the old tokens stay. *)
DeleteOldSkipped(r) ==
  /\ At(r, "delete")
  /\ req' = [req EXCEPT ![r] = [op |-> "login", pc |-> "create", token |-> @.token,
                                expiresAt |-> Expiry]]
  /\ UNCHANGED <<now, users, sessions, last, cut>>

DeleteOld(r) ==
  /\ At(r, "delete")
  /\ sessions' = sessions \ SessionsOf(req[r].token.user)
  /\ req' = [req EXCEPT ![r] = [op |-> "login", pc |-> "create", token |-> @.token,
                                expiresAt |-> Expiry]]
  /\ UNCHANGED <<now, users, last, cut>>

(* Mutant: the old tokens are deleted when the new one is stored. *)
CreateSessionThenDelete(r) ==
  /\ At(r, "create")
  /\ LET t == req[r].token
     IN  /\ sessions' = sessions \ SessionsOf(t.user)
         /\ last' = [last EXCEPT ![t.user] = t]
         /\ cut' = cut \ {t.user}
  /\ Answer(r)
  /\ UNCHANGED <<now, users>>

(* Mutant: the token is signed last, when its row is dated already. *)
CreateSessionSignedLast(r) ==
  /\ At(r, "create")
  /\ LET t == [req[r].token EXCEPT !.signed = now]
     IN  /\ \A s \in sessions : s.token # t
         /\ sessions' = sessions \cup {[token |-> t, expiresAt |-> req[r].expiresAt]}
         /\ last' = [last EXCEPT ![t.user] = t]
         /\ cut' = cut \ {t.user}
  /\ Answer(r)
  /\ UNCHANGED <<now, users>>

(* The token column is unique.                                             *)
CreateSession(r) ==
  /\ At(r, "create")
  /\ \A s \in sessions : s.token # req[r].token
  /\ LET t == req[r].token
     IN  /\ sessions' = sessions \cup {[token |-> t, expiresAt |-> req[r].expiresAt]}
         /\ last' = [last EXCEPT ![t.user] = t]
         /\ cut' = cut \ {t.user}
  /\ Answer(r)
  /\ UNCHANGED <<now, users>>

(* Prisma's P2002 on one of the two unique columns: answered 500.          *)
Refuse(r) ==
  /\ \/ req[r] # NoRequest /\ req[r].op = "register" /\ \E u \in UserId : users[u] = req[r].email
     \/ At(r, "create") /\ \E s \in sessions : s.token = req[r].token
  /\ Answer(r)
  /\ UNCHANGED <<now, users, sessions, last, cut>>

(* The process, or the connection to the database, dies under the requests *)
(* in R: what they have written stays.                                     *)
Die(R) ==
  /\ R # {} /\ \A r \in R : req[r] # NoRequest
  /\ req' = [r \in Req |-> IF r \in R THEN NoRequest ELSE req[r]]
  /\ cut' = cut \cup {u \in UserId : Creating(u) \cap R # {}}
  /\ UNCHANGED <<now, users, sessions, last>>

Tick == now < MaxSecond /\ now' = now + 1 /\ UNCHANGED <<users, sessions, req, last, cut>>

SessionStep(r) ==
  \/ \E e \in Email : BeginRegister(r, e)
  \/ CreateUser(r)
  \/ \E u \in UserId : BeginLogin(r, u)
  \/ DeleteOld(r)
  \/ CreateSession(r)
  \/ Refuse(r)

SessionsNext == (\E r \in Req : SessionStep(r)) \/ (\E R \in SUBSET Req : Die(R)) \/ Tick

SessionsSpec == SessionsInit /\ [][SessionsNext]_sessionVars

-------------------------------------------------------------------------------
(* Every variable has its type; tokens are those of registered users.      *)
SessionsTypeOK ==
  /\ now \in Second
  /\ users \in [UserId -> Email \cup {NoUser}]
  /\ sessions \subseteq Session
  /\ req \in [Req -> Registration \cup Login \cup {NoRequest}]
  /\ last \in [UserId -> RefreshToken \cup {NoToken}]
  /\ cut \subseteq UserId
  /\ \A s \in sessions : Registered(s.token.user)
  /\ \A r \in Req : At(r, "delete") \/ At(r, "create") => Registered(req[r].token.user)

(* Logins that overlap between auth.service.ts:59 and :67 leave several    *)
(* tokens behind, but never more than there were requests at work at once, *)
(* those still to come counted: one at a time leaves one.                  *)
SessionsBounded ==
  \A u \in UserId :
    Cardinality(SessionsOf(u)) + Cardinality(Creating(u)) <= Cardinality(Req)

(* However logins overlap, even within one second, where one of two equal  *)
(* tokens is refused, the last token answered to a user is in the table    *)
(* once no login of the user is between its two writes, unless one died    *)
(* there (auth.service.ts:59-73).                                          *)
LastLoginStored ==
  \A u \in UserId :
    last[u] # NoToken /\ Creating(u) = {} /\ u \notin cut
      => \E s \in sessions : s.token = last[u]

(* expiresAt and the expiry in the JWT are computed on either side of an   *)
(* awaited call (:56, :64): no row lapses before its token does.           *)
RowsOutliveTokens == \A s \in sessions : s.expiresAt >= s.token.signed + Lifetime

(* What the above rest on: a login in flight was signed in the past and    *)
(* dated later; the last token answered to a user is of that user, and     *)
(* among the user's tokens, if there are any.                              *)
LoginsDated ==
  \A r \in Req :
    /\ At(r, "delete") => req[r].token.signed <= now
    /\ At(r, "create") => req[r].expiresAt >= req[r].token.signed + Lifetime

LastAmongSessions ==
  \A u \in UserId :
    /\ last[u] # NoToken => last[u].user = u
    /\ SessionsOf(u) # {} => \E s \in sessions : s.token = last[u]

SessionsInv == /\ SessionsTypeOK
               /\ RowsOutliveTokens /\ LoginsDated
               /\ LastLoginStored /\ LastAmongSessions
               /\ SessionsBounded /\ IsFiniteSet(sessions)
===============================================================================
