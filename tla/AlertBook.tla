------------------------------- MODULE AlertBook -------------------------------
(***************************************************************************)
(* What the alert operations promise whatever runs at the same time: a     *)
(* book of alerts in which every operation is one atomic step on one       *)
(* entry, and an entry that is put where its owner already has an equal    *)
(* active one is marked as loose.                                          *)
(***************************************************************************)
CONSTANTS
  User,        \* accounts
  Condition,   \* what an alert waits for
  AlertId      \* identifiers

VARIABLES
  book,        \* the alerts there are: a function on a part of AlertId
  loose        \* the alerts that may repeat another one

bookVars == <<book, loose>>

Entry == [owner : User, cond : Condition, active : BOOLEAN]

Present(a) == a \in DOMAIN book

(* The owner of e has another active alert on the condition of e. *)
TwinOf(a, e) == \E b \in DOMAIN book \ {a} :
                  /\ book[b].active
                  /\ book[b].owner = e.owner /\ book[b].cond = e.cond

Put(a, e) ==
  /\ book' = [b \in DOMAIN book \cup {a} |-> IF b = a THEN e ELSE book[b]]
  /\ loose' \in {loose \cup {a}, loose \ {a}}
  /\ e.active /\ TwinOf(a, e) => a \in loose'

Add(a, u, c) ==
  /\ ~Present(a)
  /\ Put(a, [owner |-> u, cond |-> c, active |-> TRUE])

(* A change may also hand the entry over to another user.                  *)
Change(a, u, c, act) ==
  /\ Present(a)
  /\ Put(a, [owner |-> u, cond |-> c, active |-> act])

Remove(a) ==
  /\ Present(a)
  /\ book' = [b \in DOMAIN book \ {a} |-> book[b]]
  /\ loose' = loose \ {a}

BookInit == DOMAIN book = {} /\ loose = {}

BookNext == \E a \in AlertId :
              \/ \E u \in User, c \in Condition : Add(a, u, c)
              \/ \E u \in User, c \in Condition, act \in BOOLEAN : Change(a, u, c, act)
              \/ Remove(a)

BookSpec == BookInit /\ [][BookNext]_bookVars
===============================================================================
