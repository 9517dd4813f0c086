----------------------------- MODULE TokenBalances -----------------------------
(***************************************************************************)
(* The ledger of services/tokenBalance.service.ts: the buys and sells of a *)
(* token, with services/import.service.ts writing many at once inside a    *)
(* transaction and services/token.service.ts deleting tokens.  Handlers    *)
(* are sequences of awaited prisma calls, each a step, that interleave.    *)
(* A request answered with an error writes nothing: this is Begin not      *)
(* being enabled, or Refuse.  The PUT route of a balance is commented out. *)
(*                                                                         *)
(* Amounts and sums are decimals, counted in some unit finer than any of   *)
(* them.  A body's amount becomes a JavaScript number, and so does a sum   *)
(* when it is compared with one; the column keeps 18 decimals.             *)
(***************************************************************************)
EXTENDS Integers, FiniteSets, FiniteSetsExt, Functions, Sequences

CONSTANTS
  User, Token,
  Owner,       \* [Token -> User], never updated
  Amount,      \* amounts of an operation, as they are sent
  Doubles,     \* JavaScript's numbers, by the decimals they are written as
  Cells,       \* what the column holds: Decimal(36, 18)
  BalanceId,   \* row identifiers (uuids)
  NoRow,
  Req,         \* slots for requests in flight: bounds the concurrency
  NoRequest,
  Files        \* the CSV files uploaded, as sequences of records

Operation == {"BUY", "SELL"}

Record == [token : Token, kind : Operation \cup {"other"}, amount : Amount]

ASSUME LedgerAssumption ==
  /\ Owner \in [Token -> User]
  /\ Amount \subseteq Nat
  /\ Doubles \subseteq Int /\ Cells \subseteq Int /\ 0 \in Doubles \cap Cells
  /\ Files \subseteq Seq(Record)

ASSUME BalanceIdAssumption == IsFiniteSet(BalanceId)

VARIABLES
  tokens,      \* tokens that exist
  rows,        \* [BalanceId -> Row \cup {NoRow}], table TokenBalance
  req          \* [Req -> requests in flight \cup {NoRequest}]

ledgerVars == <<tokens, rows, req>>

Row == [token : Token, kind : Operation, amount : Int]

Distance(m, n) == IF m <= n THEN n - m ELSE m - n

(* Which of two equally near is taken is left open.                        *)
Nearest(S, n) == CHOOSE d \in S : \A e \in S : Distance(d, n) <= Distance(e, n)

Double(n) == Nearest(Doubles, n)

Column(n) == Nearest(Cells, n)

(* What the bodies' amounts are once parsed.                               *)
Numbers == {Double(n) : n \in Amount}

(* What a request remembers between two calls.  stale is a history         *)
(* variable: the token's sum was lowered since the request read it.        *)
CreateRequest == [op : {"create"}, pc : {"read", "write"}, user : User, token : Token,
                  kind : Operation, amount : Numbers, stale : BOOLEAN]
RemoveRequest == [op : {"remove"}, pc : {"owner", "write"}, user : User, row : BalanceId,
                  token : Token]
DropRequest   == [op : {"drop"}, user : User, token : Token]
ImportRequest == [op : {"import"}, user : User, file : Files, done : Nat]

Request == CreateRequest \cup RemoveRequest \cup DropRequest \cup ImportRequest

ASSUME NullAssumption == NoRow \notin Row /\ NoRequest \notin Request

-------------------------------------------------------------------------------
Owns(u, t) == t \in tokens /\ Owner[t] = u

Is(r, op) == req[r] # NoRequest /\ req[r].op = op

RowsIn(table, t) == {b \in BalanceId : table[b] # NoRow /\ table[b].token = t}

SumIn(table, t) == MapThenSumSet(LAMBDA b : table[b].amount, RowsIn(table, t))

RowsOf(t) == RowsIn(rows, t)

(* aggregate({where: {tokenId}, _sum: {amount}}); null is taken for 0.     *)
Sum(t) == SumIn(rows, t)

(* Mutant: no line is skipped. *)
ImportableAlways(rec) == TRUE

(* A line of a file is skipped unless it names a BUY or a SELL; an amount  *)
(* is then text, and "0" passes.                                          *)
Importable(rec) == rec.kind \in Operation

(* data.amount = -data.amount for a sell. *)
Signed(k, n) == IF k = "SELL" THEN -n ELSE n

(* The row that a line becomes; its amount never is a number.              *)
AsRow(rec) == [rec EXCEPT !.amount = Column(@)]

(* The lines of a file that are imported. *)
ImportableLines(file) == {i \in DOMAIN file : Importable(file[i])}

(* What the transaction of import r has written so far, by line.           *)
Staged(r) == {i \in ImportableLines(req[r].file) : i <= req[r].done}

StagedOf(r, t) == {i \in Staged(r) : req[r].file[i].token = t}

StagedSum(r, t) == MapThenSumSet(LAMBDA i : AsRow(req[r].file[i]).amount, StagedOf(r, t))

Fresh(b) == rows[b] = NoRow /\ \A r \in Req : Is(r, "remove") => req[r].row # b

FreshIds == {b \in BalanceId : Fresh(b)}

(* Bound: no more rows asked for than there are ids left.                  *)
Needs(q) == IF q = NoRequest THEN 0
            ELSE CASE q.op = "create" -> 1
                   [] q.op = "import" -> Len(q.file)
                   [] OTHER -> 0

TableHasRoom(q) ==
  Needs(q) + MapThenSumSet(LAMBDA r : Needs(req[r]), Req) <= Cardinality(FreshIds)

Hold(r, q) == /\ req[r] = NoRequest
              /\ TableHasRoom(q)
              /\ req' = [req EXCEPT ![r] = q]
              /\ UNCHANGED <<tokens, rows>>

Advance(r, pc) == /\ req' = [req EXCEPT ![r].pc = pc]
                  /\ UNCHANGED <<tokens, rows>>

(* The write of r: it is answered, and creates that have read the sum of a *)
(* token that is now lower work on old data.                               *)
Commit(r, table) ==
  /\ rows' = table
  /\ req' = [q \in Req |->
       IF q = r THEN NoRequest
       ELSE IF Is(q, "create") /\ SumIn(table, req[q].token) < Sum(req[q].token)
       THEN [req[q] EXCEPT !.stale = @ \/ req[q].pc = "write"]
       ELSE req[q]]
  /\ UNCHANGED tokens

-------------------------------------------------------------------------------
LedgerInit == /\ tokens = Token
              /\ rows = [b \in BalanceId |-> NoRow]
              /\ req = [r \in Req |-> NoRequest]

(* validateTokenBalanceInput, as far as amounts go. *)
ValidInput(n) == n > 0

(* createTokenBalanceService: the token, the sum, the row.                 *)
BeginCreate(r, u, t, k, n) ==
  /\ ValidInput(n)
  /\ Owns(u, t)
  /\ Hold(r, [op |-> "create", pc |-> "read", user |-> u, token |-> t,
              kind |-> k, amount |-> n, stale |-> FALSE])

(* Mutant: a sell is not compared with the sum. *)
ReadSumOnly(r) ==
  /\ Is(r, "create") /\ req[r].pc = "read"
  /\ Advance(r, "write")

(* actualBalance < data.amount: prisma's Decimal against a number.         *)
TooLittle(r) == req[r].kind = "SELL" /\ Double(Sum(req[r].token)) < req[r].amount

ReadSum(r) ==
  /\ Is(r, "create") /\ req[r].pc = "read"
  /\ ~TooLittle(r)
  /\ Advance(r, "write")

WriteCreate(r) ==
  /\ Is(r, "create") /\ req[r].pc = "write"
  /\ req[r].token \in tokens
  /\ \E b \in FreshIds :
       Commit(r, [rows EXCEPT ![b] = [token |-> req[r].token, kind |-> req[r].kind,
                                      amount |-> Signed(req[r].kind, Column(req[r].amount))]])

(* deleteTokenBalanceService: the row by id, its token by user, delete by  *)
(* id.                                                                     *)
BeginRemove(r, u, b) ==
  /\ rows[b] # NoRow
  /\ Hold(r, [op |-> "remove", pc |-> "owner", user |-> u, row |-> b,
              token |-> rows[b].token])

(* Mutant: the token is looked up without the user. *)
CheckTokenExists(r) ==
  /\ Is(r, "remove") /\ req[r].pc = "owner"
  /\ req[r].token \in tokens
  /\ Advance(r, "write")

CheckOwner(r) ==
  /\ Is(r, "remove") /\ req[r].pc = "owner"
  /\ Owns(req[r].user, req[r].token)
  /\ Advance(r, "write")

WriteRemove(r) ==
  /\ Is(r, "remove") /\ req[r].pc = "write"
  /\ rows[req[r].row] # NoRow
  /\ Commit(r, [rows EXCEPT ![req[r].row] = NoRow])

(* deleteTokenService.  The foreign key restricts: a token with rows stays,*)
(* and the delete waits for transactions that have written rows of it.     *)
BeginDrop(r, u, t) ==
  /\ Owns(u, t)
  /\ Hold(r, [op |-> "drop", user |-> u, token |-> t])

WriteDrop(r) ==
  /\ Is(r, "drop")
  /\ req[r].token \in tokens /\ RowsOf(req[r].token) = {}
  /\ \A q \in Req : Is(q, "import") => StagedOf(q, req[r].token) = {}
  /\ tokens' = tokens \ {req[r].token}
  /\ req' = [req EXCEPT ![r] = NoRequest]
  /\ UNCHANGED rows

(* importTokenBalancesService.  One record is one step: what it reads and  *)
(* what it writes are a matter of its own transaction until the commit.    *)
BeginImport(r, u, file) ==
  Hold(r, [op |-> "import", user |-> u, file |-> file, done |-> 0])

NextRecord(r) == req[r].file[req[r].done + 1]

(* The sum is null, and no sell is refused, while the token has no rows.   *)
(* lessThan compares decimals, the amount as it stands in the file.        *)
Uncovered(r, rec) ==
  /\ rec.kind = "SELL"
  /\ RowsOf(rec.token) # {} \/ StagedOf(r, rec.token) # {}
  /\ Sum(rec.token) + StagedSum(r, rec.token) < rec.amount

(* Mutant: prisma in place of tx, so that each record is committed.        *)
ImportRecordOutsideTx(r) ==
  /\ Is(r, "import") /\ req[r].done < Len(req[r].file)
  /\ LET rec == NextRecord(r)
     IN  /\ Importable(rec) /\ Owns(req[r].user, rec.token) /\ ~Uncovered(r, rec)
         /\ \E b \in FreshIds : rows' = [rows EXCEPT ![b] = AsRow(rec)]
  /\ req' = [req EXCEPT ![r].done = @ + 1]
  /\ UNCHANGED tokens

ImportRecord(r) ==
  /\ Is(r, "import") /\ req[r].done < Len(req[r].file)
  /\ LET rec == NextRecord(r)
     IN  Importable(rec) => Owns(req[r].user, rec.token) /\ ~Uncovered(r, rec)
  /\ req' = [req EXCEPT ![r].done = @ + 1]
  /\ UNCHANGED <<tokens, rows>>

(* The amount is written with the sign it has in the file, for a sell too. *)
ImportCommits(r) ==
  /\ Is(r, "import") /\ req[r].done = Len(req[r].file)
  /\ \E ids \in SUBSET FreshIds : \E line \in Bijection(ids, Staged(r)) :
       Commit(r, [b \in BalanceId |->
                    IF b \in ids THEN AsRow(req[r].file[line[b]]) ELSE rows[b]])

(* 404, 403, a missing row at the write, a foreign key, an import's record *)
(* that is refused or its transaction timing out.                          *)
Refuse(r) ==
  /\ \/ Is(r, "create") /\ req[r].pc = "read" /\ TooLittle(r)
     \/ Is(r, "create") /\ req[r].pc = "write" /\ req[r].token \notin tokens
     \/ Is(r, "remove") /\ req[r].pc = "owner" /\ ~Owns(req[r].user, req[r].token)
     \/ Is(r, "remove") /\ req[r].pc = "write" /\ rows[req[r].row] = NoRow
     \/ Is(r, "drop") /\ (req[r].token \notin tokens \/ RowsOf(req[r].token) # {})
     \/ Is(r, "import")
  /\ req' = [req EXCEPT ![r] = NoRequest]
  /\ UNCHANGED <<tokens, rows>>

Begin(r) ==
  \E u \in User :
    \/ \E t \in Token, k \in Operation, n \in Numbers : BeginCreate(r, u, t, k, n)
    \/ \E b \in BalanceId : BeginRemove(r, u, b)
    \/ \E t \in Token : BeginDrop(r, u, t)
    \/ \E file \in Files : BeginImport(r, u, file)

LedgerStep(r) == \/ Begin(r)
                 \/ ReadSum(r) \/ WriteCreate(r)
                 \/ CheckOwner(r) \/ WriteRemove(r)
                 \/ WriteDrop(r)
                 \/ ImportRecord(r) \/ ImportCommits(r)
                 \/ Refuse(r)

LedgerNext == \E r \in Req : LedgerStep(r)

LedgerSpec == LedgerInit /\ [][LedgerNext]_ledgerVars

-------------------------------------------------------------------------------
LedgerTypeOK ==
  /\ tokens \subseteq Token
  /\ rows \in [BalanceId -> Row \cup {NoRow}]
  /\ req \in [Req -> Request \cup {NoRequest}]

(* What a sell can take beyond a sum that, as a number, covers it.         *)
Rounding(n) == Column(Double(n)) - n

(* A sell is checked against the sum, a removal is not, two sells can pass *)
(* the check together (tokenBalance.service.ts:17-35, :155), and the check *)
(* compares numbers: a step that lowers a token's sum below zero is the    *)
(* removal of a row, a sell whose token was lowered after its check, or a  *)
(* sell that goes no further below zero than its sum was rounded up.       *)
Overdrafts ==
  \A t \in Token : SumIn(rows', t) < 0 /\ SumIn(rows', t) < Sum(t) =>
    \E r \in Req : /\ req'[r] = NoRequest
                   /\ \/ Is(r, "remove") /\ rows'[req[r].row] = NoRow
                      \/ /\ Is(r, "create") /\ req[r].kind = "SELL"
                         /\ req[r].stale \/ -SumIn(rows', t) <= Rounding(Sum(t))

OverdraftsExplained == [][Overdrafts]_ledgerVars

(* Removals find the row by id alone and delete it by id alone: a ledger   *)
(* still changes only through a request of the owner of its token.         *)
OwnLedgersOnly ==
  [][\A b \in BalanceId : rows'[b] # rows[b] =>
       \E r \in Req :
         /\ req[r] # NoRequest /\ req'[r] = NoRequest
         /\ rows[b] # NoRow => Owner[rows[b].token] = req[r].user
         /\ rows'[b] # NoRow => Owner[rows'[b].token] = req[r].user]_ledgerVars

(* import.service.ts:155: a file is imported whole, in one step for        *)
(* everybody else, or leaves no row.                                       *)
ImportAllOrNothing ==
  [][\A r \in Req : Is(r, "import") /\ req'[r] # req[r] /\ rows' # rows =>
       /\ req'[r] = NoRequest
       /\ Cardinality({b \in BalanceId : rows'[b] # rows[b]})
            = Cardinality(ImportableLines(req[r].file))]_ledgerVars

(* Why these hold.  A request works for the owner of its token from its    *)
(* ownership check on, an import record by record; a removal knows the     *)
(* token of its row, whose id no other row takes; and a sell about to be   *)
(* written is covered, as numbers go, unless its token was lowered since.  *)
OwnersChecked ==
  \A r \in Req :
    /\ Is(r, "create") => Owner[req[r].token] = req[r].user
    /\ Is(r, "remove") /\ req[r].pc = "write" => Owner[req[r].token] = req[r].user
    /\ Is(r, "import") =>
         /\ req[r].done <= Len(req[r].file)
         /\ \A i \in Staged(r) : Owner[req[r].file[i].token] = req[r].user

RemovalsKnowToken ==
  \A r \in Req : Is(r, "remove") /\ rows[req[r].row] # NoRow =>
                   rows[req[r].row].token = req[r].token

SellsCovered ==
  \A r \in Req :
    Is(r, "create") /\ req[r].kind = "SELL" /\ req[r].pc = "write" /\ ~req[r].stale =>
      Double(Sum(req[r].token)) >= req[r].amount

LedgerInv == LedgerTypeOK /\ OwnersChecked /\ RemovalsKnowToken /\ SellsCovered

(* tests/tokenBalance.spec.ts:131 "toBe(-amount)": a sell counts against   *)
(* the balance, so that the balance is what was bought less what was sold. *)
Volume(t, k) ==
  MapThenSumSet(LAMBDA b : IF rows[b].amount < 0 THEN -rows[b].amount ELSE rows[b].amount,
                {b \in RowsOf(t) : rows[b].kind = k})

BalanceIsBoughtLessSold == \A t \in Token : Sum(t) = Volume(t, "BUY") - Volume(t, "SELL")
===============================================================================
