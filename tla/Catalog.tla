-------------------------------- MODULE Catalog --------------------------------
(***************************************************************************)
(* Categories and tokens: services/category.service.ts, token.service.ts   *)
(* and the two imports of import.service.ts that write line by line, with  *)
(* no transaction.  Each awaited prisma call is a step.  A request that is *)
(* answered with an error is not begun, or ends in Refuse; an import then  *)
(* leaves the lines it has written.  Categories and users are never        *)
(* deleted.  Names of tokens and descriptions are data nothing depends on. *)
(*                                                                         *)
(* The body of PUT /tokens reaches prisma whole.  Beside the fields of the *)
(* documentation it may name another owner (userId, or a connect of the    *)
(* user relation) and connect a category past the look-up of categoryId.   *)
(* Bodies that rewrite the id or write to other tables through a relation  *)
(* are left out.                                                           *)
(***************************************************************************)
EXTENDS Naturals, FiniteSets, Sequences

CONSTANTS
  User,
  CategoryId, TokenId,        \* row identifiers (uuids)
  Name,                       \* names of categories
  Symbol, Blank,              \* symbols of tokens, and the empty text
  Req,                        \* slots for requests in flight: bounds the concurrency
  NoRow, NoRequest, Absent,
  Patches,                    \* the PUT bodies sent for tokens
  TokenFiles, CategoryFiles   \* the CSV files uploaded, as sequences of records

(* A body of an update: categoryId, or a connect of the category relation; *)
(* prisma refuses a body with both.                                        *)
Patch == {p \in [symbol : Symbol \cup {Blank, Absent}, category : CategoryId \cup {Absent},
                 connect : CategoryId \cup {Absent}, owner : User \cup {Absent}] :
            p.category = Absent \/ p.connect = Absent}

(* The documented fields alone. *)
Plain(s, c) == [symbol |-> s, category |-> c, connect |-> Absent, owner |-> Absent]

Line == [symbol : Symbol \cup {Blank}, category : CategoryId]

ASSUME CatalogAssumption ==
  /\ Patches \subseteq Patch
  /\ TokenFiles \subseteq Seq(Line) /\ CategoryFiles \subseteq Seq(Name \cup {Blank})
  /\ Blank \notin Symbol \cup Name
  /\ IsFiniteSet(TokenId) /\ IsFiniteSet(CategoryId)   \* a uuid has 128 bits

VARIABLES
  categories,   \* [CategoryId -> rows], table Category
  tokens,       \* [TokenId -> rows], table Token
  req,          \* [Req -> requests in flight \cup {NoRequest}]
  unchecked,    \* history: tokens whose symbol or owner was last written
                \* without an up-to-date look among the owner's tokens
  strayed,      \* history: tokens whose owner or category was last written
                \* without a look for the category among the owner's
  holders       \* history: the users who have owned a token since its creation

history == <<unchecked, strayed, holders>>

catalogVars == <<categories, tokens, req, unchecked, strayed, holders>>

CategoryRow == [owner : User, name : Name]
TokenRow == [owner : User, symbol : Symbol \cup {Blank}, category : CategoryId]

(* A token request between two calls.  stale, a history variable, says     *)
(* that since it began, or, for an import, since it looked for the row of  *)
(* its line, another request of the user has written the tables, or any    *)
(* request a row that was or became the user's.                            *)
TokenRequest == [op : {"create", "update", "delete"}, pc : {"symbol", "category", "write"},
                 user : User, id : TokenId \cup {NoRow}, patch : Patch, stale : BOOLEAN]

TokenImport == [op : {"importTokens"}, pc : {"line", "find", "write"}, user : User,
                file : TokenFiles, line : Nat \ {0}, id : TokenId \cup {NoRow}, stale : BOOLEAN]

CategoryImport == [op : {"importCategories"}, pc : {"line", "write"}, user : User,
                   file : CategoryFiles, line : Nat \ {0}, id : CategoryId \cup {NoRow},
                   stale : BOOLEAN]

Request == TokenRequest \cup TokenImport \cup CategoryImport

ASSUME NullsAssumption == /\ NoRow \notin TokenRow \cup CategoryRow \cup TokenId \cup CategoryId
                          /\ NoRequest \notin Request \cup Req
                          /\ Absent \notin Symbol \cup {Blank} \cup CategoryId \cup User

-------------------------------------------------------------------------------
OwnsCategory(u, c) == categories[c] # NoRow /\ categories[c].owner = u

OwnsToken(u, t) == tokens[t] # NoRow /\ tokens[t].owner = u

(* The user's tokens with a symbol.                                        *)
WithSymbol(table, u, s) ==
  {t \in TokenId : table[t] # NoRow /\ table[t].owner = u /\ table[t].symbol = s}

(* findFirst of a token import: symbol, category and user.                 *)
Matching(table, u, rec) == {t \in WithSymbol(table, u, rec.symbol) : table[t].category = rec.category}

(* findFirst of a category import: name and user.                          *)
Named(table, u, n) == {c \in CategoryId : table[c] # NoRow /\ table[c] = [owner |-> u, name |-> n]}

Is(r, op) == req[r] # NoRequest /\ req[r].op = op

At(r, op, pc) == Is(r, op) /\ req[r].pc = pc

(* uuids do not repeat: an id nobody holds any more stands for a new one.  *)
(* Bound: a create waits until there is one.                               *)
FreshToken(t) == tokens[t] = NoRow /\ \A r \in Req : req[r] # NoRequest => req[r].id # t

FreshCategory(c) == categories[c] = NoRow

Hold(r, q) == /\ req[r] = NoRequest
              /\ req' = [req EXCEPT ![r] = q]
              /\ UNCHANGED <<categories, tokens, history>>

Advance(r, pc) == /\ req' = [req EXCEPT ![r].pc = pc]
                  /\ UNCHANGED <<categories, tokens, history>>

(* A write for the users us: r goes on as q, the other requests of these   *)
(* users work on old data.                                                 *)
Disturb(us, r, q) ==
  req' = [p \in Req |-> CASE p = r -> q
                          [] p # r /\ req[p] # NoRequest /\ req[p].user \in us
                               -> [req[p] EXCEPT !.stale = TRUE]
                          [] OTHER -> req[p]]

(* Who has owned each token, once the table is the given one.              *)
Held(table) == [t \in TokenId |-> IF table[t] = NoRow THEN {}
                                  ELSE holders[t] \cup {table[t].owner}]

(* The end of a request, and of a line of an import.                       *)
Answered(r) == NoRequest

NextLine(r) == [req[r] EXCEPT !.line = @ + 1, !.pc = "line", !.id = NoRow, !.stale = FALSE]

CatalogInit == /\ categories = [c \in CategoryId |-> NoRow]
               /\ tokens = [t \in TokenId |-> NoRow]
               /\ req = [r \in Req |-> NoRequest]
               /\ unchecked = {} /\ strayed = {}
               /\ holders = [t \in TokenId |-> {}]

-------------------------------------------------------------------------------
(* createNewCategory and updateCategoryById, one write each behind a read  *)
(* of the user, who exists.  The update is by id and user; names may       *)
(* repeat.                                                                 *)
CreateCategory(u, n) ==
  /\ \E c \in CategoryId : /\ FreshCategory(c)
                           /\ categories' = [categories EXCEPT ![c] = [owner |-> u, name |-> n]]
  /\ Disturb({u}, NoRequest, NoRequest)
  /\ UNCHANGED <<tokens, history>>

UpdateCategory(u, c, n) ==
  /\ OwnsCategory(u, c)
  /\ categories' = [categories EXCEPT ![c].name = n]
  /\ Disturb({u}, NoRequest, NoRequest)
  /\ UNCHANGED <<tokens, history>>

(* createTokenService: category, symbol, create.                           *)
BeginCreateToken(r, u, s, c) ==
  /\ OwnsCategory(u, c)
  /\ Hold(r, [op |-> "create", pc |-> "symbol", user |-> u, id |-> NoRow,
              patch |-> Plain(s, c), stale |-> FALSE])

(* updateTokenService: the token, the symbol if the body names another     *)
(* one, the category if it names one, update by id.                        *)
BeginUpdateToken(r, u, t, p) ==
  /\ OwnsToken(u, t)
  /\ Hold(r, [op |-> "update", user |-> u, id |-> t, patch |-> p, stale |-> FALSE,
              pc |-> IF p.symbol \notin {Absent, Blank, tokens[t].symbol} THEN "symbol"
                     ELSE IF p.category # Absent THEN "category" ELSE "write"])

BeginDeleteToken(r, u, t) ==
  /\ OwnsToken(u, t)
  /\ Hold(r, [op |-> "delete", pc |-> "write", user |-> u, id |-> t, stale |-> FALSE,
              patch |-> Plain(Absent, Absent)])

SymbolTaken(r) == WithSymbol(tokens, req[r].user, req[r].patch.symbol) \ {req[r].id} # {}

AfterSymbol(r) == IF req[r].op = "update" /\ req[r].patch.category # Absent
                  THEN "category" ELSE "write"

(* Mutant: the update looks for the symbol, the create does not. *)
CheckSymbolOfUpdate(r) ==
  /\ \/ At(r, "create", "symbol")
     \/ At(r, "update", "symbol") /\ ~SymbolTaken(r)
  /\ Advance(r, AfterSymbol(r))

CheckSymbol(r) ==
  /\ At(r, "create", "symbol") \/ At(r, "update", "symbol")
  /\ ~SymbolTaken(r)
  /\ Advance(r, AfterSymbol(r))

(* Mutant: the category is looked up by id alone. *)
CheckCategoryExists(r) ==
  /\ At(r, "update", "category")
  /\ categories[req[r].patch.category] # NoRow
  /\ Advance(r, "write")

CheckCategory(r) ==
  /\ At(r, "update", "category")
  /\ OwnsCategory(req[r].user, req[r].patch.category)
  /\ Advance(r, "write")

WriteCreateToken(r) ==
  /\ At(r, "create", "write")
  /\ \E t \in TokenId :
       /\ FreshToken(t)
       /\ tokens' = [tokens EXCEPT ![t] =
            [owner |-> req[r].user, symbol |-> req[r].patch.symbol, category |-> req[r].patch.category]]
       /\ unchecked' = IF req[r].stale THEN unchecked \cup {t} ELSE unchecked \ {t}
       /\ strayed' = strayed \ {t}
  /\ holders' = Held(tokens')
  /\ Disturb({req[r].user}, r, Answered(r))
  /\ UNCHANGED categories

(* Mutant: fields that the body leaves out are overwritten. *)
PatchedWhole(row, p) ==
  [owner |-> row.owner, symbol |-> p.symbol, category |-> p.category]

(* The row once the body is laid over it.                                  *)
Patched(row, p) ==
  [owner    |-> IF p.owner = Absent THEN row.owner ELSE p.owner,
   symbol   |-> IF p.symbol = Absent THEN row.symbol ELSE p.symbol,
   category |-> CASE p.category # Absent -> p.category
                  [] p.connect # Absent -> p.connect
                  [] OTHER -> row.category]

(* A body that keeps the symbol, as the request has read it, or names the  *)
(* empty one is not checked; nor is a connected category, nor anything     *)
(* that depends on the new owner.                                          *)
WriteUpdateToken(r) ==
  /\ At(r, "update", "write")
  /\ LET t   == req[r].id
         p   == req[r].patch
         new == Patched(tokens[t], p)
     IN  /\ tokens[t] # NoRow
         /\ p.connect # Absent => categories[p.connect] # NoRow
         /\ tokens' = [tokens EXCEPT ![t] = new]
         /\ unchecked' = CASE new.owner # tokens[t].owner -> unchecked \cup {t}
                           [] new.owner = tokens[t].owner /\ new.symbol = tokens[t].symbol
                                -> unchecked
                           [] OTHER -> IF p.symbol = Blank \/ req[r].stale
                                       THEN unchecked \cup {t} ELSE unchecked \ {t}
         /\ strayed' = CASE p.category # Absent -> IF new.owner = req[r].user
                                                  THEN strayed \ {t} ELSE strayed \cup {t}
                         [] p.category = Absent
                            /\ (p.connect # Absent \/ new.owner # tokens[t].owner)
                              -> strayed \cup {t}
                         [] OTHER -> strayed
         /\ Disturb({req[r].user, tokens[t].owner, new.owner}, r, Answered(r))
  /\ holders' = Held(tokens')
  /\ UNCHANGED categories

WriteDeleteToken(r) ==
  /\ At(r, "delete", "write")
  /\ tokens[req[r].id] # NoRow
  /\ tokens' = [tokens EXCEPT ![req[r].id] = NoRow]
  /\ unchecked' = unchecked \ {req[r].id}
  /\ strayed' = strayed \ {req[r].id}
  /\ holders' = Held(tokens')
  /\ Disturb({req[r].user, tokens[req[r].id].owner}, r, Answered(r))
  /\ UNCHANGED categories

-------------------------------------------------------------------------------
(* importTokensService and importCategoriesService.                        *)
BeginImport(r, u, op, file) ==
  Hold(r, [op |-> op, pc |-> "line", user |-> u, file |-> file, line |-> 1, id |-> NoRow,
           stale |-> FALSE])

OnLine(r) == req[r].line <= Len(req[r].file)

Record(r) == req[r].file[req[r].line]

SkipLine(r) ==
  /\ \/ At(r, "importTokens", "line") /\ OnLine(r) /\ Record(r).symbol = Blank
     \/ At(r, "importCategories", "line") /\ OnLine(r) /\ Record(r) = Blank
  /\ req' = [req EXCEPT ![r] = NextLine(r)]
  /\ UNCHANGED <<categories, tokens, history>>

ImportEnds(r) ==
  /\ At(r, "importTokens", "line") \/ At(r, "importCategories", "line")
  /\ ~OnLine(r)
  /\ req' = [req EXCEPT ![r] = Answered(r)]
  /\ UNCHANGED <<categories, tokens, history>>

CheckLineCategory(r) ==
  /\ At(r, "importTokens", "line") /\ OnLine(r) /\ Record(r).symbol # Blank
  /\ OwnsCategory(req[r].user, Record(r).category)
  /\ req' = [req EXCEPT ![r].pc = "find", ![r].stale = FALSE]
  /\ UNCHANGED <<categories, tokens, history>>

(* What a findFirst may answer: any of the rows, or null.                  *)
First(found) == IF found = {} THEN {NoRow} ELSE found

Found(r, found) ==
  /\ \E i \in First(found) :
       req' = [req EXCEPT ![r].pc = "write", ![r].id = i, ![r].stale = FALSE]
  /\ UNCHANGED <<categories, tokens, history>>

(* Mutant: tokens of other users are found as well. *)
FindTokenOfAnyUser(r) ==
  /\ At(r, "importTokens", "find")
  /\ Found(r, UNION {WithSymbol(tokens, u, Record(r).symbol) : u \in User})

FindToken(r) ==
  /\ At(r, "importTokens", "find")
  /\ Found(r, Matching(tokens, req[r].user, Record(r)))

FindCategory(r) ==
  /\ At(r, "importCategories", "line") /\ OnLine(r) /\ Record(r) # Blank
  /\ Found(r, Named(categories, req[r].user, Record(r)))

(* The token found is updated by id, or one is created; in another         *)
(* category the user may have a token of the symbol already.               *)
WriteLineToken(r) ==
  /\ At(r, "importTokens", "write")
  /\ \E t \in TokenId :
       LET owner == IF req[r].id = NoRow THEN req[r].user ELSE tokens[t].owner
       IN  /\ IF req[r].id = NoRow THEN FreshToken(t) ELSE t = req[r].id /\ tokens[t] # NoRow
           /\ tokens' = [tokens EXCEPT ![t] =
                [owner |-> owner, symbol |-> Record(r).symbol, category |-> Record(r).category]]
           /\ unchecked' = IF tokens[t] # NoRow /\ tokens[t].symbol = Record(r).symbol
                           THEN unchecked ELSE unchecked \cup {t}
           /\ strayed' = IF owner = req[r].user THEN strayed \ {t} ELSE strayed \cup {t}
           /\ Disturb({req[r].user, owner}, r, NextLine(r))
  /\ holders' = Held(tokens')
  /\ UNCHANGED categories

(* Mutant: a line is always a new category. *)
WriteLineCategoryNew(r) ==
  /\ At(r, "importCategories", "write")
  /\ \E c \in CategoryId :
       /\ FreshCategory(c)
       /\ categories' = [categories EXCEPT ![c] = [owner |-> req[r].user, name |-> Record(r)]]
  /\ Disturb({req[r].user}, r, NextLine(r))
  /\ UNCHANGED <<tokens, history>>

WriteLineCategory(r) ==
  /\ At(r, "importCategories", "write")
  /\ \E c \in CategoryId :
       /\ IF req[r].id = NoRow THEN FreshCategory(c) ELSE c = req[r].id
       /\ categories' = [categories EXCEPT ![c] =
            [owner |-> IF req[r].id = NoRow THEN req[r].user ELSE @.owner, name |-> Record(r)]]
  /\ Disturb({req[r].user}, r, NextLine(r))
  /\ UNCHANGED <<tokens, history>>

(* An error: a symbol taken, a category not found, a row that is gone or   *)
(* cannot be connected at the write (P2025), balances that keep a token    *)
(* from being deleted.                                                     *)
Refuse(r) ==
  /\ \/ (At(r, "create", "symbol") \/ At(r, "update", "symbol")) /\ SymbolTaken(r)
     \/ At(r, "update", "category") /\ ~OwnsCategory(req[r].user, req[r].patch.category)
     \/ At(r, "update", "write") /\ tokens[req[r].id] = NoRow
     \/ /\ At(r, "update", "write") /\ req[r].patch.connect # Absent
        /\ categories[req[r].patch.connect] = NoRow
     \/ At(r, "delete", "write")
     \/ /\ At(r, "importTokens", "line") /\ OnLine(r) /\ Record(r).symbol # Blank
        /\ ~OwnsCategory(req[r].user, Record(r).category)
     \/ At(r, "importTokens", "write") /\ req[r].id # NoRow /\ tokens[req[r].id] = NoRow
  /\ req' = [req EXCEPT ![r] = Answered(r)]
  /\ UNCHANGED <<categories, tokens, history>>

-------------------------------------------------------------------------------
CategoryStep == \E u \in User, n \in Name :
  CreateCategory(u, n) \/ \E c \in CategoryId : UpdateCategory(u, c, n)

BeginToken(r) == \E u \in User :
  \/ \E s \in Symbol, c \in CategoryId : BeginCreateToken(r, u, s, c)
  \/ \E t \in TokenId : BeginDeleteToken(r, u, t) \/ \E p \in Patches : BeginUpdateToken(r, u, t, p)

TokenStep(r) == CheckSymbol(r) \/ CheckCategory(r) \/ WriteCreateToken(r)
                  \/ WriteUpdateToken(r) \/ WriteDeleteToken(r)

ImportStep(r) ==
  \/ \E u \in User : \/ \E file \in TokenFiles : BeginImport(r, u, "importTokens", file)
                     \/ \E file \in CategoryFiles : BeginImport(r, u, "importCategories", file)
  \/ SkipLine(r) \/ CheckLineCategory(r) \/ FindToken(r) \/ FindCategory(r)
  \/ WriteLineToken(r) \/ WriteLineCategory(r) \/ ImportEnds(r)

CatalogNext == CategoryStep \/ \E r \in Req : BeginToken(r) \/ TokenStep(r) \/ ImportStep(r) \/ Refuse(r)

CatalogSpec == CatalogInit /\ [][CatalogNext]_catalogVars

-------------------------------------------------------------------------------
CatalogTypeOK ==
  /\ categories \in [CategoryId -> CategoryRow \cup {NoRow}]
  /\ tokens \in [TokenId -> TokenRow \cup {NoRow}]
  /\ req \in [Req -> Request \cup {NoRequest}]
  /\ unchecked \subseteq TokenId /\ strayed \subseteq TokenId
  /\ holders \in [TokenId -> SUBSET User]

(* token.service.ts:73 and :124 look for the symbol before they write it:  *)
(* of the tokens a user has of one symbol, all but one got it by a check   *)
(* that was out of date, by an import, as the empty symbol, or by being    *)
(* handed over.                                                            *)
SameSymbolExplained ==
  \A t \in TokenId : tokens[t] # NoRow =>
    Cardinality(WithSymbol(tokens, tokens[t].owner, tokens[t].symbol) \ unchecked) <= 1

(* The category is looked up by user before each of the four ways to put a *)
(* token into one, and the token is then written by id: a token is in a    *)
(* category its owner has, unless the last write of its category or owner  *)
(* was an update that connected the category or named the owner, neither   *)
(* of which is looked at, or was overtaken by one that named an owner.     *)
StraysExplained ==
  \A t \in TokenId : tokens[t] # NoRow /\ t \notin strayed =>
    OwnsCategory(tokens[t].owner, tokens[t].category)

(* What a request in flight still relies on, long after its reads: the     *)
(* category it is to write is its user's; and the row it is to write has   *)
(* been the user's, and still is if nothing has disturbed the request.     *)
Backed(r) ==
  LET q == req[r]
  IN  /\ q.op # "importCategories" /\ q.id # NoRow /\ tokens[q.id] # NoRow =>
           /\ q.user \in holders[q.id]
           /\ ~q.stale => tokens[q.id].owner = q.user
      /\ q.op = "create" => /\ q.id = NoRow /\ Absent \notin {q.patch.symbol, q.patch.category}
                            /\ OwnsCategory(q.user, q.patch.category)
      /\ q.op \in {"update", "delete"} => q.id \in TokenId
      /\ q.pc \in {"line", "find"} => q.id = NoRow
      /\ q.op = "update" /\ q.pc = "write" =>
           q.patch.category = Absent \/ OwnsCategory(q.user, q.patch.category)
      /\ q.op \in {"importTokens", "importCategories"} /\ q.pc # "line" => OnLine(r)
      /\ q.op = "importTokens" /\ q.pc # "line" => OwnsCategory(q.user, Record(r).category)
      /\ q.op = "importCategories" /\ q.pc # "line" => Record(r) # Blank
      /\ q.op = "importCategories" /\ q.id # NoRow => OwnsCategory(q.user, q.id)

(* Inductive: rows are written by id in category.service.ts:89,            *)
(* token.service.ts:146 and import.service.ts:110 on the strength of reads *)
(* long past, and what those reads found still holds at the write.         *)
CatalogInv == /\ CatalogTypeOK
              /\ StraysExplained
              /\ \A t \in TokenId : tokens[t] # NoRow => tokens[t].owner \in holders[t]
              /\ \A r \in Req : req[r] # NoRequest => Backed(r)

(* Of two tokens of one user and symbol, one is unchecked.                 *)
PairsExplained ==
  \A s, t \in TokenId :
    /\ s # t /\ tokens[s] # NoRow /\ tokens[t] # NoRow
    /\ tokens[s].owner = tokens[t].owner /\ tokens[s].symbol = tokens[t].symbol
    => s \in unchecked \/ t \in unchecked

(* The write of r will give a token a symbol it has not: a new token, or   *)
(* one whose symbol, now, is another than the body's.                      *)
BringsSymbol(r) ==
  \/ req[r].op = "create"
  \/ /\ req[r].op = "update" /\ req[r].patch.symbol \notin {Absent, Blank}
     /\ tokens[req[r].id] # NoRow /\ tokens[req[r].id].symbol # req[r].patch.symbol

(* What a request's last look for a symbol or a row has found is true      *)
(* until another request disturbs it.                                      *)
UpToDate(r) ==
  LET q == req[r]
  IN  ~q.stale =>
        /\ BringsSymbol(r) /\ q.pc # "symbol" => ~SymbolTaken(r)
        /\ q.op = "importTokens" /\ q.pc = "write" =>
             q.id \in First(Matching(tokens, q.user, Record(r)))
        /\ q.op = "importCategories" /\ q.pc = "write" =>
             q.id \in First(Named(categories, q.user, Record(r)))

LooksStand == \A r \in Req : req[r] # NoRequest => UpToDate(r)

(* Inductive: what is written unchecked, or disturbed, is on record.       *)
CheckedInv == CatalogInv /\ PairsExplained /\ LooksStand

(* Tokens are written and deleted by id after reads by user, line after    *)
(* line in an import, and an update may name another owner: a token is     *)
(* created for who asks; it changes only through a request of its owner,   *)
(* or an overtaken one of a former owner; and it gets another owner only   *)
(* through an update whose body names that owner.                          *)
HolderWrites ==
  \A t \in TokenId : tokens'[t] # tokens[t] =>
    \E r \in Req :
      LET owner == IF tokens[t] = NoRow THEN req[r].user ELSE tokens[t].owner
      IN  /\ req[r] # NoRequest /\ req[r].pc = "write" /\ req'[r] # req[r]
          /\ \/ req[r].user = owner
             \/ req[r].stale /\ req[r].user \in holders[t]
          /\ tokens'[t] # NoRow /\ tokens'[t].owner # owner =>
               req[r].op = "update" /\ req[r].patch.owner = tokens'[t].owner

TokensChangeByHolders == [][HolderWrites]_catalogVars

(* A line left undisturbed is an upsert, so that a file imported again,    *)
(* after a failure half-way or in full, doubles nothing: it leaves as many *)
(* rows of its key as there were, or one.                                  *)
AtLeastOne(n) == IF n = 0 THEN 1 ELSE n

Upserts ==
  \A r \in Req : req[r] # NoRequest /\ ~req[r].stale =>
    /\ At(r, "importTokens", "write") /\ req'[r] = NextLine(r) =>
         Cardinality(Matching(tokens', req[r].user, Record(r)))
           = AtLeastOne(Cardinality(Matching(tokens, req[r].user, Record(r))))
    /\ At(r, "importCategories", "write") /\ req'[r] = NextLine(r) =>
         Cardinality(Named(categories', req[r].user, Record(r)))
           = AtLeastOne(Cardinality(Named(categories, req[r].user, Record(r))))

ImportUpserts == [][Upserts]_catalogVars
===============================================================================
