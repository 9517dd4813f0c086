------------------------------ MODULE CatalogProofs ------------------------------
(***************************************************************************)
(* Machine-checked proofs about Catalog, for any number of users,          *)
(* categories, tokens and requests in flight, and any files and bodies.    *)
(***************************************************************************)
EXTENDS Catalog, FiniteSetTheorems, TLAPS

(* What is known of a request from its operation.                          *)
LEMMA Kinds ==
  ASSUME CatalogTypeOK, NEW r \in Req, req[r] # NoRequest
  PROVE  /\ req[r] \in Request /\ req[r].user \in User
         /\ req[r].op \in {"create", "update", "delete"} => req[r] \in TokenRequest
         /\ req[r].op = "importTokens" => req[r] \in TokenImport
         /\ req[r].op = "importCategories" => req[r] \in CategoryImport
  <1>1. req[r] \in Request
    BY DEF CatalogTypeOK
  <1>2. /\ req[r] \in TokenRequest => req[r].user \in User /\ req[r].op \in {"create", "update", "delete"}
        /\ req[r] \in TokenImport => req[r].user \in User /\ req[r].op = "importTokens"
        /\ req[r] \in CategoryImport => req[r].user \in User /\ req[r].op = "importCategories"
    BY DEF TokenRequest, TokenImport, CategoryImport
  <1> QED BY <1>1, <1>2 DEF Request

LEMMA Records ==
  ASSUME CatalogTypeOK, NEW r \in Req, req[r] # NoRequest, OnLine(r)
  PROVE  /\ req[r].op = "importTokens" => Record(r) \in Line
         /\ req[r].op = "importCategories" => Record(r) \in Name \cup {Blank}
  <1>1. ASSUME req[r].op = "importTokens" PROVE Record(r) \in Line
    <2>1. req[r].file \in Seq(Line) /\ req[r].line \in Nat \ {0}
      BY <1>1, Kinds, CatalogAssumption DEF TokenImport
    <2> QED BY <2>1 DEF OnLine, Record
  <1>2. ASSUME req[r].op = "importCategories" PROVE Record(r) \in Name \cup {Blank}
    <2>1. req[r].file \in Seq(Name \cup {Blank}) /\ req[r].line \in Nat \ {0}
      BY <1>2, Kinds, CatalogAssumption DEF CategoryImport
    <2> QED BY <2>1 DEF OnLine, Record
  <1> QED BY <1>1, <1>2

(* A step that moves one request and leaves the tables alone.              *)
LEMMA QuietStep ==
  ASSUME CatalogInv, NEW r \in Req, NEW q \in Request \cup {NoRequest},
         req' = [req EXCEPT ![r] = q], UNCHANGED <<categories, tokens, history>>,
         q # NoRequest => Backed(r)'
  PROVE  CatalogInv'
  <1> USE DEF history
  <1>1. CatalogTypeOK'
    BY DEF CatalogInv, CatalogTypeOK
  <1>2. /\ StraysExplained'
        /\ \A t \in TokenId : tokens'[t] # NoRow => tokens'[t].owner \in holders'[t]
    BY DEF CatalogInv, StraysExplained, OwnsCategory
  <1>3. ASSUME NEW p \in Req, req'[p] # NoRequest PROVE Backed(p)'
    <2>1. CASE p = r
      BY <1>3, <2>1 DEF CatalogInv, CatalogTypeOK
    <2>2. CASE p # r
      <3>1. req'[p] = req[p] /\ Backed(p)
        BY <1>3, <2>2 DEF CatalogInv, CatalogTypeOK
      <3> QED BY <3>1 DEF Backed, OwnsCategory, OnLine, Record
    <2> QED BY <2>1, <2>2
  <1> QED BY <1>1, <1>2, <1>3 DEF CatalogInv

(* A write for the users us: it takes no category from its owner, and a    *)
(* token from a request that holds it only if its owner is one of us.      *)
LEMMA WriteStep ==
  ASSUME CatalogInv, NEW r \in Req \cup {NoRequest}, NEW us, NEW q \in Request \cup {NoRequest},
         Disturb(us, r, q),
         categories' \in [CategoryId -> CategoryRow \cup {NoRow}],
         tokens' \in [TokenId -> TokenRow \cup {NoRow}],
         unchecked' \subseteq TokenId, strayed' \subseteq TokenId,
         holders' \in [TokenId -> SUBSET User],
         \A v, c : OwnsCategory(v, c) => OwnsCategory(v, c)',
         \A t \in TokenId : tokens'[t] # NoRow => tokens'[t].owner \in holders'[t],
         \A p \in Req : req[p] # NoRequest /\ req[p].op # "importCategories" /\ req[p].id # NoRow
           /\ tokens'[req[p].id] # NoRow =>
             /\ tokens[req[p].id] # NoRow /\ holders[req[p].id] \subseteq holders'[req[p].id]
             /\ tokens[req[p].id].owner \notin us =>
                  tokens'[req[p].id].owner = tokens[req[p].id].owner,
         StraysExplained',
         r \in Req /\ q # NoRequest => Backed(r)'
  PROVE  CatalogInv'
  <1>1. ASSUME NEW p \in Req, p # r
        PROVE  /\ \/ req'[p] = req[p] /\ (req[p] # NoRequest => req[p].user \notin us)
                  \/ req[p] # NoRequest /\ req'[p] = [req[p] EXCEPT !.stale = TRUE]
               /\ req'[p] \in Request \cup {NoRequest}
    <2>1. \/ req'[p] = req[p] /\ (req[p] # NoRequest => req[p].user \notin us)
          \/ req[p] # NoRequest /\ req'[p] = [req[p] EXCEPT !.stale = TRUE]
      BY <1>1 DEF Disturb
    <2>2. req[p] \in Request => [req[p] EXCEPT !.stale = TRUE] \in Request
      BY DEF Request, TokenRequest, TokenImport, CategoryImport
    <2> QED BY <2>1, <2>2 DEF CatalogInv, CatalogTypeOK
  <1>2. r \in Req => req'[r] = q
    BY DEF Disturb
  <1>3. CatalogTypeOK'
    BY <1>1, <1>2 DEF Disturb, CatalogTypeOK
  <1>4. ASSUME NEW p \in Req, p # r, req'[p] # NoRequest PROVE Backed(p)'
    <2>1. req[p] # NoRequest /\ req[p] \in Request
      BY <1>1, <1>4 DEF CatalogInv, CatalogTypeOK
    <2>2. /\ req'[p].op = req[p].op /\ req'[p].pc = req[p].pc /\ req'[p].user = req[p].user
          /\ req'[p].id = req[p].id
          /\ ~req'[p].stale => ~req[p].stale /\ req[p].user \notin us
          /\ req[p] \in TokenRequest => req'[p].patch = req[p].patch
          /\ req[p] \in TokenImport \cup CategoryImport =>
               req'[p].file = req[p].file /\ req'[p].line = req[p].line
      BY <1>1, <1>4, <2>1 DEF Request, TokenRequest, TokenImport, CategoryImport
    <2>3. Backed(p)
      BY <2>1 DEF CatalogInv
    <2>4. req[p].op # "importCategories" /\ req[p].id # NoRow /\ tokens'[req[p].id] # NoRow =>
            /\ req[p].user \in holders'[req[p].id]
            /\ ~req'[p].stale => tokens'[req[p].id].owner = req[p].user
      BY <2>1, <2>2, <2>3 DEF Backed
    <2>5. CASE req[p] \in TokenRequest
      BY <2>1, <2>2, <2>3, <2>4, <2>5 DEF Backed, TokenRequest
    <2>6. CASE req[p] \in TokenImport \cup CategoryImport
      <3>1. OnLine(p)' = OnLine(p) /\ Record(p)' = Record(p)
        BY <2>2, <2>6 DEF OnLine, Record
      <3> QED BY <2>1, <2>2, <2>3, <2>4, <2>6, <3>1 DEF Backed, TokenImport, CategoryImport
    <2> QED BY <2>1, <2>5, <2>6 DEF Request
  <1> QED BY <1>2, <1>3, <1>4 DEF CatalogInv

-------------------------------------------------------------------------------
(* Token requests: the reads.                                              *)
LEMMA BeginTokenStep ==
  ASSUME CatalogInv, NEW r \in Req, BeginToken(r)
  PROVE  CatalogInv'
  <1>1. PICK u \in User :
          \/ \E s \in Symbol, c \in CategoryId : BeginCreateToken(r, u, s, c)
          \/ \E t \in TokenId : BeginDeleteToken(r, u, t) \/ \E p \in Patches : BeginUpdateToken(r, u, t, p)
    BY DEF BeginToken
  <1>2. CASE \E s \in Symbol, c \in CategoryId : BeginCreateToken(r, u, s, c)
    <2>1. PICK s \in Symbol, c \in CategoryId : BeginCreateToken(r, u, s, c)
      BY <1>2
    <2> DEFINE q == [op |-> "create", pc |-> "symbol", user |-> u, id |-> NoRow,
                     patch |-> Plain(s, c), stale |-> FALSE]
    <2>2. q \in Request
      BY DEF Request, TokenRequest, Patch, Plain
    <2>3. /\ OwnsCategory(u, c) /\ req' = [req EXCEPT ![r] = q]
          /\ UNCHANGED <<categories, tokens, history>>
      BY <2>1 DEF BeginCreateToken, Hold
    <2>4. req'[r] = q
      BY <2>3 DEF CatalogInv, CatalogTypeOK
    <2>5. Backed(r)'
      BY <2>3, <2>4, NullsAssumption DEF Backed, OwnsCategory, Plain
    <2> HIDE DEF q
    <2> QED BY <2>2, <2>3, <2>5, QuietStep
  <1>3. CASE \E t \in TokenId : BeginDeleteToken(r, u, t)
    <2>1. PICK t \in TokenId : BeginDeleteToken(r, u, t)
      BY <1>3
    <2> DEFINE q == [op |-> "delete", pc |-> "write", user |-> u, id |-> t, stale |-> FALSE,
                     patch |-> Plain(Absent, Absent)]
    <2>2. q \in Request
      BY DEF Request, TokenRequest, Patch, Plain
    <2>3. /\ OwnsToken(u, t) /\ req' = [req EXCEPT ![r] = q]
          /\ UNCHANGED <<categories, tokens, history>>
      BY <2>1 DEF BeginDeleteToken, Hold
    <2>4. req'[r] = q
      BY <2>3 DEF CatalogInv, CatalogTypeOK
    <2>5. Backed(r)'
      BY <2>3, <2>4 DEF Backed, OwnsToken, history, CatalogInv
    <2> HIDE DEF q
    <2> QED BY <2>2, <2>3, <2>5, QuietStep
  <1>4. CASE \E t \in TokenId, p \in Patches : BeginUpdateToken(r, u, t, p)
    <2>1. PICK t \in TokenId, p \in Patches : BeginUpdateToken(r, u, t, p)
      BY <1>4
    <2> DEFINE pc == IF p.symbol \notin {Absent, Blank, tokens[t].symbol} THEN "symbol"
                     ELSE IF p.category # Absent THEN "category" ELSE "write"
               q == [op |-> "update", user |-> u, id |-> t, patch |-> p, stale |-> FALSE, pc |-> pc]
    <2>2. q \in Request
      BY CatalogAssumption DEF Request, TokenRequest
    <2>3. /\ OwnsToken(u, t) /\ req' = [req EXCEPT ![r] = q]
          /\ UNCHANGED <<categories, tokens, history>>
      BY <2>1 DEF BeginUpdateToken, Hold
    <2>4. req'[r] = q
      BY <2>3 DEF CatalogInv, CatalogTypeOK
    <2>5. Backed(r)'
      BY <2>3, <2>4 DEF Backed, OwnsToken, history, CatalogInv
    <2> HIDE DEF q
    <2> QED BY <2>2, <2>3, <2>5, QuietStep
  <1> QED BY <1>1, <1>2, <1>3, <1>4

(* A request that moves on to its next call keeps its other fields.        *)
LEMMA AdvanceTokenStep ==
  ASSUME CatalogInv, NEW r \in Req, NEW pc \in {"category", "write"},
         req[r] # NoRequest, req[r].op \in {"create", "update"}, Advance(r, pc),
         req[r].op = "update" /\ pc = "write" =>
           \/ req[r].patch.category = Absent
           \/ OwnsCategory(req[r].user, req[r].patch.category)
  PROVE  CatalogInv'
  <1> DEFINE q == [req[r] EXCEPT !.pc = pc]
  <1>1. req[r] \in TokenRequest /\ Backed(r)
    BY Kinds DEF CatalogInv
  <1>2. /\ q \in TokenRequest /\ q.op = req[r].op /\ q.user = req[r].user /\ q.id = req[r].id
        /\ q.patch = req[r].patch /\ q.pc = pc /\ q.stale = req[r].stale
    BY <1>1 DEF TokenRequest
  <1>3. req' = [req EXCEPT ![r] = q] /\ UNCHANGED <<categories, tokens, history>>
    BY DEF Advance
  <1>4. req'[r] = q
    BY <1>3 DEF CatalogInv, CatalogTypeOK
  <1> HIDE DEF q
  <1>5. Backed(r)'
    BY <1>1, <1>2, <1>3, <1>4 DEF Backed, OwnsCategory, history
  <1> QED BY <1>2, <1>3, <1>5, QuietStep DEF Request

LEMMA CheckSymbolStep ==
  ASSUME CatalogInv, NEW r \in Req, CheckSymbol(r)
  PROVE  CatalogInv'
  <1>1. req[r] # NoRequest /\ req[r].op \in {"create", "update"} /\ Advance(r, AfterSymbol(r))
    BY DEF CheckSymbol, At, Is
  <1>2. /\ AfterSymbol(r) \in {"category", "write"}
        /\ req[r].op = "update" /\ AfterSymbol(r) = "write" => req[r].patch.category = Absent
    BY DEF AfterSymbol
  <1> QED BY <1>1, <1>2, AdvanceTokenStep

LEMMA CheckCategoryStep ==
  ASSUME CatalogInv, NEW r \in Req, CheckCategory(r)
  PROVE  CatalogInv'
  <1>1. /\ req[r] # NoRequest /\ req[r].op = "update" /\ Advance(r, "write")
        /\ OwnsCategory(req[r].user, req[r].patch.category)
    BY DEF CheckCategory, At, Is
  <1> QED BY <1>1, AdvanceTokenStep

-------------------------------------------------------------------------------
(* Imports: the reads.                                                     *)
LEMMA BeginImportStep ==
  ASSUME CatalogInv, NEW r \in Req, NEW u \in User, NEW op, NEW file,
         \/ op = "importTokens" /\ file \in TokenFiles
         \/ op = "importCategories" /\ file \in CategoryFiles,
         BeginImport(r, u, op, file)
  PROVE  CatalogInv'
  <1> DEFINE q == [op |-> op, pc |-> "line", user |-> u, file |-> file, line |-> 1, id |-> NoRow,
                   stale |-> FALSE]
  <1>1. q \in Request
    BY DEF Request, TokenImport, CategoryImport
  <1>2. req' = [req EXCEPT ![r] = q] /\ UNCHANGED <<categories, tokens, history>>
    BY DEF BeginImport, Hold
  <1>3. req'[r] = q
    BY <1>2 DEF CatalogInv, CatalogTypeOK
  <1>4. Backed(r)'
    BY <1>3 DEF Backed
  <1> HIDE DEF q
  <1> QED BY <1>1, <1>2, <1>4, QuietStep

(* A request that goes on to its next line relies on nothing.              *)
LEMMA NextLineType ==
  ASSUME CatalogTypeOK, NEW r \in Req, req[r] # NoRequest,
         req[r].op \in {"importTokens", "importCategories"}
  PROVE  /\ NextLine(r) \in Request /\ NextLine(r).id = NoRow /\ NextLine(r).pc = "line"
         /\ NextLine(r).op \in {"importTokens", "importCategories"}
  <1>1. req[r] \in TokenImport \cup CategoryImport
    BY Kinds
  <1>2. CASE req[r] \in TokenImport
    <2> DEFINE q == req[r]
    <2>1. q.line + 1 \in Nat \ {0}
      BY <1>2 DEF TokenImport
    <2>2. NextLine(r) = [q EXCEPT !.line = q.line + 1, !.pc = "line", !.id = NoRow, !.stale = FALSE]
      BY DEF NextLine
    <2>3. q \in TokenImport
      BY <1>2
    <2> HIDE DEF q
    <2>4. NextLine(r) \in TokenImport /\ NextLine(r).id = NoRow /\ NextLine(r).pc = "line"
      BY <2>1, <2>2, <2>3 DEF TokenImport
    <2> QED BY <2>4 DEF Request, TokenImport
  <1>3. CASE req[r] \in CategoryImport
    <2> DEFINE q == req[r]
    <2>1. q.line + 1 \in Nat \ {0}
      BY <1>3 DEF CategoryImport
    <2>2. NextLine(r) = [q EXCEPT !.line = q.line + 1, !.pc = "line", !.id = NoRow, !.stale = FALSE]
      BY DEF NextLine
    <2>3. q \in CategoryImport
      BY <1>3
    <2> HIDE DEF q
    <2>4. NextLine(r) \in CategoryImport /\ NextLine(r).id = NoRow /\ NextLine(r).pc = "line"
      BY <2>1, <2>2, <2>3 DEF CategoryImport
    <2> QED BY <2>4 DEF Request, CategoryImport
  <1> QED BY <1>1, <1>2, <1>3

LEMMA NextLineBacked ==
  ASSUME CatalogTypeOK, NEW r \in Req, req[r] # NoRequest,
         req[r].op \in {"importTokens", "importCategories"}, req'[r] = NextLine(r)
  PROVE  Backed(r)'
  BY NextLineType DEF Backed

LEMMA SkipLineStep ==
  ASSUME CatalogInv, NEW r \in Req, SkipLine(r)
  PROVE  CatalogInv'
  <1>1. /\ req[r] # NoRequest /\ req[r].op \in {"importTokens", "importCategories"}
        /\ req' = [req EXCEPT ![r] = NextLine(r)] /\ UNCHANGED <<categories, tokens, history>>
    BY DEF SkipLine, At, Is
  <1>2. req'[r] = NextLine(r)
    BY <1>1 DEF CatalogInv, CatalogTypeOK
  <1> QED BY <1>1, <1>2, NextLineType, NextLineBacked, QuietStep DEF CatalogInv

(* What a line relies on once its category or its row has been looked up.  *)
LEMMA LineStep ==
  ASSUME CatalogInv, NEW r \in Req, NEW q \in TokenImport \cup CategoryImport,
         req[r] # NoRequest, OnLine(r), q.pc # "line",
         q.op = req[r].op, q.user = req[r].user, q.file = req[r].file, q.line = req[r].line,
         q.op = "importTokens" => OwnsCategory(q.user, Record(r).category),
         q.op = "importTokens" /\ q.id # NoRow /\ tokens[q.id] # NoRow =>
           tokens[q.id].owner = q.user /\ q.user \in holders[q.id],
         q.pc = "find" => q.id = NoRow,
         q.op = "importCategories" => Record(r) # Blank,
         q.op = "importCategories" /\ q.id # NoRow => OwnsCategory(q.user, q.id),
         req' = [req EXCEPT ![r] = q], UNCHANGED <<categories, tokens, history>>
  PROVE  CatalogInv'
  <1>1. req'[r] = q
    BY DEF CatalogInv, CatalogTypeOK
  <1>2. OnLine(r)' /\ Record(r)' = Record(r)
    BY <1>1 DEF OnLine, Record
  <1>3. q.op \in {"importTokens", "importCategories"}
    BY DEF TokenImport, CategoryImport
  <1>4. Backed(r)'
    BY <1>1, <1>2, <1>3 DEF Backed, OwnsCategory, history
  <1> QED BY <1>4, QuietStep DEF Request

LEMMA CheckLineCategoryStep ==
  ASSUME CatalogInv, NEW r \in Req, CheckLineCategory(r)
  PROVE  CatalogInv'
  <1> DEFINE q == [req[r] EXCEPT !.pc = "find", !.stale = FALSE]
  <1>1. /\ req[r] # NoRequest /\ req[r].op = "importTokens" /\ req[r].pc = "line" /\ OnLine(r)
        /\ OwnsCategory(req[r].user, Record(r).category)
        /\ req' = [req EXCEPT ![r] = q] /\ UNCHANGED <<categories, tokens, history>>
    BY DEF CheckLineCategory, At, Is
  <1>2. req[r] \in TokenImport /\ req[r].id = NoRow
    BY <1>1, Kinds DEF CatalogInv, Backed
  <1>3. /\ q \in TokenImport /\ q.pc = "find" /\ q.op = "importTokens" /\ q.user = req[r].user
        /\ q.file = req[r].file /\ q.line = req[r].line /\ q.id = req[r].id
    BY <1>1, <1>2 DEF TokenImport
  <1> HIDE DEF q
  <1> QED BY <1>1, <1>2, <1>3, LineStep

LEMMA FoundStep ==
  ASSUME CatalogInv, NEW r \in Req, req[r] # NoRequest, OnLine(r),
         NEW found, Found(r, found),
         \/ /\ req[r].op = "importTokens" /\ req[r].pc = "find"
            /\ found \subseteq {t \in TokenId : OwnsToken(req[r].user, t)}
         \/ /\ req[r].op = "importCategories" /\ Record(r) # Blank
            /\ found \subseteq {c \in CategoryId : OwnsCategory(req[r].user, c)}
  PROVE  CatalogInv'
  <1>1. PICK i \in First(found) :
          req' = [req EXCEPT ![r] = [req[r] EXCEPT !.pc = "write", !.id = i, !.stale = FALSE]]
    BY DEF Found
  <1> DEFINE q == [req[r] EXCEPT !.pc = "write", !.id = i, !.stale = FALSE]
  <1>2. i = NoRow \/ i \in found
    BY <1>1 DEF First
  <1>3. UNCHANGED <<categories, tokens, history>>
    BY DEF Found
  <1>4. CASE req[r].op = "importTokens"
    <2>1. req[r] \in TokenImport /\ OwnsCategory(req[r].user, Record(r).category)
      BY <1>4, Kinds DEF CatalogInv, Backed
    <2>2. i \in TokenId \cup {NoRow} /\ (i # NoRow => OwnsToken(req[r].user, i))
      BY <1>2, <1>4
    <2>3. /\ q \in TokenImport /\ q.pc = "write" /\ q.op = "importTokens" /\ q.user = req[r].user
          /\ q.file = req[r].file /\ q.line = req[r].line /\ q.id = i
      BY <2>1, <2>2 DEF TokenImport
    <2>4. req' = [req EXCEPT ![r] = q]
      BY <1>1
    <2> HIDE DEF q
    <2>5. i # NoRow => tokens[i].owner = req[r].user /\ req[r].user \in holders[i]
      BY <2>2 DEF OwnsToken, CatalogInv
    <2> QED BY <1>3, <1>4, <2>1, <2>2, <2>3, <2>4, <2>5, LineStep
  <1>5. CASE req[r].op = "importCategories"
    <2>1. req[r] \in CategoryImport
      BY <1>5, Kinds DEF CatalogInv
    <2>2. i \in CategoryId \cup {NoRow} /\ (i # NoRow => OwnsCategory(req[r].user, i))
      BY <1>2, <1>5
    <2>3. /\ q \in CategoryImport /\ q.pc = "write" /\ q.op = "importCategories"
          /\ q.user = req[r].user /\ q.file = req[r].file /\ q.line = req[r].line /\ q.id = i
      BY <2>1, <2>2 DEF CategoryImport
    <2>4. req' = [req EXCEPT ![r] = q]
      BY <1>1
    <2> HIDE DEF q
    <2> QED BY <1>3, <1>5, <2>2, <2>3, <2>4, LineStep
  <1> QED BY <1>4, <1>5

LEMMA FindTokenStep ==
  ASSUME CatalogInv, NEW r \in Req, FindToken(r)
  PROVE  CatalogInv'
  <1>1. /\ req[r] # NoRequest /\ req[r].op = "importTokens" /\ req[r].pc = "find"
        /\ Found(r, Matching(tokens, req[r].user, Record(r)))
    BY DEF FindToken, At, Is
  <1>2. OnLine(r)
    BY <1>1 DEF CatalogInv, Backed
  <1>3. Matching(tokens, req[r].user, Record(r)) \subseteq {t \in TokenId : OwnsToken(req[r].user, t)}
    BY DEF Matching, WithSymbol, OwnsToken
  <1> QED BY <1>1, <1>2, <1>3, FoundStep

LEMMA FindCategoryStep ==
  ASSUME CatalogInv, NEW r \in Req, FindCategory(r)
  PROVE  CatalogInv'
  <1>1. /\ req[r] # NoRequest /\ req[r].op = "importCategories" /\ OnLine(r) /\ Record(r) # Blank
        /\ Found(r, Named(categories, req[r].user, Record(r)))
    BY DEF FindCategory, At, Is
  <1>2. Named(categories, req[r].user, Record(r))
          \subseteq {c \in CategoryId : OwnsCategory(req[r].user, c)}
    BY DEF Named, OwnsCategory
  <1> QED BY <1>1, <1>2, FoundStep

-------------------------------------------------------------------------------
(* The end of a request, answered or refused.                              *)
LEMMA EndStep ==
  ASSUME CatalogInv, NEW r \in Req, Refuse(r) \/ ImportEnds(r)
  PROVE  CatalogInv'
  <1>1. req' = [req EXCEPT ![r] = NoRequest] /\ UNCHANGED <<categories, tokens, history>>
    BY DEF Refuse, ImportEnds, Answered
  <1> QED BY <1>1, QuietStep

-------------------------------------------------------------------------------
(* Writes of tokens: a new row, which no request holds, or the row that    *)
(* the request holds, whose owner is among the users the write disturbs.   *)
LEMMA TokenWriteStep ==
  ASSUME CatalogInv, NEW r \in Req, req[r] # NoRequest, NEW q \in Request \cup {NoRequest},
         NEW us, Disturb(us, r, q), UNCHANGED categories, holders' = Held(tokens'),
         unchecked' \subseteq TokenId, strayed' \subseteq TokenId,
         NEW t \in TokenId, NEW row \in TokenRow \cup {NoRow},
         tokens' = [tokens EXCEPT ![t] = row],
         req[r].pc = "write", req[r].op # "importCategories",
         \/ FreshToken(t) /\ row.owner = req[r].user
         \/ /\ t = req[r].id /\ tokens[t] # NoRow /\ tokens[t].owner \in us
            /\ row # NoRow /\ row.owner # tokens[t].owner =>
                 req[r].op = "update" /\ req[r].patch.owner = row.owner,
         \A s \in TokenId \ {t} : s \in strayed => s \in strayed',
         row # NoRow => t \in strayed' \/ OwnsCategory(row.owner, row.category),
         q # NoRequest => req[r].op \in {"importTokens", "importCategories"} /\ q = NextLine(r)
  PROVE  CatalogInv' /\ HolderWrites
  <1>1. /\ categories' \in [CategoryId -> CategoryRow \cup {NoRow}]
        /\ tokens \in [TokenId -> TokenRow \cup {NoRow}]
        /\ tokens' \in [TokenId -> TokenRow \cup {NoRow}]
        /\ tokens'[t] = row /\ \A s \in TokenId \ {t} : tokens'[s] = tokens[s]
    BY DEF CatalogInv, CatalogTypeOK
  <1>2. \A v, c : OwnsCategory(v, c) => OwnsCategory(v, c)'
    BY DEF OwnsCategory
  <1>3. /\ holders' \in [TokenId -> SUBSET User]
        /\ \A s \in TokenId : tokens'[s] # NoRow =>
             tokens'[s].owner \in holders'[s] /\ holders[s] \subseteq holders'[s]
    <2>1. \A s \in TokenId : tokens'[s] # NoRow => tokens'[s].owner \in User
      BY <1>1 DEF TokenRow
    <2>2. holders \in [TokenId -> SUBSET User]
      BY DEF CatalogInv, CatalogTypeOK
    <2>3. ASSUME NEW s \in TokenId
          PROVE  /\ holders'[s] \in SUBSET User
                 /\ tokens'[s] # NoRow => holders'[s] = holders[s] \cup {tokens'[s].owner}
      BY <2>1, <2>2 DEF Held
    <2> QED BY <2>3 DEF Held
  <1>4. ASSUME NEW p \in Req, req[p] # NoRequest, req[p].op # "importCategories", req[p].id # NoRow,
               tokens'[req[p].id] # NoRow
        PROVE  /\ tokens[req[p].id] # NoRow /\ holders[req[p].id] \subseteq holders'[req[p].id]
               /\ tokens[req[p].id].owner \notin us =>
                    tokens'[req[p].id].owner = tokens[req[p].id].owner
    <2>1. req[p].id \in TokenId
      BY <1>4, Kinds DEF CatalogInv, TokenRequest, TokenImport, Request, CategoryImport
    <2>2. CASE req[p].id = t
      BY <1>3, <1>4, <2>2 DEF FreshToken
    <2>3. CASE req[p].id # t
      BY <1>1, <1>3, <1>4, <2>1, <2>3
    <2> QED BY <2>2, <2>3
  <1>5. StraysExplained'
    <2> SUFFICES ASSUME NEW s \in TokenId, tokens'[s] # NoRow, s \notin strayed'
                 PROVE  OwnsCategory(tokens'[s].owner, tokens'[s].category)
      BY <1>2 DEF StraysExplained, OwnsCategory
    <2>1. CASE s = t
      BY <1>1, <2>1
    <2>2. CASE s # t
      BY <1>1, <2>2 DEF CatalogInv, StraysExplained
    <2> QED BY <2>1, <2>2
  <1>6. q # NoRequest => Backed(r)'
    <2>1. req'[r] = q
      BY DEF Disturb
    <2> QED BY <2>1, NextLineBacked DEF CatalogInv
  <1>7. HolderWrites
    <2>1. req'[r] = q /\ req[r] # q
      BY NextLineType DEF Disturb, CatalogInv
    <2>2. ASSUME NEW s \in TokenId, tokens'[s] # tokens[s]
          PROVE  s = t /\ tokens'[s] = row
      BY <1>1, <2>2
    <2>3. CASE FreshToken(t) /\ row.owner = req[r].user
      BY <2>1, <2>2, <2>3 DEF HolderWrites, FreshToken
    <2>4. CASE /\ t = req[r].id /\ tokens[t] # NoRow
               /\ row # NoRow /\ row.owner # tokens[t].owner =>
                    req[r].op = "update" /\ req[r].patch.owner = row.owner
      <3>1. req[r].user \in holders[t] /\ (~req[r].stale => tokens[t].owner = req[r].user)
        BY <2>4, NullsAssumption DEF CatalogInv, Backed
      <3> QED BY <2>1, <2>2, <2>4, <3>1 DEF HolderWrites
    <2> QED BY <2>3, <2>4
  <1>8. \A s \in TokenId : tokens'[s] # NoRow => tokens'[s].owner \in holders'[s]
    BY <1>3
  <1>9. CatalogInv'
    <2>1. /\ categories' \in [CategoryId -> CategoryRow \cup {NoRow}]
          /\ tokens' \in [TokenId -> TokenRow \cup {NoRow}]
          /\ holders' \in [TokenId -> SUBSET User]
      BY <1>1, <1>3
    <2>2. \A p \in Req : req[p] # NoRequest /\ req[p].op # "importCategories" /\ req[p].id # NoRow
            /\ tokens'[req[p].id] # NoRow =>
              /\ tokens[req[p].id] # NoRow /\ holders[req[p].id] \subseteq holders'[req[p].id]
              /\ tokens[req[p].id].owner \notin us =>
                   tokens'[req[p].id].owner = tokens[req[p].id].owner
      BY <1>4
    <2> QED BY <1>2, <1>5, <1>6, <1>8, <2>1, <2>2, WriteStep
  <1> QED BY <1>7, <1>9

LEMMA WriteCreateTokenStep ==
  ASSUME CatalogInv, NEW r \in Req, WriteCreateToken(r)
  PROVE  CatalogInv' /\ HolderWrites
  <1>1. /\ req[r] # NoRequest /\ req[r].op = "create" /\ req[r].pc = "write"
        /\ req[r] \in TokenRequest /\ Backed(r)
    BY Kinds DEF WriteCreateToken, At, Is, CatalogInv
  <1> DEFINE row == [owner |-> req[r].user, symbol |-> req[r].patch.symbol,
                     category |-> req[r].patch.category]
  <1>2. row \in TokenRow /\ row.owner = req[r].user /\ OwnsCategory(row.owner, row.category)
    BY <1>1 DEF Backed, TokenRequest, Patch, TokenRow
  <1>3. PICK t \in TokenId : /\ FreshToken(t) /\ tokens' = [tokens EXCEPT ![t] = row]
                             /\ unchecked' = IF req[r].stale THEN unchecked \cup {t} ELSE unchecked \ {t}
                             /\ strayed' = strayed \ {t}
    BY DEF WriteCreateToken
  <1>4. /\ Disturb({req[r].user}, r, NoRequest) /\ UNCHANGED categories
        /\ holders' = Held(tokens')
    BY DEF WriteCreateToken, Answered
  <1>5. /\ unchecked' \subseteq TokenId /\ strayed' \subseteq TokenId
        /\ \A s \in TokenId \ {t} : s \in strayed => s \in strayed'
    BY <1>3 DEF CatalogInv, CatalogTypeOK
  <1> HIDE DEF row
  <1> QED BY <1>1, <1>2, <1>3, <1>4, <1>5, TokenWriteStep

(* The row an update writes, and how its owner and category come about.    *)
LEMMA PatchedRow ==
  ASSUME NEW row \in TokenRow, NEW p \in Patch
  PROVE  /\ Patched(row, p) \in TokenRow
         /\ Patched(row, p).owner # row.owner => p.owner = Patched(row, p).owner
         /\ Patched(row, p).symbol = (IF p.symbol = Absent THEN row.symbol ELSE p.symbol)
         /\ p.category # Absent => Patched(row, p).category = p.category
         /\ p.category = Absent /\ p.connect = Absent => Patched(row, p).category = row.category
  BY DEF Patched, Patch, TokenRow

LEMMA WriteUpdateTokenStep ==
  ASSUME CatalogInv, NEW r \in Req, WriteUpdateToken(r)
  PROVE  CatalogInv' /\ HolderWrites
  <1>1. PICK t, p, u : t = req[r].id /\ p = req[r].patch /\ u = req[r].user
    OBVIOUS
  <1>2. /\ req[r] # NoRequest /\ req[r].op = "update" /\ req[r].pc = "write" /\ tokens[t] # NoRow
        /\ req[r] \in TokenRequest /\ Backed(r)
    BY <1>1, Kinds DEF WriteUpdateToken, At, Is, CatalogInv
  <1>3. t \in TokenId /\ p \in Patch
    BY <1>1, <1>2 DEF Backed, TokenRequest
  <1>4. tokens[t] \in TokenRow
    BY <1>2, <1>3 DEF CatalogInv, CatalogTypeOK
  <1>5. PICK new : new = Patched(tokens[t], p)
    OBVIOUS
  <1>6. /\ tokens' = [tokens EXCEPT ![t] = new] /\ UNCHANGED categories /\ holders' = Held(tokens')
        /\ Disturb({u, tokens[t].owner, new.owner}, r, NoRequest)
    BY <1>1, <1>5 DEF WriteUpdateToken, Answered
  <1>7. unchecked' \subseteq unchecked \cup {t}
    BY <1>1, <1>5 DEF WriteUpdateToken
  <1>8. strayed' = CASE p.category # Absent -> IF new.owner = u THEN strayed \ {t} ELSE strayed \cup {t}
                     [] p.category = Absent /\ (p.connect # Absent \/ new.owner # tokens[t].owner)
                          -> strayed \cup {t}
                     [] OTHER -> strayed
    BY <1>1, <1>5 DEF WriteUpdateToken
  <1>9. /\ new \in TokenRow
        /\ new.owner # tokens[t].owner => p.owner = new.owner
        /\ p.category # Absent => new.category = p.category
        /\ p.category = Absent /\ p.connect = Absent => new.category = tokens[t].category
    BY <1>3, <1>4, <1>5, PatchedRow
  <1>10. unchecked \subseteq TokenId /\ strayed \subseteq TokenId
    BY DEF CatalogInv, CatalogTypeOK
  <1>11. strayed' \subseteq strayed \cup {t} /\ \A s \in TokenId \ {t} : s \in strayed => s \in strayed'
    BY <1>8
  <1>12. t \in strayed' \/ OwnsCategory(new.owner, new.category)
    <2>1. CASE p.category # Absent
      <3>1. OwnsCategory(u, p.category)
        BY <1>1, <1>2, <2>1 DEF Backed
      <3> QED BY <1>8, <1>9, <2>1, <3>1
    <2>2. CASE p.category = Absent /\ p.connect = Absent /\ new.owner = tokens[t].owner
      <3>1. strayed' = strayed /\ new.category = tokens[t].category
        BY <1>8, <1>9, <2>2
      <3> QED BY <1>2, <1>3, <2>2, <3>1 DEF CatalogInv, StraysExplained
    <2> QED BY <1>8, <2>1, <2>2
  <1>13. unchecked' \subseteq TokenId /\ strayed' \subseteq TokenId
    BY <1>3, <1>7, <1>10, <1>11
  <1>14. new # NoRow
    BY <1>9, NullsAssumption
  <1>15. new.owner # tokens[t].owner => req[r].op = "update" /\ req[r].patch.owner = new.owner
    BY <1>1, <1>2, <1>9
  <1>16. PICK us : us = {u, tokens[t].owner, new.owner}
    OBVIOUS
  <1>17. Disturb(us, r, NoRequest) /\ tokens[t].owner \in us
    BY <1>6, <1>16
  <1> QED BY <1>1, <1>2, <1>3, <1>6, <1>9, <1>11, <1>12, <1>13, <1>15, <1>17, TokenWriteStep

LEMMA WriteDeleteTokenStep ==
  ASSUME CatalogInv, NEW r \in Req, WriteDeleteToken(r)
  PROVE  CatalogInv' /\ HolderWrites
  <1>1. /\ req[r] # NoRequest /\ req[r].op = "delete" /\ req[r].pc = "write"
        /\ tokens[req[r].id] # NoRow /\ Backed(r)
    BY DEF WriteDeleteToken, At, Is, CatalogInv
  <1>2. req[r].id \in TokenId
    BY <1>1 DEF Backed
  <1>3. PICK us : us = {req[r].user, tokens[req[r].id].owner}
    OBVIOUS
  <1>4. /\ Disturb(us, r, NoRequest) /\ tokens[req[r].id].owner \in us
        /\ UNCHANGED categories /\ holders' = Held(tokens')
        /\ tokens' = [tokens EXCEPT ![req[r].id] = NoRow]
    BY <1>3 DEF WriteDeleteToken, Answered
  <1>5. /\ unchecked' \subseteq TokenId /\ strayed' \subseteq TokenId
        /\ \A s \in TokenId \ {req[r].id} : s \in strayed => s \in strayed'
    BY DEF WriteDeleteToken, CatalogInv, CatalogTypeOK
  <1> QED BY <1>1, <1>2, <1>4, <1>5, TokenWriteStep

LEMMA WriteLineTokenStep ==
  ASSUME CatalogInv, NEW r \in Req, WriteLineToken(r)
  PROVE  CatalogInv' /\ HolderWrites
  <1>1. /\ req[r] # NoRequest /\ req[r].op = "importTokens" /\ req[r].pc = "write"
        /\ req[r] \in TokenImport /\ Backed(r)
    BY Kinds DEF WriteLineToken, At, Is, CatalogInv
  <1>2. Record(r) \in Line /\ OwnsCategory(req[r].user, Record(r).category)
    BY <1>1, Records DEF Backed, CatalogInv
  <1>3. PICK t \in TokenId :
          LET owner == IF req[r].id = NoRow THEN req[r].user ELSE tokens[t].owner
          IN  /\ IF req[r].id = NoRow THEN FreshToken(t) ELSE t = req[r].id /\ tokens[t] # NoRow
              /\ tokens' = [tokens EXCEPT ![t] =
                   [owner |-> owner, symbol |-> Record(r).symbol, category |-> Record(r).category]]
              /\ unchecked' \subseteq unchecked \cup {t}
              /\ strayed' = IF owner = req[r].user THEN strayed \ {t} ELSE strayed \cup {t}
              /\ Disturb({req[r].user, owner}, r, NextLine(r))
    BY DEF WriteLineToken
  <1>4. PICK owner : owner = IF req[r].id = NoRow THEN req[r].user ELSE tokens[t].owner
    OBVIOUS
  <1> DEFINE row == [owner |-> owner, symbol |-> Record(r).symbol, category |-> Record(r).category]
  <1>5. owner \in User
    <2>1. tokens[t] # NoRow => tokens[t].owner \in User
      BY DEF CatalogInv, CatalogTypeOK, TokenRow
    <2> QED BY <1>1, <1>3, <1>4, <2>1 DEF TokenImport
  <1>6. row \in TokenRow /\ row.owner = owner /\ row.category = Record(r).category
    BY <1>2, <1>5 DEF Line, TokenRow
  <1>7. /\ UNCHANGED categories /\ holders' = Held(tokens') /\ tokens' = [tokens EXCEPT ![t] = row]
    BY <1>3, <1>4 DEF WriteLineToken
  <1>8. /\ unchecked' \subseteq TokenId /\ strayed' \subseteq TokenId
        /\ \A s \in TokenId \ {t} : s \in strayed => s \in strayed'
    BY <1>3 DEF CatalogInv, CatalogTypeOK
  <1>9. t \in strayed' \/ OwnsCategory(row.owner, row.category)
    BY <1>2, <1>3, <1>4, <1>6
  <1>10. NextLine(r) \in Request
    BY <1>1, NextLineType DEF CatalogInv
  <1>11. PICK us : us = {req[r].user, owner}
    OBVIOUS
  <1>12. Disturb(us, r, NextLine(r)) /\ owner \in us
    BY <1>3, <1>4, <1>11
  <1> HIDE DEF row
  <1>13. \/ FreshToken(t) /\ row.owner = req[r].user
         \/ t = req[r].id /\ tokens[t] # NoRow /\ tokens[t].owner \in us /\ row.owner = tokens[t].owner
    BY <1>3, <1>4, <1>6, <1>12
  <1> QED BY <1>1, <1>6, <1>7, <1>8, <1>9, <1>10, <1>12, <1>13, TokenWriteStep

-------------------------------------------------------------------------------
(* Writes of categories: a new row, or a new name.                         *)
LEMMA CategoryWriteStep ==
  ASSUME CatalogInv, NEW r \in Req \cup {NoRequest}, NEW u, NEW q \in Request \cup {NoRequest},
         Disturb({u}, r, q), UNCHANGED <<tokens, history>>,
         NEW c \in CategoryId, NEW row \in CategoryRow,
         categories' = [categories EXCEPT ![c] = row],
         categories[c] # NoRow => row.owner = categories[c].owner,
         r \in Req /\ q # NoRequest => Backed(r)'
  PROVE  CatalogInv'
  <1>1. /\ categories' \in [CategoryId -> CategoryRow \cup {NoRow}]
        /\ tokens' \in [TokenId -> TokenRow \cup {NoRow}]
        /\ unchecked' \subseteq TokenId /\ strayed' \subseteq TokenId
        /\ holders' \in [TokenId -> SUBSET User] /\ holders' = holders /\ tokens' = tokens
        /\ \A t \in TokenId : tokens'[t] # NoRow => tokens'[t].owner \in holders'[t]
    BY DEF CatalogInv, CatalogTypeOK, history
  <1>2. \A v, d : OwnsCategory(v, d) => OwnsCategory(v, d)'
    <2> SUFFICES ASSUME NEW v, NEW d, OwnsCategory(v, d) PROVE OwnsCategory(v, d)'
      OBVIOUS
    <2>1. categories \in [CategoryId -> CategoryRow \cup {NoRow}] /\ row # NoRow
      BY NullsAssumption DEF CatalogInv, CatalogTypeOK
    <2>2. CASE d = c
      BY <2>1, <2>2 DEF OwnsCategory
    <2>3. CASE d # c
      BY <2>1, <2>3 DEF OwnsCategory
    <2> QED BY <2>2, <2>3
  <1>3. StraysExplained'
    BY <1>2 DEF CatalogInv, StraysExplained, history
  <1>4. PICK us : us = {u} /\ Disturb(us, r, q)
    OBVIOUS
  <1> QED BY <1>1, <1>2, <1>3, <1>4, WriteStep

LEMMA CategoryStepStep ==
  ASSUME CatalogInv, CategoryStep
  PROVE  CatalogInv'
  <1>1. PICK u \in User, n \in Name :
          CreateCategory(u, n) \/ \E c \in CategoryId : UpdateCategory(u, c, n)
    BY DEF CategoryStep
  <1>2. CASE CreateCategory(u, n)
    <2>1. PICK c \in CategoryId : /\ FreshCategory(c)
                                  /\ categories' = [categories EXCEPT ![c] = [owner |-> u, name |-> n]]
      BY <1>2 DEF CreateCategory
    <2>2. [owner |-> u, name |-> n] \in CategoryRow
      BY DEF CategoryRow
    <2> QED BY <1>2, <2>1, <2>2, CategoryWriteStep, NullsAssumption DEF CreateCategory, FreshCategory
  <1>3. CASE \E c \in CategoryId : UpdateCategory(u, c, n)
    <2>1. PICK c \in CategoryId : UpdateCategory(u, c, n)
      BY <1>3
    <2>2. categories[c] \in CategoryRow
      BY <2>1 DEF UpdateCategory, OwnsCategory, CatalogInv, CatalogTypeOK
    <2> DEFINE row == [categories[c] EXCEPT !.name = n]
    <2>3. row \in CategoryRow /\ row.owner = categories[c].owner
      BY <2>2 DEF CategoryRow
    <2>4. /\ categories' = [categories EXCEPT ![c] = row] /\ UNCHANGED <<tokens, history>>
          /\ Disturb({u}, NoRequest, NoRequest)
      BY <2>1 DEF UpdateCategory
    <2> HIDE DEF row
    <2> QED BY <2>3, <2>4, CategoryWriteStep, NullsAssumption
  <1> QED BY <1>1, <1>2, <1>3

LEMMA WriteLineCategoryStep ==
  ASSUME CatalogInv, NEW r \in Req, WriteLineCategory(r)
  PROVE  CatalogInv'
  <1>1. /\ req[r] # NoRequest /\ req[r].op = "importCategories" /\ req[r].pc = "write"
        /\ req[r] \in CategoryImport /\ Backed(r)
    BY Kinds DEF WriteLineCategory, At, Is, CatalogInv
  <1>2. Record(r) \in Name
    BY <1>1, Records DEF Backed, CatalogInv
  <1>3. PICK c \in CategoryId :
          /\ IF req[r].id = NoRow THEN FreshCategory(c) ELSE c = req[r].id
          /\ categories' = [categories EXCEPT ![c] =
               [owner |-> IF req[r].id = NoRow THEN req[r].user ELSE @.owner, name |-> Record(r)]]
    BY DEF WriteLineCategory
  <1> DEFINE row == [owner |-> req[r].user, name |-> Record(r)]
  <1>4. row \in CategoryRow
    BY <1>1, <1>2 DEF CategoryImport, CategoryRow
  <1>5. categories[c] # NoRow => req[r].id # NoRow /\ categories[c].owner = req[r].user
    BY <1>1, <1>3 DEF Backed, OwnsCategory, FreshCategory
  <1>6. req[r].id # NoRow => categories[c].owner = req[r].user
    BY <1>1, <1>3 DEF Backed, OwnsCategory
  <1>7. categories' = [categories EXCEPT ![c] = row]
    BY <1>3, <1>6 DEF CatalogInv, CatalogTypeOK
  <1>8. categories[c] # NoRow => row.owner = categories[c].owner
    BY <1>5
  <1>9. Disturb({req[r].user}, r, NextLine(r)) /\ UNCHANGED <<tokens, history>>
    BY DEF WriteLineCategory
  <1>10. NextLine(r) \in Request /\ req'[r] = NextLine(r) /\ Backed(r)'
    BY <1>1, <1>9, NextLineType, NextLineBacked DEF CatalogInv, Disturb
  <1> HIDE DEF row
  <1> QED BY <1>4, <1>7, <1>8, <1>9, <1>10, CategoryWriteStep

-------------------------------------------------------------------------------
(* CatalogInv is inductive.                                                *)
LEMMA InitInv == CatalogInit => CatalogInv
  BY DEF CatalogInit, CatalogInv, CatalogTypeOK, StraysExplained

LEMMA NextInv ==
  ASSUME CatalogInv, [CatalogNext]_catalogVars
  PROVE  CatalogInv'
  <1>1. CASE UNCHANGED catalogVars
    BY <1>1 DEF catalogVars, CatalogInv, CatalogTypeOK, StraysExplained, OwnsCategory,
                Backed, OnLine, Record, history
  <1>2. CASE CategoryStep
    BY <1>2, CategoryStepStep
  <1>3. ASSUME NEW r \in Req, BeginToken(r) \/ TokenStep(r)
        PROVE  CatalogInv'
    BY <1>3, BeginTokenStep, CheckSymbolStep, CheckCategoryStep, WriteCreateTokenStep,
       WriteUpdateTokenStep, WriteDeleteTokenStep DEF TokenStep
  <1>4. ASSUME NEW r \in Req, ImportStep(r) \/ Refuse(r)
        PROVE  CatalogInv'
    <2>1. CASE \E u \in User : \/ \E file \in TokenFiles : BeginImport(r, u, "importTokens", file)
                              \/ \E file \in CategoryFiles : BeginImport(r, u, "importCategories", file)
      BY <2>1, BeginImportStep
    <2> QED BY <1>4, <2>1, EndStep, SkipLineStep, CheckLineCategoryStep, FindTokenStep, FindCategoryStep,
            WriteLineTokenStep, WriteLineCategoryStep DEF ImportStep
  <1> QED BY <1>1, <1>2, <1>3, <1>4 DEF CatalogNext

(* Tables and requests keep their types: a body that leaves a field out    *)
(* never leaves a row without one, and every line read is one of the file. *)
THEOREM CatalogTypeCorrect == CatalogSpec => []CatalogTypeOK
  <1>1. CatalogInv => CatalogTypeOK
    BY DEF CatalogInv
  <1> QED BY <1>1, InitInv, NextInv, PTL DEF CatalogSpec

(* However requests and imports interleave, a token is in an existing      *)
(* category of its own user, unless a body with a relation, or one that    *)
(* names an owner, has put it out of it.                                   *)
THEOREM StraysHaveCauses == CatalogSpec => []StraysExplained
  <1>1. CatalogInv => StraysExplained
    BY DEF CatalogInv
  <1> QED BY <1>1, InitInv, NextInv, PTL DEF CatalogSpec

(* Every step writes tokens only for those who hold or held them.          *)
LEMMA NextOwned ==
  ASSUME CatalogInv, CatalogNext
  PROVE  HolderWrites
  <1>1. CASE UNCHANGED tokens
    BY <1>1 DEF HolderWrites
  <1>2. CASE CategoryStep
    BY <1>1, <1>2 DEF CategoryStep, CreateCategory, UpdateCategory
  <1>3. ASSUME NEW r \in Req, BeginToken(r) \/ TokenStep(r)
        PROVE  HolderWrites
    <2>1. CASE BeginToken(r) \/ CheckSymbol(r) \/ CheckCategory(r)
      BY <1>1, <2>1 DEF BeginToken, BeginCreateToken, BeginUpdateToken, BeginDeleteToken, Hold,
                        CheckSymbol, CheckCategory, Advance
    <2> QED BY <1>3, <2>1, WriteCreateTokenStep, WriteUpdateTokenStep, WriteDeleteTokenStep DEF TokenStep
  <1>4. ASSUME NEW r \in Req, ImportStep(r) \/ Refuse(r)
        PROVE  HolderWrites
    <2>1. CASE WriteLineToken(r)
      BY <2>1, WriteLineTokenStep
    <2>2. CASE ~WriteLineToken(r)
      BY <1>1, <1>4, <2>2 DEF ImportStep, BeginImport, Hold, SkipLine, CheckLineCategory, FindToken,
         FindCategory, Found, WriteLineCategory, ImportEnds, Refuse
    <2> QED BY <2>1, <2>2
  <1> QED BY <1>2, <1>3, <1>4 DEF CatalogNext

(* Whatever was read before and whatever the bodies name, a token appears, *)
(* changes or goes only in the write of a request of its owner, or in an   *)
(* overtaken one of a former owner; and it changes hands only in an update *)
(* that names the new owner.                                               *)
THEOREM TokensChangeByHoldersOnly == CatalogSpec => TokensChangeByHolders
  <1>1. CatalogInv /\ [CatalogNext]_catalogVars => [HolderWrites]_catalogVars
    BY NextOwned
  <1> QED BY <1>1, InitInv, NextInv, PTL DEF CatalogSpec, TokensChangeByHolders

-------------------------------------------------------------------------------
(* What the looks of a request have found.  A step that moves one request  *)
(* and leaves the tables alone leaves the others' findings alone.          *)
LEMMA QuietChecked ==
  ASSUME CheckedInv, NEW r \in Req, NEW q, req' = [req EXCEPT ![r] = q],
         UNCHANGED <<categories, tokens, history>>,
         q # NoRequest => UpToDate(r)'
  PROVE  PairsExplained' /\ LooksStand'
  <1>1. PairsExplained'
    BY DEF CheckedInv, PairsExplained, history
  <1>2. ASSUME NEW p \in Req, req'[p] # NoRequest PROVE UpToDate(p)'
    <2>1. CASE p = r
      BY <1>2, <2>1 DEF CheckedInv, CatalogInv, CatalogTypeOK
    <2>2. CASE p # r
      <3>1. req'[p] = req[p] /\ UpToDate(p)
        BY <1>2, <2>2 DEF CheckedInv, CatalogInv, CatalogTypeOK, LooksStand
      <3> QED BY <3>1 DEF UpToDate, BringsSymbol, SymbolTaken, Record
    <2> QED BY <2>1, <2>2
  <1> QED BY <1>1, <1>2 DEF LooksStand

(* A write spares the requests of other users.                             *)
LEMMA Undisturbed ==
  ASSUME CatalogInv, NEW r \in Req \cup {NoRequest}, NEW us, NEW q, Disturb(us, r, q),
         NEW p \in Req, p # r, req'[p] # NoRequest, ~req'[p].stale
  PROVE  req'[p] = req[p] /\ req[p] # NoRequest /\ req[p].user \notin us
  <1>1. req[p] # NoRequest /\ req[p] \in Request
    BY DEF Disturb, CatalogInv, CatalogTypeOK
  <1>2. [req[p] EXCEPT !.stale = TRUE].stale
    BY <1>1 DEF Request, TokenRequest, TokenImport, CategoryImport
  <1> QED BY <1>1, <1>2 DEF Disturb

(* The request that goes on to its next line has looked for nothing yet.   *)
LEMMA NextLineUpToDate ==
  ASSUME CatalogTypeOK, NEW r \in Req, req[r] # NoRequest,
         req[r].op \in {"importTokens", "importCategories"}, req'[r] = NextLine(r)
  PROVE  UpToDate(r)'
  BY NextLineType DEF UpToDate, BringsSymbol

(* A token written, marked or not as its write was checked; the users who  *)
(* lose or get it are among those the write disturbs.                      *)
LEMMA TokenWriteChecked ==
  ASSUME CheckedInv, NEW r \in Req, req[r] # NoRequest, NEW us, NEW q,
         Disturb(us, r, q), UNCHANGED categories,
         NEW t \in TokenId, NEW row \in TokenRow \cup {NoRow},
         tokens' = [tokens EXCEPT ![t] = row],
         row # NoRow => row.owner \in us,
         FreshToken(t) \/ (tokens[t] # NoRow /\ tokens[t].owner \in us),
         q # NoRequest => req[r].op \in {"importTokens", "importCategories"} /\ q = NextLine(r),
         \A s \in TokenId \ {t} : s \in unchecked' <=> s \in unchecked,
         row # NoRow =>
           \/ t \in unchecked'
           \/ /\ tokens[t] # NoRow /\ tokens[t].owner = row.owner /\ tokens[t].symbol = row.symbol
              /\ t \in unchecked' <=> t \in unchecked
           \/ WithSymbol(tokens, row.owner, row.symbol) \ {t} = {}
  PROVE  PairsExplained' /\ LooksStand'
  <1>1. /\ tokens'[t] = row /\ \A s \in TokenId \ {t} : tokens'[s] = tokens[s]
        /\ tokens[t] = NoRow \/ tokens[t].owner \in us
    BY DEF CheckedInv, CatalogInv, CatalogTypeOK, FreshToken
  <1>2. ASSUME NEW s \in TokenId \ {t}, tokens[s] # NoRow, row # NoRow,
               tokens[s].owner = row.owner, tokens[s].symbol = row.symbol
        PROVE  s \in unchecked' \/ t \in unchecked'
    <2>1. s \in WithSymbol(tokens, row.owner, row.symbol) \ {t}
      BY <1>2 DEF WithSymbol
    <2>2. CASE /\ tokens[t] # NoRow /\ tokens[t].owner = row.owner /\ tokens[t].symbol = row.symbol
               /\ t \in unchecked' <=> t \in unchecked
      BY <1>1, <1>2, <2>2 DEF CheckedInv, PairsExplained
    <2> QED BY <1>2, <2>1, <2>2
  <1>3. PairsExplained'
    <2> SUFFICES ASSUME NEW s \in TokenId, NEW v \in TokenId, s # v,
                        tokens'[s] # NoRow, tokens'[v] # NoRow,
                        tokens'[s].owner = tokens'[v].owner, tokens'[s].symbol = tokens'[v].symbol
                 PROVE  s \in unchecked' \/ v \in unchecked'
      BY DEF PairsExplained
    <2>1. CASE s = t
      BY <1>1, <1>2, <2>1
    <2>2. CASE v = t
      BY <1>1, <1>2, <2>2
    <2>3. CASE s # t /\ v # t
      <3>1. tokens'[s] = tokens[s] /\ tokens'[v] = tokens[v]
        BY <1>1, <2>3
      <3>2. s \in unchecked \/ v \in unchecked
        BY <3>1 DEF CheckedInv, PairsExplained
      <3> QED BY <2>3, <3>2
    <2> QED BY <2>1, <2>2, <2>3
  <1>4. \A v, s : v \notin us => WithSymbol(tokens', v, s) = WithSymbol(tokens, v, s)
    <2> SUFFICES ASSUME NEW v, NEW s, v \notin us, NEW i \in TokenId
                 PROVE  /\ tokens'[i] # NoRow /\ tokens'[i].owner = v /\ tokens'[i].symbol = s
                             => tokens[i] # NoRow /\ tokens[i].owner = v /\ tokens[i].symbol = s
                        /\ tokens[i] # NoRow /\ tokens[i].owner = v /\ tokens[i].symbol = s
                             => tokens'[i] # NoRow /\ tokens'[i].owner = v /\ tokens'[i].symbol = s
      BY DEF WithSymbol
    <2> QED BY <1>1
  <1>5. \A v, rec : v \notin us => Matching(tokens', v, rec) = Matching(tokens, v, rec)
    <2> SUFFICES ASSUME NEW v, NEW rec, v \notin us
                 PROVE  Matching(tokens', v, rec) = Matching(tokens, v, rec)
      OBVIOUS
    <2>1. PICK W : W = WithSymbol(tokens, v, rec.symbol) /\ W = WithSymbol(tokens', v, rec.symbol)
      BY <1>4
    <2>2. \A i \in W : tokens'[i] = tokens[i]
      BY <1>1, <2>1 DEF WithSymbol
    <2>3. {i \in W : tokens'[i].category = rec.category} = {i \in W : tokens[i].category = rec.category}
      BY <2>2
    <2> QED BY <2>1, <2>3 DEF Matching
  <1>6. ASSUME NEW p \in Req, p # r, req'[p] # NoRequest, ~req'[p].stale
        PROVE  UpToDate(p)'
    <2>1. /\ req'[p] = req[p] /\ req[p] # NoRequest /\ req[p].user \notin us
          /\ UpToDate(p) /\ Backed(p)
      BY <1>6, Undisturbed DEF CheckedInv, CatalogInv, LooksStand
    <2>2. SymbolTaken(p)' = SymbolTaken(p) /\ Record(p)' = Record(p)
      BY <1>4, <2>1 DEF SymbolTaken, Record
    <2>3. BringsSymbol(p)' => BringsSymbol(p)
      <3>1. CASE req[p].op = "update"
        <4>1. req[p].id \in TokenId
          BY <2>1, <3>1 DEF Backed
        <4>2. req[p].id # t
          BY <1>1, <1>6, <2>1, <3>1, <4>1, NullsAssumption DEF Backed, FreshToken, BringsSymbol
        <4>3. tokens'[req[p].id] = tokens[req[p].id]
          BY <1>1, <4>1, <4>2
        <4> QED BY <2>1, <4>3 DEF BringsSymbol
      <3> QED BY <2>1, <3>1 DEF BringsSymbol
    <2>4. /\ Matching(tokens', req[p].user, Record(p)) = Matching(tokens, req[p].user, Record(p))
          /\ Named(categories', req[p].user, Record(p)) = Named(categories, req[p].user, Record(p))
      BY <1>5, <2>1
    <2> QED BY <2>1, <2>2, <2>3, <2>4 DEF UpToDate
  <1>7. req'[r] = q
    BY DEF Disturb
  <1>8. q # NoRequest => UpToDate(r)'
    BY <1>7, NextLineUpToDate DEF CheckedInv, CatalogInv
  <1>9. LooksStand'
    <2> SUFFICES ASSUME NEW p \in Req, req'[p] # NoRequest PROVE UpToDate(p)'
      BY DEF LooksStand
    <2>1. CASE req'[p].stale
      BY <2>1 DEF UpToDate
    <2> QED BY <1>6, <1>7, <1>8, <2>1
  <1> QED BY <1>3, <1>9

(* A category written by a user.                                           *)
LEMMA CategoryWriteChecked ==
  ASSUME CheckedInv, NEW r \in Req \cup {NoRequest}, NEW u, NEW q,
         Disturb({u}, r, q), UNCHANGED <<tokens, history>>,
         NEW c \in CategoryId, NEW row \in CategoryRow, row.owner = u,
         categories' = [categories EXCEPT ![c] = row],
         categories[c] # NoRow => categories[c].owner = u,
         r \in Req /\ q # NoRequest => UpToDate(r)'
  PROVE  PairsExplained' /\ LooksStand'
  <1>1. PairsExplained'
    BY DEF CheckedInv, PairsExplained, history
  <1>2. /\ categories'[c] = row /\ \A d \in CategoryId \ {c} : categories'[d] = categories[d]
        /\ categories[c] \in CategoryRow \cup {NoRow}
    BY DEF CheckedInv, CatalogInv, CatalogTypeOK
  <1>3. \A v, n : v # u => Named(categories', v, n) = Named(categories, v, n)
    <2> SUFFICES ASSUME NEW v, NEW n, v # u
                 PROVE  Named(categories', v, n) = Named(categories, v, n)
      OBVIOUS
    <2>1. [owner |-> v, name |-> n].owner = v
      OBVIOUS
    <2>2. row # [owner |-> v, name |-> n]
      BY <2>1
    <2>3. categories[c] # NoRow => categories[c] # [owner |-> v, name |-> n]
      BY <2>1
    <2>4. \A d \in CategoryId :
            (categories'[d] # NoRow /\ categories'[d] = [owner |-> v, name |-> n])
              <=> (categories[d] # NoRow /\ categories[d] = [owner |-> v, name |-> n])
      BY <1>2, <2>2, <2>3
    <2> QED BY <2>4 DEF Named
  <1>4. ASSUME NEW p \in Req, p # r, req'[p] # NoRequest, ~req'[p].stale
        PROVE  UpToDate(p)'
    <2>1. /\ req'[p] = req[p] /\ req[p] # NoRequest /\ req[p].user # u /\ UpToDate(p)
      BY <1>4, Undisturbed DEF CheckedInv, LooksStand
    <2>2. /\ SymbolTaken(p)' = SymbolTaken(p) /\ Record(p)' = Record(p)
          /\ BringsSymbol(p)' = BringsSymbol(p)
      BY <2>1 DEF SymbolTaken, Record, BringsSymbol
    <2>3. Named(categories', req[p].user, Record(p)) = Named(categories, req[p].user, Record(p))
      BY <1>3, <2>1
    <2> QED BY <2>1, <2>2, <2>3 DEF UpToDate
  <1>5. r \in Req => req'[r] = q
    BY DEF Disturb
  <1>6. LooksStand'
    <2> SUFFICES ASSUME NEW p \in Req, req'[p] # NoRequest PROVE UpToDate(p)'
      BY DEF LooksStand
    <2>1. CASE req'[p].stale
      BY <2>1 DEF UpToDate
    <2> QED BY <1>4, <1>5, <2>1
  <1> QED BY <1>1, <1>6

(* Token requests: the looks.                                              *)
LEMMA BeginTokenChecked ==
  ASSUME CheckedInv, NEW r \in Req, BeginToken(r)
  PROVE  PairsExplained' /\ LooksStand'
  <1>1. PICK u \in User :
          \/ \E s \in Symbol, c \in CategoryId : BeginCreateToken(r, u, s, c)
          \/ \E t \in TokenId : BeginDeleteToken(r, u, t) \/ \E p \in Patches : BeginUpdateToken(r, u, t, p)
    BY DEF BeginToken
  <1>2. ASSUME NEW q, Hold(r, q), q.op \in {"create", "update", "delete"},
               \/ q.op = "create" /\ q.pc = "symbol"
               \/ q.op = "delete"
               \/ /\ q.op = "update"
                  /\ q.patch.symbol \notin {Absent, Blank, tokens[q.id].symbol} => q.pc = "symbol"
        PROVE  PairsExplained' /\ LooksStand'
    <2>1. req' = [req EXCEPT ![r] = q] /\ UNCHANGED <<categories, tokens, history>>
      BY <1>2 DEF Hold
    <2>2. req'[r] = q
      BY <2>1 DEF CheckedInv, CatalogInv, CatalogTypeOK
    <2>3. UpToDate(r)'
      BY <1>2, <2>1, <2>2 DEF UpToDate, BringsSymbol
    <2> QED BY <2>1, <2>3, QuietChecked
  <1>3. ASSUME NEW s \in Symbol, NEW c \in CategoryId, BeginCreateToken(r, u, s, c)
        PROVE  PairsExplained' /\ LooksStand'
    <2> DEFINE q == [op |-> "create", pc |-> "symbol", user |-> u, id |-> NoRow,
                     patch |-> Plain(s, c), stale |-> FALSE]
    <2>1. Hold(r, q) /\ q.op = "create" /\ q.pc = "symbol"
      BY <1>3 DEF BeginCreateToken
    <2> HIDE DEF q
    <2> QED BY <2>1, <1>2
  <1>4. ASSUME NEW t \in TokenId, BeginDeleteToken(r, u, t)
        PROVE  PairsExplained' /\ LooksStand'
    <2> DEFINE q == [op |-> "delete", pc |-> "write", user |-> u, id |-> t, stale |-> FALSE,
                     patch |-> Plain(Absent, Absent)]
    <2>1. Hold(r, q) /\ q.op = "delete"
      BY <1>4 DEF BeginDeleteToken
    <2> HIDE DEF q
    <2> QED BY <2>1, <1>2
  <1>5. ASSUME NEW t \in TokenId, NEW p \in Patches, BeginUpdateToken(r, u, t, p)
        PROVE  PairsExplained' /\ LooksStand'
    <2> DEFINE pc == IF p.symbol \notin {Absent, Blank, tokens[t].symbol} THEN "symbol"
                     ELSE IF p.category # Absent THEN "category" ELSE "write"
               q == [op |-> "update", user |-> u, id |-> t, patch |-> p, stale |-> FALSE, pc |-> pc]
    <2>1. /\ Hold(r, q) /\ q.op = "update"
          /\ q.patch.symbol \notin {Absent, Blank, tokens[q.id].symbol} => q.pc = "symbol"
      BY <1>5 DEF BeginUpdateToken
    <2> HIDE DEF q
    <2> QED BY <2>1, <1>2
  <1> QED BY <1>1, <1>3, <1>4, <1>5

LEMMA CheckChecked ==
  ASSUME CheckedInv, NEW r \in Req, CheckSymbol(r) \/ CheckCategory(r)
  PROVE  PairsExplained' /\ LooksStand'
  <1>1. /\ req[r] # NoRequest /\ req[r].op \in {"create", "update"} /\ req[r] \in TokenRequest
        /\ UpToDate(r) /\ (req[r].pc = "category" \/ ~SymbolTaken(r))
    BY Kinds DEF CheckSymbol, CheckCategory, At, Is, CheckedInv, CatalogInv, LooksStand
  <1>2. PICK pc : Advance(r, pc)
    BY DEF CheckSymbol, CheckCategory
  <1> DEFINE q == [req[r] EXCEPT !.pc = pc]
  <1>3. req' = [req EXCEPT ![r] = q] /\ UNCHANGED <<categories, tokens, history>>
    BY <1>2 DEF Advance
  <1>4. /\ q.op = req[r].op /\ q.user = req[r].user /\ q.id = req[r].id
        /\ q.patch = req[r].patch /\ q.stale = req[r].stale
    BY <1>1 DEF TokenRequest
  <1>5. req'[r] = q
    BY <1>3 DEF CheckedInv, CatalogInv, CatalogTypeOK
  <1> HIDE DEF q
  <1>6. BringsSymbol(r)' = BringsSymbol(r) /\ SymbolTaken(r)' = SymbolTaken(r)
    BY <1>3, <1>4, <1>5 DEF BringsSymbol, SymbolTaken
  <1>7. UpToDate(r)'
    BY <1>1, <1>4, <1>5, <1>6 DEF UpToDate
  <1> QED BY <1>3, <1>7, QuietChecked

(* Token requests: the writes.                                             *)
LEMMA WriteCreateTokenChecked ==
  ASSUME CheckedInv, NEW r \in Req, WriteCreateToken(r)
  PROVE  PairsExplained' /\ LooksStand'
  <1>1. /\ req[r] # NoRequest /\ req[r].op = "create" /\ req[r].pc = "write"
        /\ req[r] \in TokenRequest /\ Backed(r) /\ UpToDate(r)
    BY Kinds DEF WriteCreateToken, At, Is, CheckedInv, CatalogInv, LooksStand
  <1> DEFINE row == [owner |-> req[r].user, symbol |-> req[r].patch.symbol,
                     category |-> req[r].patch.category]
  <1>2. row \in TokenRow /\ row.owner = req[r].user /\ row.symbol = req[r].patch.symbol
    BY <1>1 DEF Backed, TokenRequest, Patch, TokenRow
  <1>3. PICK t \in TokenId : /\ FreshToken(t) /\ tokens' = [tokens EXCEPT ![t] = row]
                             /\ unchecked' = IF req[r].stale THEN unchecked \cup {t} ELSE unchecked \ {t}
    BY DEF WriteCreateToken
  <1>4. PICK us : us = {req[r].user}
    OBVIOUS
  <1>5. Disturb(us, r, NoRequest) /\ UNCHANGED categories /\ row.owner \in us
    BY <1>2, <1>4 DEF WriteCreateToken, Answered
  <1>6. t \in unchecked' \/ WithSymbol(tokens, row.owner, row.symbol) \ {t} = {}
    <2>1. CASE req[r].stale
      BY <1>3, <2>1
    <2>2. CASE ~req[r].stale
      <3>1. WithSymbol(tokens, row.owner, row.symbol) \ {NoRow} = {}
        BY <1>1, <1>2, <2>2 DEF UpToDate, BringsSymbol, SymbolTaken, Backed
      <3>2. NoRow \notin WithSymbol(tokens, row.owner, row.symbol)
        BY NullsAssumption DEF WithSymbol
      <3> QED BY <3>1, <3>2
    <2> QED BY <2>1, <2>2
  <1>7. \A s \in TokenId \ {t} : s \in unchecked' <=> s \in unchecked
    BY <1>3
  <1> HIDE DEF row
  <1> QED BY <1>1, <1>2, <1>3, <1>5, <1>6, <1>7, TokenWriteChecked

LEMMA WriteUpdateTokenChecked ==
  ASSUME CheckedInv, NEW r \in Req, WriteUpdateToken(r)
  PROVE  PairsExplained' /\ LooksStand'
  <1>1. PICK t, p, u : t = req[r].id /\ p = req[r].patch /\ u = req[r].user
    OBVIOUS
  <1>2. /\ req[r] # NoRequest /\ req[r].op = "update" /\ req[r].pc = "write" /\ tokens[t] # NoRow
        /\ req[r] \in TokenRequest /\ Backed(r) /\ UpToDate(r)
    BY <1>1, Kinds DEF WriteUpdateToken, At, Is, CheckedInv, CatalogInv, LooksStand
  <1>3. t \in TokenId /\ p \in Patch /\ t # NoRow
    BY <1>1, <1>2, NullsAssumption DEF Backed, TokenRequest
  <1>4. /\ tokens[t] \in TokenRow
        /\ ~req[r].stale => tokens[t].owner = u
    BY <1>1, <1>2, <1>3 DEF Backed, CheckedInv, CatalogInv, CatalogTypeOK
  <1>5. PICK new : new = Patched(tokens[t], p)
    OBVIOUS
  <1>6. /\ new \in TokenRow
        /\ new.symbol = (IF p.symbol = Absent THEN tokens[t].symbol ELSE p.symbol)
    BY <1>3, <1>4, <1>5, PatchedRow
  <1>7. PICK us : us = {u, tokens[t].owner, new.owner}
    OBVIOUS
  <1>8. /\ tokens' = [tokens EXCEPT ![t] = new] /\ UNCHANGED categories
        /\ Disturb(us, r, NoRequest) /\ tokens[t].owner \in us /\ new.owner \in us
    BY <1>1, <1>5, <1>7 DEF WriteUpdateToken, Answered
  <1>9. unchecked' = CASE new.owner # tokens[t].owner -> unchecked \cup {t}
                       [] new.owner = tokens[t].owner /\ new.symbol = tokens[t].symbol -> unchecked
                       [] OTHER -> IF p.symbol = Blank \/ req[r].stale
                                   THEN unchecked \cup {t} ELSE unchecked \ {t}
    BY <1>1, <1>5 DEF WriteUpdateToken
  <1>10. \/ t \in unchecked'
         \/ /\ tokens[t].owner = new.owner /\ tokens[t].symbol = new.symbol
            /\ t \in unchecked' <=> t \in unchecked
         \/ WithSymbol(tokens, new.owner, new.symbol) \ {t} = {}
    <2>1. CASE new.owner # tokens[t].owner \/ new.symbol = tokens[t].symbol
      BY <1>9, <2>1
    <2>2. CASE /\ new.owner = tokens[t].owner /\ new.symbol # tokens[t].symbol
               /\ p.symbol = Blank \/ req[r].stale
      BY <1>9, <2>2
    <2>3. CASE /\ new.owner = tokens[t].owner /\ new.symbol # tokens[t].symbol
               /\ p.symbol # Blank /\ ~req[r].stale
      <3>1. BringsSymbol(r) /\ new.owner = u /\ new.symbol = p.symbol
        BY <1>1, <1>2, <1>4, <1>6, <2>3 DEF BringsSymbol
      <3>2. ~SymbolTaken(r)
        BY <1>2, <2>3, <3>1 DEF UpToDate
      <3> QED BY <1>1, <3>1, <3>2 DEF SymbolTaken
    <2> QED BY <2>1, <2>2, <2>3
  <1>11. \A s \in TokenId \ {t} : s \in unchecked' <=> s \in unchecked
    BY <1>9
  <1> QED BY <1>2, <1>3, <1>6, <1>8, <1>10, <1>11, TokenWriteChecked

LEMMA WriteDeleteTokenChecked ==
  ASSUME CheckedInv, NEW r \in Req, WriteDeleteToken(r)
  PROVE  PairsExplained' /\ LooksStand'
  <1>1. PICK t, us : t = req[r].id /\ us = {req[r].user, tokens[t].owner}
    OBVIOUS
  <1>2. /\ req[r] # NoRequest /\ req[r].op = "delete" /\ tokens[t] # NoRow /\ Backed(r)
    BY <1>1 DEF WriteDeleteToken, At, Is, CheckedInv, CatalogInv
  <1>3. t \in TokenId
    BY <1>1, <1>2 DEF Backed
  <1>4. /\ Disturb(us, r, NoRequest) /\ UNCHANGED categories /\ tokens[t].owner \in us
        /\ tokens' = [tokens EXCEPT ![t] = NoRow] /\ unchecked' = unchecked \ {t}
    BY <1>1 DEF WriteDeleteToken, Answered
  <1>5. \A s \in TokenId \ {t} : s \in unchecked' <=> s \in unchecked
    BY <1>4
  <1> QED BY <1>2, <1>3, <1>4, <1>5, TokenWriteChecked

-------------------------------------------------------------------------------
(* The same of imports.                                                    *)
LEMMA LooksChecked ==
  ASSUME CheckedInv, NEW r \in Req,
         \/ SkipLine(r) \/ CheckLineCategory(r) \/ ImportEnds(r) \/ Refuse(r)
         \/ \E u \in User, op \in {"importTokens", "importCategories"} :
              \E file : BeginImport(r, u, op, file)
  PROVE  PairsExplained' /\ LooksStand'
  <1>1. CASE SkipLine(r)
    <2>1. /\ req[r] # NoRequest /\ req[r].op \in {"importTokens", "importCategories"}
          /\ req' = [req EXCEPT ![r] = NextLine(r)] /\ UNCHANGED <<categories, tokens, history>>
      BY <1>1 DEF SkipLine, At, Is
    <2>2. req'[r] = NextLine(r) /\ CatalogTypeOK
      BY <2>1 DEF CheckedInv, CatalogInv, CatalogTypeOK
    <2> QED BY <2>1, <2>2, NextLineUpToDate, QuietChecked
  <1>2. CASE CheckLineCategory(r)
    <2> DEFINE q == [req[r] EXCEPT !.pc = "find", !.stale = FALSE]
    <2>1. /\ req[r] # NoRequest /\ req[r].op = "importTokens" /\ req[r] \in TokenImport
          /\ req' = [req EXCEPT ![r] = q] /\ UNCHANGED <<categories, tokens, history>>
      BY <1>2, Kinds DEF CheckLineCategory, At, Is, CheckedInv, CatalogInv
    <2>2. req'[r] = q /\ q.op = "importTokens" /\ q.pc = "find"
      BY <2>1 DEF CheckedInv, CatalogInv, CatalogTypeOK, TokenImport
    <2> HIDE DEF q
    <2>3. UpToDate(r)'
      BY <2>2 DEF UpToDate, BringsSymbol
    <2> QED BY <2>1, <2>3, QuietChecked
  <1>3. CASE ImportEnds(r) \/ Refuse(r)
    <2>1. req' = [req EXCEPT ![r] = NoRequest] /\ UNCHANGED <<categories, tokens, history>>
      BY <1>3 DEF Refuse, ImportEnds, Answered
    <2> QED BY <2>1, QuietChecked
  <1>4. ASSUME NEW u \in User, NEW op \in {"importTokens", "importCategories"}, NEW file,
               BeginImport(r, u, op, file)
        PROVE  PairsExplained' /\ LooksStand'
    <2> DEFINE q == [op |-> op, pc |-> "line", user |-> u, file |-> file, line |-> 1, id |-> NoRow,
                     stale |-> FALSE]
    <2>1. req' = [req EXCEPT ![r] = q] /\ UNCHANGED <<categories, tokens, history>>
      BY <1>4 DEF BeginImport, Hold
    <2>2. req'[r] = q
      BY <2>1 DEF CheckedInv, CatalogInv, CatalogTypeOK
    <2>3. UpToDate(r)'
      BY <2>2 DEF UpToDate, BringsSymbol
    <2> HIDE DEF q
    <2> QED BY <2>1, <2>3, QuietChecked
  <1> QED BY <1>1, <1>2, <1>3, <1>4

LEMMA FindChecked ==
  ASSUME CheckedInv, NEW r \in Req, FindToken(r) \/ FindCategory(r)
  PROVE  PairsExplained' /\ LooksStand'
  <1>1. PICK found :
          /\ req[r] # NoRequest /\ Found(r, found)
          /\ \/ /\ req[r].op = "importTokens"
                /\ found = Matching(tokens, req[r].user, Record(r))
             \/ /\ req[r].op = "importCategories"
                /\ found = Named(categories, req[r].user, Record(r))
    BY DEF FindToken, FindCategory, At, Is
  <1>2. PICK i \in First(found) :
          req' = [req EXCEPT ![r] = [req[r] EXCEPT !.pc = "write", !.id = i, !.stale = FALSE]]
    BY <1>1 DEF Found
  <1> DEFINE q == [req[r] EXCEPT !.pc = "write", !.id = i, !.stale = FALSE]
  <1>3. req' = [req EXCEPT ![r] = q] /\ UNCHANGED <<categories, tokens, history>>
    BY <1>1, <1>2 DEF Found
  <1>4. req[r] \in TokenImport \cup CategoryImport
    BY <1>1, Kinds DEF CheckedInv, CatalogInv
  <1>5. /\ q.op = req[r].op /\ q.user = req[r].user /\ q.file = req[r].file
        /\ q.line = req[r].line /\ q.id = i
    BY <1>4 DEF TokenImport, CategoryImport
  <1>6. req'[r] = q
    BY <1>3 DEF CheckedInv, CatalogInv, CatalogTypeOK
  <1> HIDE DEF q
  <1>7. Record(r)' = Record(r)
    BY <1>5, <1>6 DEF Record
  <1>8. UpToDate(r)'
    BY <1>1, <1>2, <1>3, <1>5, <1>6, <1>7 DEF UpToDate, BringsSymbol
  <1> QED BY <1>3, <1>8, QuietChecked

(* What one line of an import of tokens does: the row found is as the line *)
(* says already, or the line's row is the first of its kind.               *)
LEMMA LineTokenChecked ==
  ASSUME CheckedInv, NEW r \in Req, WriteLineToken(r)
  PROVE  /\ PairsExplained' /\ LooksStand'
         /\ ~req[r].stale =>
              Cardinality(Matching(tokens', req[r].user, Record(r)))
                = AtLeastOne(Cardinality(Matching(tokens, req[r].user, Record(r))))
  <1>1. /\ req[r] # NoRequest /\ req[r].op = "importTokens" /\ req[r].pc = "write"
        /\ req[r] \in TokenImport /\ Backed(r) /\ UpToDate(r)
    BY Kinds DEF WriteLineToken, At, Is, CheckedInv, CatalogInv, LooksStand
  <1>2. PICK rec, u : rec = Record(r) /\ u = req[r].user
    OBVIOUS
  <1>3. rec \in Line /\ u \in User
    BY <1>1, <1>2, Records DEF Backed, CheckedInv, CatalogInv, TokenImport
  <1>4. PICK t \in TokenId :
          LET owner == IF req[r].id = NoRow THEN u ELSE tokens[t].owner
          IN  /\ IF req[r].id = NoRow THEN FreshToken(t) ELSE t = req[r].id /\ tokens[t] # NoRow
              /\ tokens' = [tokens EXCEPT ![t] =
                   [owner |-> owner, symbol |-> rec.symbol, category |-> rec.category]]
              /\ unchecked' = IF tokens[t] # NoRow /\ tokens[t].symbol = rec.symbol
                              THEN unchecked ELSE unchecked \cup {t}
              /\ Disturb({u, owner}, r, NextLine(r))
    BY <1>2 DEF WriteLineToken
  <1>5. PICK owner, us : /\ owner = IF req[r].id = NoRow THEN u ELSE tokens[t].owner
                         /\ us = {u, owner}
    OBVIOUS
  <1>6. /\ tokens \in [TokenId -> TokenRow \cup {NoRow}]
        /\ tokens[t] # NoRow => tokens[t].owner \in User
    BY DEF CheckedInv, CatalogInv, CatalogTypeOK, TokenRow
  <1> DEFINE row == [owner |-> owner, symbol |-> rec.symbol, category |-> rec.category]
  <1>7. /\ row \in TokenRow /\ row.owner = owner /\ row.symbol = rec.symbol
        /\ row.category = rec.category
    BY <1>3, <1>4, <1>5, <1>6 DEF Line, TokenRow
  <1>8. row # NoRow
    BY <1>7, NullsAssumption
  <1>9. /\ tokens' = [tokens EXCEPT ![t] = row] /\ Disturb(us, r, NextLine(r))
        /\ UNCHANGED categories /\ owner \in us
    BY <1>2, <1>4, <1>5 DEF WriteLineToken
  <1>10. tokens'[t] = row /\ \A s \in TokenId \ {t} : tokens'[s] = tokens[s]
    BY <1>6, <1>9
  <1>11. FreshToken(t) \/ (tokens[t] # NoRow /\ tokens[t].owner = owner)
    BY <1>4, <1>5
  <1>12. tokens[t] \in TokenRow =>
           tokens[t] = [owner |-> tokens[t].owner, symbol |-> tokens[t].symbol, category |-> tokens[t].category]
    BY DEF TokenRow
  <1>13. tokens[t] # NoRow /\ tokens[t].owner = owner /\ tokens[t].symbol = rec.symbol
           /\ tokens[t].category = rec.category => tokens[t] = row
    BY <1>6, <1>12
  <1>14. ~req[r].stale => owner = u
    BY <1>1, <1>2, <1>4, <1>5 DEF Backed
  <1> HIDE DEF row
  <1>15. PairsExplained' /\ LooksStand'
    <2>1. /\ \A s \in TokenId \ {t} : s \in unchecked' <=> s \in unchecked
          /\ \/ t \in unchecked'
             \/ /\ tokens[t] # NoRow /\ tokens[t].symbol = row.symbol
                /\ t \in unchecked' <=> t \in unchecked
      BY <1>4, <1>7
    <2>2. tokens[t] # NoRow => tokens[t].owner = row.owner /\ tokens[t].owner \in us
      BY <1>7, <1>9, <1>11 DEF FreshToken
    <2>3. row.owner \in us
      BY <1>7, <1>9
    <2> QED BY <1>1, <1>7, <1>9, <1>11, <2>1, <2>2, <2>3, TokenWriteChecked
  <1>16. ASSUME ~req[r].stale
         PROVE  Cardinality(Matching(tokens', u, rec)) = AtLeastOne(Cardinality(Matching(tokens, u, rec)))
    <2>1. req[r].id \in First(Matching(tokens, u, rec))
      BY <1>1, <1>2, <1>16 DEF UpToDate
    <2>2. Matching(tokens, u, rec) \subseteq TokenId
      BY DEF Matching, WithSymbol
    <2>3. CASE req[r].id = NoRow
      <3>1. Matching(tokens, u, rec) = {}
        BY <2>1, <2>2, <2>3, NullsAssumption DEF First
      <3>2. tokens[t] = NoRow
        BY <1>4, <2>3 DEF FreshToken
      <3>3. \A s \in TokenId : s \in Matching(tokens', u, rec) <=> s = t
        BY <1>7, <1>8, <1>10, <1>14, <1>16, <3>1 DEF Matching, WithSymbol
      <3>4. Matching(tokens', u, rec) = {t}
        BY <3>3 DEF Matching, WithSymbol
      <3> QED BY <3>1, <3>4, FS_Singleton, FS_EmptySet DEF AtLeastOne
    <2>4. CASE req[r].id # NoRow
      <3>1. t \in Matching(tokens, u, rec)
        BY <1>4, <2>1, <2>4 DEF First
      <3>2. tokens[t] = row
        BY <1>13, <1>14, <1>16, <3>1 DEF Matching, WithSymbol
      <3>3. tokens' = tokens
        BY <1>6, <1>9, <3>2
      <3>4. IsFiniteSet(Matching(tokens, u, rec))
        BY <2>2, CatalogAssumption, FS_Subset
      <3>5. Cardinality(Matching(tokens, u, rec)) # 0
        BY <3>1, <3>4, FS_EmptySet
      <3> QED BY <3>3, <3>5 DEF AtLeastOne
    <2> QED BY <2>3, <2>4
  <1> QED BY <1>2, <1>15, <1>16

(* The same of an import of categories.                                    *)
LEMMA LineCategoryChecked ==
  ASSUME CheckedInv, NEW r \in Req, WriteLineCategory(r)
  PROVE  /\ PairsExplained' /\ LooksStand'
         /\ ~req[r].stale =>
              Cardinality(Named(categories', req[r].user, Record(r)))
                = AtLeastOne(Cardinality(Named(categories, req[r].user, Record(r))))
  <1>1. /\ req[r] # NoRequest /\ req[r].op = "importCategories" /\ req[r].pc = "write"
        /\ req[r] \in CategoryImport /\ Backed(r) /\ UpToDate(r)
    BY Kinds DEF WriteLineCategory, At, Is, CheckedInv, CatalogInv, LooksStand
  <1>2. PICK n, u : n = Record(r) /\ u = req[r].user
    OBVIOUS
  <1>3. n \in Name /\ u \in User
    BY <1>1, <1>2, Records DEF Backed, CheckedInv, CatalogInv, CategoryImport
  <1>4. PICK c \in CategoryId :
          /\ IF req[r].id = NoRow THEN FreshCategory(c) ELSE c = req[r].id
          /\ categories' = [categories EXCEPT ![c] =
               [owner |-> IF req[r].id = NoRow THEN u ELSE @.owner, name |-> n]]
    BY <1>2 DEF WriteLineCategory
  <1> DEFINE row == [owner |-> u, name |-> n]
  <1>5. row \in CategoryRow /\ row.owner = u
    BY <1>3 DEF CategoryRow
  <1>6. /\ req[r].id # NoRow => categories[c].owner = u
        /\ categories[c] # NoRow => categories[c].owner = u
    BY <1>1, <1>2, <1>4 DEF Backed, OwnsCategory, FreshCategory
  <1>7. categories' = [categories EXCEPT ![c] = row]
    BY <1>4, <1>6 DEF CheckedInv, CatalogInv, CatalogTypeOK
  <1>8. Disturb({u}, r, NextLine(r)) /\ UNCHANGED <<tokens, history>>
    BY <1>2 DEF WriteLineCategory
  <1>9. UpToDate(r)'
    BY <1>1, <1>8, NextLineUpToDate DEF Disturb, CheckedInv, CatalogInv
  <1>10. /\ categories \in [CategoryId -> CategoryRow \cup {NoRow}] /\ row # NoRow
         /\ categories'[c] = row /\ \A d \in CategoryId \ {c} : categories'[d] = categories[d]
    BY <1>5, <1>7, NullsAssumption DEF CheckedInv, CatalogInv, CatalogTypeOK
  <1>11. \A d \in CategoryId :
           /\ d \in Named(categories, u, n) <=> categories[d] # NoRow /\ categories[d] = row
           /\ d \in Named(categories', u, n) <=> categories'[d] # NoRow /\ categories'[d] = row
    BY DEF Named
  <1> HIDE DEF row
  <1>12. PairsExplained' /\ LooksStand'
    BY <1>5, <1>6, <1>7, <1>8, <1>9, CategoryWriteChecked
  <1>13. ASSUME ~req[r].stale
         PROVE  Cardinality(Named(categories', u, n)) = AtLeastOne(Cardinality(Named(categories, u, n)))
    <2>1. req[r].id \in First(Named(categories, u, n))
      BY <1>1, <1>2, <1>13 DEF UpToDate
    <2>2. Named(categories, u, n) \subseteq CategoryId /\ Named(categories', u, n) \subseteq CategoryId
      BY DEF Named
    <2>3. CASE req[r].id = NoRow
      <3>1. Named(categories, u, n) = {}
        BY <2>1, <2>2, <2>3, NullsAssumption DEF First
      <3>2. Named(categories', u, n) = {c}
        BY <1>10, <1>11, <2>2, <3>1
      <3> QED BY <3>1, <3>2, FS_Singleton, FS_EmptySet DEF AtLeastOne
    <2>4. CASE req[r].id # NoRow
      <3>1. c \in Named(categories, u, n)
        BY <1>4, <2>1, <2>4 DEF First
      <3>2. categories[c] = row
        BY <1>11, <3>1
      <3>3. categories' = categories
        BY <1>7, <1>10, <3>2
      <3>4. IsFiniteSet(Named(categories, u, n))
        BY <2>2, CatalogAssumption, FS_Subset
      <3>5. Cardinality(Named(categories, u, n)) # 0
        BY <3>1, <3>4, FS_EmptySet
      <3> QED BY <3>3, <3>5 DEF AtLeastOne
    <2> QED BY <2>3, <2>4
  <1> QED BY <1>2, <1>12, <1>13

LEMMA CategoryStepChecked ==
  ASSUME CheckedInv, CategoryStep
  PROVE  PairsExplained' /\ LooksStand'
  <1>1. PICK u \in User, n \in Name :
          CreateCategory(u, n) \/ \E c \in CategoryId : UpdateCategory(u, c, n)
    BY DEF CategoryStep
  <1>2. PICK c \in CategoryId, row \in CategoryRow :
          /\ row.owner = u /\ categories' = [categories EXCEPT ![c] = row]
          /\ categories[c] # NoRow => categories[c].owner = u
    <2>1. CASE CreateCategory(u, n)
      <3>1. [owner |-> u, name |-> n] \in CategoryRow /\ [owner |-> u, name |-> n].owner = u
        BY DEF CategoryRow
      <3> QED BY <2>1, <3>1 DEF CreateCategory, FreshCategory
    <2>2. CASE \E c \in CategoryId : UpdateCategory(u, c, n)
      <3>1. PICK c \in CategoryId : UpdateCategory(u, c, n)
        BY <2>2
      <3>2. categories[c] \in CategoryRow /\ categories[c].owner = u
        BY <3>1 DEF UpdateCategory, OwnsCategory, CheckedInv, CatalogInv, CatalogTypeOK
      <3>3. PICK row : row = [categories[c] EXCEPT !.name = n]
        OBVIOUS
      <3>4. row \in CategoryRow /\ row.owner = u
        BY <3>2, <3>3 DEF CategoryRow
      <3>5. categories' = [categories EXCEPT ![c] = row]
        BY <3>1, <3>3 DEF UpdateCategory
      <3> QED BY <3>2, <3>4, <3>5
    <2> QED BY <1>1, <2>1, <2>2
  <1>3. Disturb({u}, NoRequest, NoRequest) /\ UNCHANGED <<tokens, history>>
    BY <1>1 DEF CreateCategory, UpdateCategory
  <1> QED BY <1>2, <1>3, CategoryWriteChecked, NullsAssumption

-------------------------------------------------------------------------------
(* CheckedInv is inductive.                                                *)
LEMMA InitChecked == CatalogInit => CheckedInv
  BY InitInv DEF CheckedInv, CatalogInit, PairsExplained, LooksStand

LEMMA NextChecked ==
  ASSUME CheckedInv, [CatalogNext]_catalogVars
  PROVE  CheckedInv'
  <1>1. CatalogInv'
    BY NextInv DEF CheckedInv
  <1>2. CASE UNCHANGED catalogVars
    BY <1>1, <1>2 DEF catalogVars, CheckedInv, PairsExplained, LooksStand, UpToDate, BringsSymbol,
                      SymbolTaken, Record
  <1>3. CASE CategoryStep
    BY <1>1, <1>3, CategoryStepChecked DEF CheckedInv
  <1>4. ASSUME NEW r \in Req, BeginToken(r) \/ TokenStep(r)
        PROVE  CheckedInv'
    BY <1>1, <1>4, BeginTokenChecked, CheckChecked, WriteCreateTokenChecked,
       WriteUpdateTokenChecked, WriteDeleteTokenChecked DEF TokenStep, CheckedInv
  <1>5. ASSUME NEW r \in Req, ImportStep(r) \/ Refuse(r)
        PROVE  CheckedInv'
    <2>1. CASE \E u \in User : \/ \E file \in TokenFiles : BeginImport(r, u, "importTokens", file)
                              \/ \E file \in CategoryFiles : BeginImport(r, u, "importCategories", file)
      BY <1>1, <2>1, LooksChecked DEF CheckedInv
    <2> QED BY <1>1, <1>5, <2>1, LooksChecked, FindChecked, LineTokenChecked, LineCategoryChecked
            DEF ImportStep, CheckedInv
  <1> QED BY <1>2, <1>3, <1>4, <1>5 DEF CatalogNext

(* The inductive invariant: what a request has looked for is still as it   *)
(* was found, unless another request has disturbed it since, and then its  *)
(* write is on record.                                                     *)
THEOREM CheckedInvCorrect == CatalogSpec => []CheckedInv
  <1> QED BY InitChecked, NextChecked, PTL DEF CatalogSpec

(* createTokenService and updateTokenService look for the symbol, long     *)
(* before they write it: of any number of tokens a user has of one symbol  *)
(* all but one were written past an up-to-date look.                       *)
THEOREM SameSymbolsExplained == CatalogSpec => []SameSymbolExplained
  <1>1. ASSUME CheckedInv, NEW t \in TokenId, tokens[t] # NoRow
        PROVE  Cardinality(WithSymbol(tokens, tokens[t].owner, tokens[t].symbol) \ unchecked) <= 1
    <2>1. PICK X : X = WithSymbol(tokens, tokens[t].owner, tokens[t].symbol) \ unchecked
      OBVIOUS
    <2>2. \A s, v \in X : s = v
      BY <1>1, <2>1 DEF WithSymbol, CheckedInv, PairsExplained
    <2>3. CASE X = {}
      BY <2>1, <2>3, FS_EmptySet
    <2>4. CASE X # {}
      <3>1. PICK s : X = {s}
        BY <2>2, <2>4
      <3> QED BY <2>1, <3>1, FS_Singleton
    <2> QED BY <2>3, <2>4
  <1>2. CheckedInv => SameSymbolExplained
    BY <1>1 DEF SameSymbolExplained
  <1> QED BY <1>2, CheckedInvCorrect, PTL

(* Only the write of its line moves an import from its write to the next.  *)
LEMMA LineWriter ==
  ASSUME CatalogInv, CatalogNext, NEW r \in Req, req[r] # NoRequest, req[r].pc = "write",
         req[r].op \in {"importTokens", "importCategories"}, req'[r] = NextLine(r)
  PROVE  \/ req[r].op = "importTokens" /\ WriteLineToken(r)
         \/ req[r].op = "importCategories" /\ WriteLineCategory(r)
  <1>1. /\ req[r] \in TokenImport \cup CategoryImport /\ NextLine(r) \in Request
        /\ CatalogTypeOK /\ NextLine(r) # NoRequest
    BY Kinds, NextLineType, NullsAssumption DEF CatalogInv
  <1>2. req[r].line \in Nat /\ NextLine(r).line = req[r].line + 1
    BY <1>1 DEF NextLine, TokenImport, CategoryImport
  <1>3. req'[r] # req[r] /\ req'[r] # [req[r] EXCEPT !.stale = TRUE]
    <2>1. [req[r] EXCEPT !.stale = TRUE].line = req[r].line
      BY <1>1 DEF TokenImport, CategoryImport
    <2>2. NextLine(r).line # req[r].line
      BY <1>2
    <2>3. req'[r].line = NextLine(r).line
      OBVIOUS
    <2> QED BY <2>1, <2>2, <2>3
  <1>4. ASSUME NEW p, p # r, NEW u, NEW q, Disturb(u, p, q) PROVE FALSE
    BY <1>3, <1>4 DEF Disturb
  <1>5. ASSUME NEW p \in Req, p # r, NEW q, req' = [req EXCEPT ![p] = q] PROVE FALSE
    BY <1>1, <1>3, <1>5 DEF CatalogTypeOK
  <1>6. ~CategoryStep
    BY <1>4, NullsAssumption DEF CategoryStep, CreateCategory, UpdateCategory
  <1>7. PICK p \in Req : BeginToken(p) \/ TokenStep(p) \/ ImportStep(p) \/ Refuse(p)
    BY <1>6 DEF CatalogNext
  <1>8. p = r
    <2>1. \/ \E u, q : Disturb(u, p, q)
          \/ \E q : req' = [req EXCEPT ![p] = q]
      <3>1. CASE BeginToken(p)
        BY <3>1 DEF BeginToken, BeginCreateToken, BeginUpdateToken, BeginDeleteToken, Hold
      <3>2. CASE TokenStep(p)
        BY <3>2 DEF TokenStep, CheckSymbol, CheckCategory, WriteCreateToken, WriteUpdateToken,
                    WriteDeleteToken, Advance
      <3>3. CASE ImportStep(p) \/ Refuse(p)
        BY <3>3 DEF ImportStep, BeginImport, Hold, SkipLine, CheckLineCategory, FindToken, FindCategory,
                    Found, WriteLineToken, WriteLineCategory, ImportEnds, Refuse
      <3> QED BY <1>7, <3>1, <3>2, <3>3
    <2> QED BY <1>4, <1>5, <2>1
  <1>9. ~BeginToken(r) /\ ~TokenStep(r)
    BY DEF BeginToken, BeginCreateToken, BeginUpdateToken, BeginDeleteToken, Hold, TokenStep,
           CheckSymbol, CheckCategory, WriteCreateToken, WriteUpdateToken, WriteDeleteToken, At, Is
  <1>10. ~Refuse(r)
    BY <1>1 DEF Refuse, Answered, CatalogTypeOK
  <1> QED BY <1>7, <1>8, <1>9, <1>10
          DEF ImportStep, BeginImport, Hold, SkipLine, CheckLineCategory, FindToken, FindCategory,
              WriteLineToken, WriteLineCategory, ImportEnds, At, Is

(* importTokensService and importCategoriesService find before they        *)
(* write: a line that no other request of the user disturbs in between     *)
(* leaves one row of its key where there was none, and else adds none.     *)
THEOREM LinesAreUpserts == CatalogSpec => ImportUpserts
  <1>1. ASSUME CheckedInv, CatalogNext, NEW r \in Req, req[r] # NoRequest, ~req[r].stale,
               req'[r] = NextLine(r)
        PROVE  /\ At(r, "importTokens", "write") =>
                    Cardinality(Matching(tokens', req[r].user, Record(r)))
                      = AtLeastOne(Cardinality(Matching(tokens, req[r].user, Record(r))))
               /\ At(r, "importCategories", "write") =>
                    Cardinality(Named(categories', req[r].user, Record(r)))
                      = AtLeastOne(Cardinality(Named(categories, req[r].user, Record(r))))
    <2>1. ASSUME At(r, "importTokens", "write") PROVE WriteLineToken(r)
      BY <1>1, <2>1, LineWriter DEF At, Is, CheckedInv
    <2>2. ASSUME At(r, "importCategories", "write") PROVE WriteLineCategory(r)
      BY <1>1, <2>2, LineWriter DEF At, Is, CheckedInv
    <2> QED BY <1>1, <2>1, <2>2, LineTokenChecked, LineCategoryChecked
  <1>2. CheckedInv /\ [CatalogNext]_catalogVars => [Upserts]_catalogVars
    BY <1>1 DEF Upserts
  <1> QED BY <1>2, CheckedInvCorrect, PTL DEF CatalogSpec, ImportUpserts
================================================================================
