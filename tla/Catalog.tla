------------------------------- MODULE Catalog -------------------------------
(***************************************************************************)
(* Categories and products: the handlers of cmd/api/categories.go and of   *)
(* createNewProductsHandler over the tables categories and products, many  *)
(* requests at once, on any replica.                                       *)
(*                                                                         *)
(* Every handler runs one statement, except the update of a category: it   *)
(* reads the row with the version of the URL, fills in what the request    *)
(* left out from that row, and writes all columns back WHERE the version   *)
(* is still the same.  A deletion sets the parent of the children to NULL  *)
(* without touching their version.                                         *)
(***************************************************************************)
EXTENDS Integers, FiniteSets, Functions

CONSTANTS Calls,     \* the requests that are ever sent
          Asked,     \* what they may ask
          Old,       \* ids of categories created before
          Names,     \* the names categories and products are given
          Lower,     \* LOWER of SQL: names that differ by case only fall together
          Shelf,     \* products created before: [id, name, category, price]
          Root       \* the parent of a category without parent (NULL)

\* A category created by a call is named by the call: ids are never reused.
Ids == Old \cup Calls

Unsent == "unsent"
Input ==
  [kind : {"create"}, name : Names, parent : Ids \cup {Root}]
  \cup [kind : {"update"}, id : Ids, version : Nat,
        name : Names \cup {Unsent}, parent : Ids \cup {Root, Unsent}]
  \cup [kind : {"delete", "average"}, id : Ids]
  \cup [kind : {"product"}, name : Names, category : Ids, price : Nat]

ASSUME CatalogAssumption ==
  /\ Asked \subseteq Input
  /\ IsFiniteSet(Ids) /\ IsFiniteSet(Shelf)
  /\ Lower \in [Names -> STRING]
  /\ "" \in Names /\ Unsent \notin Names
  /\ Root \notin Ids /\ Unsent \notin Ids \cup {Root} /\ Old \cap Calls = {}
  /\ \A p \in Shelf : p \in [id : {p.id}, name : Names \ {""}, category : Old, price : Nat]

VARIABLES
  cat,      \* categories: [name, parent, version], version 0 where there is no row
  goods,    \* products
  pc,       \* where the handler of each call stands
  input,    \* the decoded request
  seen,     \* the category an update is about to write back
  answer,   \* what the call was answered
  faulted,  \* history: calls one of whose statements failed, or its result
  applied   \* history: updates whose write took effect

tables == <<cat, goods>>
vars == <<tables, pc, input, seen, answer, faulted, applied>>

Named   == Names \ {""}
NoRow   == [name |-> "", parent |-> Root, version |-> 0]
Row     == [name : Named, parent : Ids \cup {Root}, version : Nat \ {0}]
Product == [id : Calls \cup {p.id : p \in Shelf}, name : Named, category : Ids, price : Nat]
Phases  == {"new", "write", "done", "dead"}
Answers == {"none", "ok", "invalid", "notfound", "failed"}

TypeOK ==
  /\ cat \in [Ids -> Row \cup {NoRow}]
  /\ goods \subseteq Product
  /\ pc \in [Calls -> Phases]
  /\ input \in [Calls -> Input]
  /\ seen \in [Calls -> Row \cup {NoRow}]
  /\ answer \in [Calls -> Answers]
  /\ faulted \subseteq Calls
  /\ applied \subseteq Calls

Exists(i) == cat[i].version > 0
Present   == {i \in Ids : Exists(i)}

\* The foreign key of parent_id.
ParentMissing(parent) == parent # Root /\ parent \notin Present

(* The unique index ux_categories_name_parent, for a row about to be       *)
(* stored as i; and ux_products_name_cat.                                  *)
Duplicate(i, name, parent) ==
  \E j \in Present \ {i} :
    Lower[cat[j].name] = Lower[name] /\ cat[j].parent = parent
DuplicateProduct(name, category) ==
  \E p \in goods : Lower[p.name] = Lower[name] /\ p.category = category

(* The categories above i, and whether i is above itself.                  *)
Above(i) ==
  LET up[n \in Nat] ==
        IF n = 0 THEN i
        ELSE LET reached == up[n - 1]
             IN  IF reached = Root THEN Root ELSE cat[reached].parent
  IN  {up[n] : n \in 1 .. Cardinality(Ids)} \ {Root}
OnRing(i) == i \in Above(i)

(* Any state of the old categories and products that creations lead to.    *)
Grown ==
  /\ \A i \in Present :
       /\ ~ OnRing(i) /\ ~ ParentMissing(cat[i].parent)
       /\ ~ Duplicate(i, cat[i].name, cat[i].parent)
  /\ \A p \in Shelf : p.category \in Present

Init ==
  /\ \E row \in [Old -> [name : Named, parent : Old \cup {Root}, version : {1}] \cup {NoRow}] :
       cat = [i \in Ids |-> IF i \in Old THEN row[i] ELSE NoRow]
  /\ Grown
  /\ goods = Shelf
  /\ pc = [c \in Calls |-> "new"]
  /\ input \in [Calls -> Asked]
  /\ seen = [c \in Calls |-> NoRow]
  /\ answer = [c \in Calls |-> "none"]
  /\ faulted = {}
  /\ applied = {}

-----------------------------------------------------------------------------
Answer(c, a) ==
  /\ pc' = [pc EXCEPT ![c] = "done"]
  /\ answer' = [answer EXCEPT ![c] = a]
  /\ UNCHANGED <<input, seen>>

Refuse(c, a) ==
  /\ Answer(c, a)
  /\ UNCHANGED <<tables, faulted, applied>>

(* A statement took effect: its result arrives, or is lost and the handler *)
(* answers 500 for it.                                                     *)
Took(c) ==
  \/ Answer(c, "ok") /\ UNCHANGED faulted
  \/ Answer(c, "failed") /\ faulted' = faulted \cup {c}

Starts(c, kind) == pc[c] = "new" /\ input[c].kind = kind

(* ValidateName, and what ValidateUpdatedCategory and ValidateProduct ask  *)
(* of the name.                                                            *)
AnyName(name) == TRUE
ValidName(name) == name # ""

(* createNewCategoryHandler and CreateNewCategory.                         *)
CreateRefused(c) ==
  LET in == input[c]
  IN  /\ Starts(c, "create")
      /\ IF ~ ValidName(in.name) \/ Duplicate(c, in.name, in.parent)
           THEN Refuse(c, "invalid")
           ELSE ParentMissing(in.parent) /\ Refuse(c, "failed")

NewCategory(in) == [name |-> in.name, parent |-> in.parent, version |-> 1]

CreateCategory(c) ==
  LET in == input[c]
  IN  /\ Starts(c, "create")
      /\ ValidName(in.name)
      /\ ~ Duplicate(c, in.name, in.parent)
      /\ ~ ParentMissing(in.parent)
      /\ cat' = [cat EXCEPT ![c] = NewCategory(in)]
      /\ Took(c)
      /\ UNCHANGED <<goods, applied>>

(* updateCategoryHandler: GetCategoryByID, with the version of the URL,    *)
(* the fields that were sent, and ValidateUpdatedCategory.                 *)
Merged(c) ==
  LET in == input[c]
      row == cat[in.id]
  IN  [name    |-> IF in.name = Unsent THEN row.name ELSE in.name,
       parent  |-> IF in.parent = Unsent THEN row.parent ELSE in.parent,
       version |-> row.version]

ReadHits(c) == Exists(input[c].id) /\ cat[input[c].id].version = input[c].version

ReadCategory(c) ==
  /\ Starts(c, "update")
  /\ ReadHits(c)
  /\ IF ~ ValidName(Merged(c).name)
       THEN Refuse(c, "invalid")
       ELSE /\ pc' = [pc EXCEPT ![c] = "write"]
            /\ seen' = [seen EXCEPT ![c] = Merged(c)]
            /\ UNCHANGED <<tables, input, answer, faulted, applied>>

ReadMissing(c) ==
  /\ Starts(c, "update")
  /\ ~ ReadHits(c)
  /\ Refuse(c, "notfound")

(* UpdateCategory.  A row that is gone or has another version gives        *)
(* sql.ErrNoRows, which neither it nor the handler tells from a failure.   *)
WriteHitsAnyVersion(c) == Exists(input[c].id)
WriteHits(c) == Exists(input[c].id) /\ cat[input[c].id].version = seen[c].version

WriteCategory(c) ==
  LET i == input[c].id
  IN  /\ pc[c] = "write"
      /\ WriteHits(c)
      /\ ~ Duplicate(i, seen[c].name, seen[c].parent)
      /\ ~ ParentMissing(seen[c].parent)
      /\ cat' = [cat EXCEPT ![i] = [name |-> seen[c].name, parent |-> seen[c].parent,
                                    version |-> @.version + 1]]
      /\ applied' = applied \cup {c}
      /\ Took(c)
      /\ UNCHANGED goods

WriteRefused(c) ==
  /\ pc[c] = "write"
  /\ IF WriteHits(c) /\ Duplicate(input[c].id, seen[c].name, seen[c].parent)
       THEN Refuse(c, "invalid")
       ELSE (~ WriteHits(c) \/ ParentMissing(seen[c].parent)) /\ Refuse(c, "failed")

(* deleteCategoryByIDHandler: the statement with what the foreign keys do, *)
(* RESTRICT for products and SET NULL for children.  A child that would    *)
(* then share its name with a root category refuses the whole statement.   *)
Children(i) == {k \in Present : cat[k].parent = i}
ChildrenKept(i) == [cat EXCEPT ![i] = NoRow]
Orphaned(i) == [k \in Ids |->
  IF k = i THEN NoRow
  ELSE IF k \in Children(i) THEN [cat[k] EXCEPT !.parent = Root] ELSE cat[k]]
OrphansClash(i) ==
  \E k \in Children(i) \ {i} : \E j \in Present \ {i, k} :
    cat[j].parent = Root /\ Lower[cat[j].name] = Lower[cat[k].name]
InUse(i) == \E p \in goods : p.category = i

DeleteCategory(c) ==
  LET i == input[c].id
  IN  /\ Starts(c, "delete")
      /\ Exists(i) /\ ~ InUse(i) /\ ~ OrphansClash(i)
      /\ cat' = Orphaned(i)
      /\ Took(c)
      /\ UNCHANGED <<goods, applied>>

DeleteRefused(c) ==
  LET i == input[c].id
  IN  /\ Starts(c, "delete")
      /\ IF Exists(i)
           THEN (InUse(i) \/ OrphansClash(i)) /\ Refuse(c, "failed")
           ELSE Refuse(c, "notfound")

(* createNewProductsHandler and CreateNewProducts.                         *)
ProductRefused(c) ==
  LET in == input[c]
  IN  /\ Starts(c, "product")
      /\ ~ ValidName(in.name) \/ ~ Exists(in.category) \/ DuplicateProduct(in.name, in.category)
      /\ Refuse(c, "invalid")

NewProduct(c) == [id |-> c, name |-> input[c].name, category |-> input[c].category,
                  price |-> input[c].price]

CreateProduct(c) ==
  LET in == input[c]
  IN  /\ Starts(c, "product")
      /\ ValidName(in.name) /\ Exists(in.category) /\ ~ DuplicateProduct(in.name, in.category)
      /\ goods' = goods \cup {NewProduct(c)}
      /\ Took(c)
      /\ UNCHANGED <<cat, applied>>

(* GetCategoryAveragePrice: the recursive query goes down level by level   *)
(* and keeps every row it meets (UNION ALL), so it ends only at a level    *)
(* without rows.  A category that does not exist has an empty tree, and    *)
(* the average 0 of 0 products.                                            *)
LevelsKept(i) ==
  LET level[n \in Nat] ==
        IF n = 0 THEN {i} \cap Present
        ELSE LET above == level[n - 1]
             IN  above \cup {k \in Present : cat[k].parent \in above}
  IN  [n \in 0 .. Cardinality(Ids) |-> level[n]]
LevelsOf(i) ==
  LET level[n \in Nat] ==
        IF n = 0 THEN {i} \cap Present
        ELSE LET above == level[n - 1]
             IN  {k \in Present : cat[k].parent \in above}
  IN  [n \in 0 .. Cardinality(Ids) |-> level[n]]
TreeEnds(i) == LevelsOf(i)[Cardinality(Ids)] = {}

InCategories(ids) == {p \in goods : p.category \in ids}
Total(products) == SumFunction([p \in products |-> p.price])

AveragePrice(i) ==
  LET level == LevelsOf(i)
  IN  [count |-> SumFunction([n \in DOMAIN level |-> Cardinality(InCategories(level[n]))]),
       total |-> SumFunction([n \in DOMAIN level |-> Total(InCategories(level[n]))])]

(* A query that does not end is cut off by its context after 10 s.         *)
AverageResult(i) == IF TreeEnds(i) THEN "ok" ELSE "failed"

Average(c) ==
  /\ Starts(c, "average")
  /\ Refuse(c, AverageResult(input[c].id))

(* Any statement may fail without effect.                                  *)
StatementFails(c) ==
  /\ pc[c] \in {"new", "write"}
  /\ Answer(c, "failed")
  /\ faulted' = faulted \cup {c}
  /\ UNCHANGED <<tables, applied>>

Crash(c) ==
  /\ pc[c] = "write"
  /\ pc' = [pc EXCEPT ![c] = "dead"]
  /\ UNCHANGED <<tables, input, seen, answer, faulted, applied>>

AllEnded ==
  /\ \A c \in Calls : pc[c] \in {"done", "dead"}
  /\ UNCHANGED vars

Handle(c) ==
  \/ CreateRefused(c) \/ CreateCategory(c)
  \/ ReadCategory(c) \/ ReadMissing(c) \/ WriteCategory(c) \/ WriteRefused(c)
  \/ DeleteCategory(c) \/ DeleteRefused(c)
  \/ ProductRefused(c) \/ CreateProduct(c) \/ Average(c) \/ StatementFails(c)

Next == (\E c \in Calls : Handle(c) \/ Crash(c)) \/ AllEnded

Spec == Init /\ [][Next]_vars
-----------------------------------------------------------------------------
(* Whatever calls meet, in the tables every parent and every category of a *)
(* product exists, and the names of the categories of one parent differ by *)
(* more than case, roots that a deletion made included.                    *)
TablesAreSound ==
  /\ \A i \in Present :
       /\ ~ ParentMissing(cat[i].parent)
       /\ ~ Duplicate(i, cat[i].name, cat[i].parent)
  /\ \A p \in goods : Exists(p.category)

(* Two updates that name the same version of a category: at most one takes *)
(* effect, acknowledged or not, with deletions of parents in between.      *)
OneWinnerPerVersion ==
  \A c, d \in applied :
    input[c].id = input[d].id /\ input[c].version = input[d].version => c = d

(* An update changes only what its client sent: a field it left out keeps  *)
(* the value it has at that moment, although the statement writes every    *)
(* column back from a row read earlier.                                    *)
WritesOnlySent(c) ==
  LET i == input[c].id
  IN  /\ cat'[i].name = IF input[c].name = Unsent THEN cat[i].name ELSE input[c].name
      /\ cat'[i].parent = IF input[c].parent = Unsent THEN cat[i].parent ELSE input[c].parent
UnsentFieldsKept ==
  [][\A c \in applied' \ applied : WritesOnlySent(c)]_vars

(* The average of a category takes every product at or below it once, and  *)
(* the query ends exactly when the category is not on a ring.              *)
AverageCountsEachOnce ==
  \A i \in Present :
    LET below == InCategories({k \in Present : k = i \/ i \in Above(k)})
    IN  /\ TreeEnds(i) <=> ~ OnRing(i)
        /\ TreeEnds(i) => AveragePrice(i) = [count |-> Cardinality(below), total |-> Total(below)]

(* cmd/api/categories.go: getCategoryAveragePriceHandler "handles the      *)
(* request to get the average price of products in a category and its      *)
(* children"; no statement failing, it answers with one.                   *)
AverageIsAnswered ==
  \A c \in Calls \ faulted :
    input[c].kind = "average" => answer[c] # "failed"
=============================================================================
