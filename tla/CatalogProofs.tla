---------------------------- MODULE CatalogProofs ---------------------------
(***************************************************************************)
(* Theorems about Catalog for any categories, names and calls.  The tables *)
(* are kept sound by their own constraints; that updates are honest rests  *)
(* on what a handler about to write knows of the row it read (WriteOK),    *)
(* although a deletion changes rows without changing their version.        *)
(* The average of a category is a sum over the levels below it, which are  *)
(* the categories that reach it in as many steps up (LevelIsUp): off a     *)
(* ring they are disjoint, and on one they never end.                      *)
(***************************************************************************)
EXTENDS Catalog, FiniteSetTheorems, FunctionTheorems, WellFoundedInduction, TLAPS

(* An id that was given away: no call will create it any more.             *)
Used(i) == i \in Calls => pc[i] # "new"
Gone(i) == i # Root /\ i \notin Present /\ Used(i)

UsedInv == \A i \in Ids : Exists(i) => Used(i)

(* Names differ within a parent, up to LOWER.                              *)
Distinct ==
  \A i, j \in Present :
    i # j => Lower[cat[i].name] # Lower[cat[j].name] \/ cat[i].parent # cat[j].parent

Sound ==
  /\ Distinct
  /\ \A i \in Present : ~ ParentMissing(cat[i].parent)
  /\ \A p \in goods : Exists(p.category)

(* A handler about to write back has the row of the version it was asked   *)
(* for, with the fields that were sent.  If the row still has the version, *)
(* the others are as they were, but for a parent that was deleted since.   *)
WriteOK(c) ==
  LET i  == input[c].id
      in == input[c]
  IN  pc[c] = "write" =>
        /\ in.kind = "update" /\ seen[c] \in Row /\ seen[c].version = in.version
        /\ Used(i)
        /\ Exists(i) => seen[c].version <= cat[i].version
        /\ (Exists(i) /\ cat[i].version = seen[c].version) =>
             /\ seen[c].name = IF in.name = Unsent THEN cat[i].name ELSE in.name
             /\ in.parent # Unsent => seen[c].parent = in.parent
             /\ in.parent = Unsent => (seen[c].parent = cat[i].parent \/ Gone(seen[c].parent))

WriteInv == \A c \in Calls : WriteOK(c)

(* An update that took effect left a later version behind, or the row was  *)
(* deleted since.                                                          *)
AppliedOK(c) ==
  LET i == input[c].id
  IN  /\ input[c].kind = "update" /\ Used(i) /\ pc[c] = "done"
      /\ Exists(i) => cat[i].version > input[c].version

AppliedInv == \A c \in applied : AppliedOK(c)

IInv == TypeOK /\ UsedInv /\ Sound /\ WriteInv /\ AppliedInv /\ OneWinnerPerVersion

-----------------------------------------------------------------------------
(* What the inputs of each kind hold.                                      *)

LEMMA InputType ==
  ASSUME TypeOK, NEW c \in Calls
  PROVE  /\ input[c] \in Input
         /\ input[c].kind = "create" =>
              input[c].name \in Names /\ input[c].parent \in Ids \cup {Root}
         /\ input[c].kind = "update" =>
              /\ input[c].id \in Ids /\ input[c].version \in Nat
              /\ input[c].name \in Names \cup {Unsent}
              /\ input[c].parent \in Ids \cup {Root, Unsent}
         /\ input[c].kind \in {"delete", "average"} => input[c].id \in Ids
         /\ input[c].kind = "product" =>
              input[c].name \in Names /\ input[c].category \in Ids /\ input[c].price \in Nat
<1>1. input[c] \in Input
  BY DEF TypeOK
<1>. QED
  BY <1>1 DEF Input

LEMMA NoRowIsNone == ASSUME NEW i, cat[i] = NoRow PROVE ~ Exists(i) /\ cat[i].version = 0
<1>1. NoRow.version = 0
  BY DEF NoRow
<1>2. cat[i].version = 0
  BY <1>1
<1>3. ~ (0 > 0)
  OBVIOUS
<1>. QED
  BY <1>2, <1>3 DEF Exists

LEMMA RowType ==
  ASSUME TypeOK, NEW i \in Ids
  PROVE  /\ cat[i].version \in Nat
         /\ Exists(i) => /\ cat[i] \in Row /\ cat[i].name \in Named
                         /\ cat[i].parent \in Ids \cup {Root} /\ cat[i].version \in Nat \ {0}
         /\ ~ Exists(i) => cat[i] = NoRow
<1>1. CASE cat[i] \in Row
  BY <1>1 DEF Row, Exists
<1>2. CASE cat[i] = NoRow
  BY <1>2, NoRowIsNone
<1>3. cat[i] \in Row \/ cat[i] = NoRow
  BY DEF TypeOK
<1>. QED
  BY <1>1, <1>2, <1>3

(* The initial rows are sound, and nothing is under way.                   *)
LEMMA InitInv == Init => IInv
<1>. SUFFICES ASSUME Init PROVE IInv
  OBVIOUS
<1>1. PICK row \in [Old -> [name : Named, parent : Old \cup {Root}, version : {1}] \cup {NoRow}] :
        cat = [i \in Ids |-> IF i \in Old THEN row[i] ELSE NoRow]
  BY DEF Init
<1>2. cat \in [Ids -> Row \cup {NoRow}]
  <2>1. ASSUME NEW i \in Old PROVE row[i] \in Row \cup {NoRow}
    <3>1. row[i] \in [name : Named, parent : Old \cup {Root}, version : {1}] \/ row[i] = NoRow
      BY <1>1
    <3>. QED
      BY <3>1 DEF Row, Ids
  <2>. QED
    BY <1>1, <2>1
<1>3. goods \subseteq Product
  <2>. SUFFICES ASSUME NEW p \in Shelf PROVE p \in Product
    BY DEF Init
  <2>1. p \in [id : {p.id}, name : Names \ {""}, category : Old, price : Nat]
    BY CatalogAssumption
  <2>2. p.id \in Calls \cup {s.id : s \in Shelf}
    OBVIOUS
  <2>. QED
    BY <2>1, <2>2 DEF Product, Named, Ids
<1>4. TypeOK
  BY <1>2, <1>3, CatalogAssumption DEF Init, TypeOK, Phases, Answers
<1>5. Sound
  <2>1. Grown
    BY DEF Init
  <2>2. Distinct
    BY <2>1 DEF Grown, Duplicate, Distinct
  <2>3. \A i \in Present : ~ ParentMissing(cat[i].parent)
    BY <2>1 DEF Grown
  <2>4. \A p \in goods : Exists(p.category)
    BY <2>1 DEF Grown, Init, Present
  <2>. QED
    BY <2>2, <2>3, <2>4 DEF Sound
<1>6. UsedInv
  <2>1. ASSUME NEW i \in Ids, Exists(i) PROVE i \in Old
    <3>1. ASSUME i \notin Old PROVE FALSE
      <4>1. cat[i] = NoRow
        BY <1>1, <3>1
      <4>. QED
        BY <4>1, <2>1, NoRowIsNone
    <3>. QED
      BY <3>1
  <2>. QED
    BY <2>1, CatalogAssumption DEF UsedInv, Used
<1>7. WriteInv /\ AppliedInv /\ OneWinnerPerVersion
  BY DEF Init, WriteInv, WriteOK, AppliedInv, OneWinnerPerVersion
<1>. QED
  BY <1>4, <1>5, <1>6, <1>7 DEF IInv

-----------------------------------------------------------------------------
(* The steps that leave the categories alone.                              *)

Moves(c, phase) ==
  /\ phase \in {"done", "dead"}
  /\ pc[c] \in {"new", "write"}
  /\ pc' = [pc EXCEPT ![c] = phase]
  /\ answer' = answer \/ \E a \in Answers : answer' = [answer EXCEPT ![c] = a]
  /\ faulted' \subseteq faulted \cup {c}
  /\ UNCHANGED <<input, seen>>

ReadRefused(c) == ReadCategory(c) /\ ~ ValidName(Merged(c).name)
ReadPasses(c)  == ReadCategory(c) /\ ValidName(Merged(c).name)

Quiet(c) ==
  \/ ReadRefused(c) \/ CreateRefused(c) \/ ReadMissing(c) \/ WriteRefused(c) \/ DeleteRefused(c)
  \/ ProductRefused(c) \/ Average(c) \/ StatementFails(c) \/ Crash(c)

LEMMA QuietMoves ==
  ASSUME NEW c \in Calls, Quiet(c)
  PROVE  UNCHANGED <<cat, goods, applied>> /\ \E phase : Moves(c, phase)
  BY DEF Quiet, ReadRefused, ReadCategory, CreateRefused, ReadMissing, WriteRefused, DeleteRefused, ProductRefused,
         Average, AverageResult, StatementFails, Crash, Refuse, Answer, Starts, tables, Moves,
         Answers

(* The four statements that write, however they are acknowledged.          *)
LEMMA TookMoves ==
  ASSUME NEW c \in Calls, pc[c] \in {"new", "write"}, Took(c)
  PROVE  Moves(c, "done")
  BY DEF Took, Answer, Moves, Answers

LEMMA NextCases ==
  ASSUME [Next]_vars
  PROVE  \/ \E c \in Calls :
              \/ Quiet(c) \/ ReadPasses(c)
              \/ CreateCategory(c) \/ WriteCategory(c) \/ DeleteCategory(c) \/ CreateProduct(c)
         \/ UNCHANGED vars
  BY DEF Next, Handle, Quiet, ReadRefused, ReadPasses, AllEnded

(* What was used stays used, and what is gone stays gone unless a row of   *)
(* that id appears.                                                        *)
LEMMA UsedStays ==
  ASSUME NEW c, NEW phase, phase # "new", pc' = [pc EXCEPT ![c] = phase],
         TypeOK, NEW i, Used(i)
  PROVE  Used(i)'
  BY DEF Used, TypeOK

LEMMA GoneStays ==
  ASSUME NEW i, Gone(i), Used(i)', i \in Present' => i \in Present
  PROVE  Gone(i)'
  BY DEF Gone

(* A step that leaves the categories and the handlers at work alone.       *)
LEMMA SettledStep ==
  ASSUME IInv, NEW c \in Calls, NEW phase, Moves(c, phase), UNCHANGED <<cat, applied>>
  PROVE  UsedInv' /\ WriteInv' /\ AppliedInv' /\ OneWinnerPerVersion'
<1>. USE DEF IInv
<1>1. ASSUME NEW i, Used(i) PROVE Used(i)'
  BY <1>1, UsedStays DEF Moves
<1>2. ASSUME NEW i, Gone(i) PROVE Gone(i)'
  <2>1. Present' = Present
    BY DEF Present, Exists
  <2>. QED
    BY <1>1, <1>2, <2>1, GoneStays DEF Gone
<1>3. UsedInv'
  BY <1>1 DEF UsedInv, Exists
<1>4. WriteInv'
  <2>. SUFFICES ASSUME NEW d \in Calls, pc'[d] = "write" PROVE WriteOK(d)'
    BY DEF WriteInv, WriteOK
  <2>1. pc[d] = "write" /\ WriteOK(d)
    BY DEF Moves, TypeOK, WriteInv
  <2>. QED
    BY <2>1, <1>1, <1>2 DEF WriteOK, Moves, Exists
<1>5. AppliedInv'
  <2>. SUFFICES ASSUME NEW d \in applied PROVE AppliedOK(d)'
    BY DEF AppliedInv
  <2>1. AppliedOK(d) /\ d # c
    BY DEF AppliedInv, AppliedOK, Moves, TypeOK
  <2>. QED
    BY <2>1, <1>1 DEF AppliedOK, Moves, TypeOK, Exists
<1>6. OneWinnerPerVersion'
  BY DEF OneWinnerPerVersion, Moves
<1>. QED
  BY <1>3, <1>4, <1>5, <1>6

(* The read of an update remembers what it read.                           *)
LEMMA ReadStep ==
  ASSUME IInv, NEW c \in Calls, ReadPasses(c)
  PROVE  IInv'
<1>. USE DEF IInv
<1>0. /\ pc[c] = "new" /\ input[c].kind = "update" /\ ReadHits(c) /\ ValidName(Merged(c).name)
      /\ pc' = [pc EXCEPT ![c] = "write"]
      /\ seen' = [seen EXCEPT ![c] = Merged(c)]
      /\ UNCHANGED <<cat, goods, input, answer, faulted, applied>>
  BY DEF ReadPasses, ReadCategory, Starts, tables
<1>. DEFINE i == input[c].id
<1>1. /\ i \in Ids /\ Exists(i) /\ input[c].version = cat[i].version
      /\ cat[i] \in Row
      /\ input[c].name \in Names \cup {Unsent}
      /\ input[c].parent \in Ids \cup {Root, Unsent}
  BY <1>0, InputType, RowType DEF ReadHits
<1>2. Merged(c) \in Row
  BY <1>0, <1>1 DEF Merged, Row, Named, ValidName
<1>3. TypeOK'
  BY <1>0, <1>2 DEF TypeOK, Phases
<1>4. ASSUME NEW k, Used(k) PROVE Used(k)'
  BY <1>0, <1>4, UsedStays
<1>5. ASSUME NEW k, Gone(k) PROVE Gone(k)'
  <2>1. Present' = Present
    BY <1>0 DEF Present, Exists
  <2>. QED
    BY <1>4, <1>5, <2>1, GoneStays DEF Gone
<1>6. UsedInv'
  BY <1>0, <1>4 DEF UsedInv, Exists
<1>7. Sound'
  BY <1>0 DEF Sound, Distinct, Present, Exists, ParentMissing
<1>8. WriteInv'
  <2>. SUFFICES ASSUME NEW d \in Calls, pc'[d] = "write" PROVE WriteOK(d)'
    BY DEF WriteInv, WriteOK
  <2>1. CASE d # c
    <3>1. pc[d] = "write" /\ WriteOK(d) /\ seen'[d] = seen[d]
      BY <1>0, <2>1 DEF TypeOK, WriteInv
    <3>. QED
      BY <3>1, <1>0, <1>4, <1>5 DEF WriteOK, Exists
  <2>2. CASE d = c
    <3>1. seen'[c] = Merged(c)
      BY <1>0 DEF TypeOK
    <3>2. /\ Merged(c).version = cat[i].version
          /\ Merged(c).name = IF input[c].name = Unsent THEN cat[i].name ELSE input[c].name
          /\ input[c].parent # Unsent => Merged(c).parent = input[c].parent
          /\ input[c].parent = Unsent => Merged(c).parent = cat[i].parent
      BY DEF Merged
    <3>3. Used(i)'
      <4>1. PICK k : k = i
        OBVIOUS
      <4>2. Used(k)'
        BY <1>1, <1>4, <4>1 DEF UsedInv
      <4>. QED
        BY <1>0, <4>1, <4>2
    <3>4. Merged(c).version <= cat[i].version
      BY <1>1, <3>2 DEF Row
    <3>. QED
      BY <1>0, <1>1, <1>2, <2>2, <3>1, <3>2, <3>3, <3>4 DEF WriteOK, Exists
  <2>. QED
    BY <2>1, <2>2
<1>9. AppliedInv'
  <2>. SUFFICES ASSUME NEW d \in applied PROVE AppliedOK(d)'
    BY <1>0 DEF AppliedInv
  <2>1. AppliedOK(d) /\ d # c
    BY <1>0 DEF AppliedInv, AppliedOK
  <2>. QED
    BY <2>1, <1>0, <1>4 DEF AppliedOK, TypeOK, Exists
<1>10. OneWinnerPerVersion'
  BY <1>0 DEF OneWinnerPerVersion
<1>. QED
  BY <1>3, <1>6, <1>7, <1>8, <1>9, <1>10

-----------------------------------------------------------------------------
(* The statements that change categories.                                  *)

LEMMA CreateStep ==
  ASSUME IInv, NEW c \in Calls, CreateCategory(c)
  PROVE  IInv'
<1>. USE DEF IInv
<1>. DEFINE in == input[c]
<1>0. /\ pc[c] = "new" /\ in.kind = "create" /\ ValidName(in.name)
      /\ ~ Duplicate(c, in.name, in.parent) /\ ~ ParentMissing(in.parent)
      /\ cat' = [cat EXCEPT ![c] = NewCategory(in)]
      /\ Moves(c, "done") /\ Took(c)
      /\ UNCHANGED <<goods, applied>>
  BY TookMoves DEF CreateCategory, Starts
<1>1. in.name \in Named /\ in.parent \in Ids \cup {Root}
  BY <1>0, InputType DEF ValidName, Named
<1>2. c \in Ids /\ ~ Exists(c)
  BY <1>0 DEF Ids, UsedInv, Used
<1>3. NewCategory(in) \in Row
  BY <1>1 DEF NewCategory, Row
<1>4. cat'[c] = NewCategory(in) /\ \A k \in Ids \ {c} : cat'[k] = cat[k]
  BY <1>0, <1>2 DEF TypeOK
<1>5. Present' = Present \cup {c} /\ c \notin Present
  <2>1. NewCategory(in).version = 1 /\ 1 > 0
    BY DEF NewCategory
  <2>. QED
    BY <1>2, <1>4, <2>1 DEF Present, Exists
<1>6. TypeOK'
  <2>1. cat' \in [Ids -> Row \cup {NoRow}]
    BY <1>0, <1>3 DEF TypeOK
  <2>. QED
    BY <1>0, <2>1 DEF TypeOK, Took, Answer, Phases, Answers
<1>7. ASSUME NEW k, Used(k) PROVE Used(k)' /\ k # c
  BY <1>0, <1>7, UsedStays DEF Moves, Used
<1>8. ASSUME NEW k, Gone(k) PROVE Gone(k)'
  BY <1>5, <1>7, <1>8, GoneStays DEF Gone
<1>9. \A k \in Ids : k # c => (Exists(k)' <=> Exists(k))
  BY <1>4 DEF Exists
<1>10. UsedInv'
  <2>1. Used(c)'
    BY <1>0 DEF Used, Moves, TypeOK
  <2>. QED
    BY <1>7, <1>9, <2>1 DEF UsedInv
<1>11. Sound'
  <2>1. \A j \in Present : Lower[cat[j].name] # Lower[in.name] \/ cat[j].parent # in.parent
    BY <1>0, <1>5 DEF Duplicate
  <2>2. /\ cat'[c].name = in.name /\ cat'[c].parent = in.parent
        /\ \A j \in Present : cat'[j] = cat[j]
    BY <1>4, <1>5 DEF NewCategory, Present
  <2>3. Distinct'
    BY <1>5, <2>1, <2>2 DEF Distinct, Sound
  <2>4. (\A j \in Present : ~ ParentMissing(cat[j].parent))'
    BY <1>0, <1>5, <2>2 DEF ParentMissing, Sound
  <2>5. (\A p \in goods : Exists(p.category))'
    <3>1. \A p \in goods : p.category \in Ids /\ Exists(p.category)
      BY DEF Sound, TypeOK, Product
    <3>. QED
      BY <1>0, <1>2, <1>9, <3>1
  <2>. QED
    BY <2>3, <2>4, <2>5 DEF Sound
<1>12. WriteInv'
  <2>. SUFFICES ASSUME NEW d \in Calls, pc'[d] = "write" PROVE WriteOK(d)'
    BY DEF WriteInv, WriteOK
  <2>1. pc[d] = "write" /\ WriteOK(d) /\ input' = input /\ seen' = seen
    BY <1>0 DEF Moves, TypeOK, WriteInv
  <2>2. input[d].id \in Ids /\ input[d].id # c
    BY <2>1, <1>7, InputType DEF WriteOK
  <2>. QED
    BY <2>1, <2>2, <1>4, <1>7, <1>8 DEF WriteOK, Exists
<1>13. AppliedInv'
  <2>. SUFFICES ASSUME NEW d \in applied PROVE AppliedOK(d)'
    BY <1>0 DEF AppliedInv
  <2>1. AppliedOK(d) /\ d # c /\ d \in Calls /\ input' = input
    BY <1>0 DEF AppliedInv, AppliedOK, Moves, TypeOK
  <2>2. input[d].id \in Ids /\ input[d].id # c
    BY <2>1, <1>7, InputType DEF AppliedOK
  <2>. QED
    BY <2>1, <2>2, <1>0, <1>4, <1>7 DEF AppliedOK, Moves, TypeOK, Exists
<1>14. OneWinnerPerVersion'
  BY <1>0 DEF OneWinnerPerVersion, Moves
<1>. QED
  BY <1>6, <1>10, <1>11, <1>12, <1>13, <1>14

LEMMA WriteStep ==
  ASSUME IInv, NEW c \in Calls, WriteCategory(c)
  PROVE  IInv' /\ WritesOnlySent(c) /\ applied' = applied \cup {c}
<1>. USE DEF IInv
<1>0. PICK i : i = input[c].id
  OBVIOUS
<1>. DEFINE new == [name |-> seen[c].name, parent |-> seen[c].parent,
                    version |-> cat[i].version + 1]
<1>1. /\ pc[c] = "write" /\ WriteHits(c)
      /\ ~ Duplicate(i, seen[c].name, seen[c].parent) /\ ~ ParentMissing(seen[c].parent)
      /\ cat' = [cat EXCEPT ![i] = new]
      /\ applied' = applied \cup {c}
      /\ Moves(c, "done") /\ Took(c) /\ goods' = goods
  BY <1>0, TookMoves DEF WriteCategory
<1>2. /\ input[c].kind = "update" /\ seen[c] \in Row /\ Used(i)
      /\ seen[c].version = input[c].version
      /\ Exists(i) /\ cat[i].version = seen[c].version
      /\ seen[c].name = IF input[c].name = Unsent THEN cat[i].name ELSE input[c].name
      /\ input[c].parent # Unsent => seen[c].parent = input[c].parent
      /\ input[c].parent = Unsent => (seen[c].parent = cat[i].parent \/ Gone(seen[c].parent))
  BY <1>0, <1>1 DEF WriteInv, WriteOK, WriteHits
<1>3. /\ i \in Ids /\ cat[i].version \in Nat \ {0} /\ new \in Row
      /\ new.version > cat[i].version /\ new.version > 0
  BY <1>0, <1>2, InputType, RowType DEF Row
<1>4. cat'[i] = new /\ \A k \in Ids \ {i} : cat'[k] = cat[k]
  BY <1>1, <1>3 DEF TypeOK
<1>5. Present' = Present /\ i \in Present
  BY <1>2, <1>3, <1>4 DEF Present, Exists
<1>6. TypeOK'
  <2>1. cat' \in [Ids -> Row \cup {NoRow}]
    BY <1>1, <1>3 DEF TypeOK
  <2>. QED
    BY <1>1, <2>1 DEF TypeOK, Took, Answer, Phases, Answers
<1>7. ASSUME NEW k, Used(k) PROVE Used(k)'
  BY <1>1, <1>7, UsedStays DEF Moves
<1>8. ASSUME NEW k, Gone(k) PROVE Gone(k)'
  BY <1>5, <1>7, <1>8, GoneStays DEF Gone
<1>9. \A k \in Ids : (Exists(k)' <=> Exists(k)) /\ (Exists(k) => cat'[k].version >= cat[k].version)
  <2>1. \A k \in Ids \ {i} : cat[k].version \in Nat
    BY RowType
  <2>. QED
    BY <1>2, <1>3, <1>4, <2>1 DEF Exists
<1>10. UsedInv'
  BY <1>7, <1>9 DEF UsedInv
<1>11. Sound'
  <2>1. \A j \in Present \ {i} :
          Lower[cat[j].name] # Lower[seen[c].name] \/ cat[j].parent # seen[c].parent
    BY <1>1 DEF Duplicate
  <2>2. /\ cat'[i].name = seen[c].name /\ cat'[i].parent = seen[c].parent
        /\ \A j \in Present \ {i} : cat'[j] = cat[j]
    BY <1>4 DEF Present
  <2>3. Distinct'
    BY <1>5, <2>1, <2>2 DEF Distinct, Sound
  <2>4. (\A j \in Present : ~ ParentMissing(cat[j].parent))'
    BY <1>1, <1>5, <2>2 DEF ParentMissing, Sound
  <2>5. (\A p \in goods : Exists(p.category))'
    <3>1. \A p \in goods : p.category \in Ids /\ Exists(p.category)
      BY DEF Sound, TypeOK, Product
    <3>. QED
      BY <1>1, <1>9, <3>1
  <2>. QED
    BY <2>3, <2>4, <2>5 DEF Sound
<1>12. WriteInv'
  <2>. SUFFICES ASSUME NEW d \in Calls, pc'[d] = "write" PROVE WriteOK(d)'
    BY DEF WriteInv, WriteOK
  <2>1. pc[d] = "write" /\ WriteOK(d) /\ input' = input /\ seen' = seen
    BY <1>1 DEF Moves, TypeOK, WriteInv
  <2>2. PICK k : k = input[d].id
    OBVIOUS
  <2>3. k \in Ids /\ seen[d].version \in Nat /\ cat[k].version \in Nat /\ Used(k)
    BY <2>1, <2>2, InputType, RowType DEF WriteOK, Row
  <2>4. CASE k = i
    <3>1. seen[d].version <= cat[i].version
      BY <1>2, <2>1, <2>2, <2>4 DEF WriteOK
    <3>2. seen[d].version <= new.version /\ seen[d].version # new.version
      BY <1>3, <2>3, <3>1
    <3>. QED
      BY <1>4, <1>7, <2>1, <2>2, <2>3, <2>4, <3>2 DEF WriteOK
  <2>5. CASE k # i
    BY <1>4, <1>7, <1>8, <2>1, <2>2, <2>3, <2>5 DEF WriteOK, Exists
  <2>. QED
    BY <2>4, <2>5
<1>13. AppliedInv'
  <2>. SUFFICES ASSUME NEW d \in applied \cup {c} PROVE AppliedOK(d)'
    BY <1>1 DEF AppliedInv
  <2>1. CASE d = c
    <3>1. pc'[c] = "done" /\ input' = input
      BY <1>1 DEF Moves, TypeOK
    <3>. QED
      BY <1>0, <1>2, <1>3, <1>4, <1>7, <2>1, <3>1 DEF AppliedOK
  <2>2. CASE d # c
    <3>1. d \in Calls /\ AppliedOK(d) /\ input' = input /\ pc'[d] = pc[d]
      BY <1>1, <2>2 DEF AppliedInv, Moves, TypeOK
    <3>2. PICK k : k = input[d].id
      OBVIOUS
    <3>3. /\ k \in Ids /\ Used(k) /\ input[d].version \in Nat
          /\ cat[k].version \in Nat /\ cat'[k].version \in Nat
      <4>1. k \in Ids /\ Used(k) /\ input[d].version \in Nat /\ cat[k].version \in Nat
        BY <3>1, <3>2, InputType, RowType DEF AppliedOK
      <4>2. new.version \in Nat
        BY <1>3
      <4>. QED
        BY <1>4, <4>1, <4>2
    <3>4. Exists(k)' => cat'[k].version > input[d].version
      BY <1>9, <3>1, <3>2, <3>3 DEF AppliedOK
    <3>. QED
      BY <1>7, <3>1, <3>2, <3>3, <3>4 DEF AppliedOK
  <2>. QED
    BY <2>1, <2>2
<1>14. OneWinnerPerVersion'
  <2>1. ASSUME NEW d \in applied
        PROVE  input[d].id # i \/ input[d].version # input[c].version
    <3>1. d \in Calls /\ AppliedOK(d)
      BY <2>1 DEF AppliedInv, TypeOK
    <3>. QED
      BY <1>2, <1>3, <3>1 DEF AppliedOK
  <2>2. input' = input
    BY <1>1 DEF Moves
  <2>. QED
    BY <1>0, <1>1, <2>1, <2>2 DEF OneWinnerPerVersion
<1>15. WritesOnlySent(c)
  <2>1. ~ Gone(seen[c].parent)
    BY <1>1 DEF Gone, ParentMissing
  <2>. QED
    BY <1>0, <1>2, <1>4, <2>1 DEF WritesOnlySent
<1>. QED
  BY <1>1, <1>6, <1>10, <1>11, <1>12, <1>13, <1>14, <1>15

LEMMA DeleteStep ==
  ASSUME IInv, NEW c \in Calls, DeleteCategory(c)
  PROVE  IInv'
<1>. USE DEF IInv
<1>0. PICK i : i = input[c].id
  OBVIOUS
<1>1. /\ pc[c] = "new" /\ input[c].kind = "delete"
      /\ Exists(i) /\ ~ InUse(i) /\ ~ OrphansClash(i)
      /\ cat' = Orphaned(i)
      /\ Moves(c, "done") /\ Took(c) /\ UNCHANGED <<goods, applied>>
  BY <1>0, TookMoves DEF DeleteCategory, Starts
<1>2. i \in Ids /\ i \in Present /\ Used(i)
  BY <1>0, <1>1, InputType DEF Present, UsedInv
<1>3. cat'[i] = NoRow
  BY <1>1, <1>2 DEF Orphaned
<1>4. ASSUME NEW k \in Present, k # i
      PROVE  /\ cat'[k] \in Row /\ cat'[k].name = cat[k].name
             /\ cat'[k].version = cat[k].version
             /\ cat'[k].parent = IF cat[k].parent = i THEN Root ELSE cat[k].parent
  <2>1. k \in Ids /\ cat[k] \in Row
    BY RowType DEF Present
  <2>2. CASE cat[k].parent = i
    <3>1. k \in Children(i)
      BY <2>2 DEF Children
    <3>2. cat'[k] = [cat[k] EXCEPT !.parent = Root]
      BY <1>1, <1>4, <2>1, <3>1 DEF Orphaned
    <3>. QED
      BY <2>1, <2>2, <3>2 DEF Row
  <2>3. CASE cat[k].parent # i
    <3>1. k \notin Children(i)
      BY <2>3 DEF Children
    <3>2. cat'[k] = cat[k]
      BY <1>1, <1>4, <2>1, <3>1 DEF Orphaned
    <3>. QED
      BY <2>1, <2>3, <3>2
  <2>. QED
    BY <2>2, <2>3
<1>5. ASSUME NEW k \in Ids, k \notin Present PROVE cat'[k] = NoRow
  <2>1. k \notin Children(i) /\ k # i /\ cat[k] = NoRow
    BY <1>2, <1>5, RowType DEF Children, Present
  <2>. QED
    BY <1>1, <2>1 DEF Orphaned
<1>6. Present' = Present \ {i}
  <2>1. ASSUME NEW k \in Present, k # i PROVE Exists(k)'
    BY <1>4, <2>1 DEF Exists, Present
  <2>2. ASSUME NEW k \in Ids, k = i \/ k \notin Present PROVE ~ Exists(k)'
    <3>1. cat'[k] = NoRow
      BY <1>3, <1>5, <2>2
    <3>2. NoRow.version = 0
      BY DEF NoRow
    <3>3. cat'[k].version = 0
      BY <3>1, <3>2
    <3>4. ~ (0 > 0)
      OBVIOUS
    <3>. QED
      BY <3>3, <3>4 DEF Exists
  <2>3. Present \subseteq Ids /\ Present' \subseteq Ids
    BY DEF Present
  <2>4. \A k \in Ids : k \in Present' <=> Exists(k)'
    BY DEF Present
  <2>. QED
    BY <2>1, <2>2, <2>3, <2>4
<1>7. TypeOK'
  <2>1. \A k \in Ids : cat'[k] \in Row \cup {NoRow}
    BY <1>3, <1>4, <1>5
  <2>2. cat' \in [Ids -> Row \cup {NoRow}]
    BY <1>1, <2>1 DEF Orphaned
  <2>. QED
    BY <1>1, <2>2 DEF TypeOK, Took, Answer, Phases, Answers
<1>8. ASSUME NEW k, Used(k) PROVE Used(k)'
  BY <1>1, <1>8, UsedStays DEF Moves
<1>9. ASSUME NEW k, Gone(k) PROVE Gone(k)'
  BY <1>6, <1>8, <1>9, GoneStays DEF Gone
<1>10. ASSUME i # Root PROVE Gone(i)'
  BY <1>2, <1>6, <1>8, <1>10 DEF Gone
<1>11. UsedInv'
  <2>. SUFFICES ASSUME NEW k \in Ids, Exists(k)' PROVE Used(k)'
    BY DEF UsedInv
  <2>1. k \in Present
    BY <1>6 DEF Present
  <2>. QED
    BY <1>8, <2>1 DEF UsedInv, Present
<1>12. Sound'
  <2>1. Distinct'
    <3>. SUFFICES ASSUME NEW j \in Present', NEW k \in Present', j # k
                  PROVE  Lower[cat'[j].name] # Lower[cat'[k].name] \/ cat'[j].parent # cat'[k].parent
      BY DEF Distinct
    <3>1. /\ j \in Present /\ k \in Present /\ j # i /\ k # i
          /\ Lower[cat[j].name] # Lower[cat[k].name] \/ cat[j].parent # cat[k].parent
      BY <1>6 DEF Sound, Distinct
    <3>2. cat[j].parent = i /\ cat[k].parent = Root =>
            Lower[cat[j].name] # Lower[cat[k].name]
      BY <1>1, <3>1 DEF OrphansClash, Children
    <3>3. cat[k].parent = i /\ cat[j].parent = Root =>
            Lower[cat[j].name] # Lower[cat[k].name]
      BY <1>1, <3>1 DEF OrphansClash, Children
    <3>. QED
      BY <1>4, <3>1, <3>2, <3>3
  <2>2. (\A j \in Present : ~ ParentMissing(cat[j].parent))'
    <3>. SUFFICES ASSUME NEW j \in Present' PROVE ~ ParentMissing(cat[j].parent)'
      OBVIOUS
    <3>1. j \in Present /\ j # i /\ ~ ParentMissing(cat[j].parent)
      BY <1>6 DEF Sound
    <3>. QED
      BY <1>4, <1>6, <3>1 DEF ParentMissing
  <2>3. (\A p \in goods : Exists(p.category))'
    <3>. SUFFICES ASSUME NEW p \in goods PROVE Exists(p.category)'
      BY <1>1
    <3>1. p.category \in Present /\ p.category # i
      BY <1>1 DEF Sound, TypeOK, Product, Present, InUse
    <3>. QED
      BY <1>6, <3>1 DEF Present
  <2>. QED
    BY <2>1, <2>2, <2>3 DEF Sound
<1>13. ASSUME NEW k \in Ids, Exists(k)'
       PROVE  k \in Present /\ k # i /\ Exists(k) /\ cat'[k].version = cat[k].version
  <2>1. k \in Present /\ k # i
    BY <1>6, <1>13 DEF Present
  <2>. QED
    BY <1>4, <2>1 DEF Present
<1>14. WriteInv'
  <2>. SUFFICES ASSUME NEW d \in Calls, pc'[d] = "write" PROVE WriteOK(d)'
    BY DEF WriteInv, WriteOK
  <2>1. pc[d] = "write" /\ WriteOK(d) /\ input' = input /\ seen' = seen
    BY <1>1 DEF Moves, TypeOK, WriteInv
  <2>2. PICK k : k = input[d].id
    OBVIOUS
  <2>3. k \in Ids /\ Used(k)'
    BY <1>8, <2>1, <2>2, InputType DEF WriteOK
  <2>4. CASE ~ Exists(k)'
    BY <2>1, <2>2, <2>3, <2>4 DEF WriteOK
  <2>5. CASE Exists(k)'
    <3>1. k \in Present /\ k # i /\ Exists(k) /\ cat'[k].version = cat[k].version
      BY <1>13, <2>3, <2>5
    <3>2. /\ cat'[k].name = cat[k].name
          /\ cat'[k].parent = cat[k].parent \/ cat[k].parent = i
      BY <1>4, <3>1
    <3>3. cat[k].parent = i => i # Root
      BY <1>2, CatalogAssumption
    <3>4. ASSUME cat[k].version = seen[d].version, input[d].parent = Unsent
          PROVE  seen[d].parent = cat'[k].parent \/ Gone(seen[d].parent)'
      <4>1. PICK q : q = seen[d].parent
        OBVIOUS
      <4>2. q = cat[k].parent \/ Gone(q)
        BY <2>1, <2>2, <3>1, <3>4, <4>1 DEF WriteOK
      <4>3. q = cat'[k].parent \/ Gone(q)'
        BY <1>9, <1>10, <3>2, <3>3, <4>2
      <4>. QED
        BY <2>1, <4>1, <4>3
    <3>. QED
      BY <2>1, <2>2, <2>3, <3>1, <3>2, <3>4 DEF WriteOK
  <2>. QED
    BY <2>4, <2>5
<1>15. AppliedInv'
  <2>. SUFFICES ASSUME NEW d \in applied PROVE AppliedOK(d)'
    BY <1>1 DEF AppliedInv
  <2>1. d \in Calls /\ AppliedOK(d) /\ input' = input /\ pc'[d] = pc[d]
    BY <1>1 DEF AppliedInv, AppliedOK, Moves, TypeOK
  <2>2. PICK k : k = input[d].id
    OBVIOUS
  <2>3. k \in Ids /\ Used(k)'
    BY <1>8, <2>1, <2>2, InputType DEF AppliedOK
  <2>4. Exists(k)' => cat'[k].version > input[d].version
    BY <1>13, <2>1, <2>2, <2>3 DEF AppliedOK
  <2>. QED
    BY <2>1, <2>2, <2>3, <2>4 DEF AppliedOK
<1>16. OneWinnerPerVersion'
  BY <1>1 DEF OneWinnerPerVersion, Moves
<1>. QED
  BY <1>7, <1>11, <1>12, <1>14, <1>15, <1>16

-----------------------------------------------------------------------------
(* Refusals, failures, crashes and new products.                           *)

LEMMA QuietStep ==
  ASSUME IInv, NEW c \in Calls, Quiet(c)
  PROVE  IInv'
<1>1. PICK phase : Moves(c, phase) /\ UNCHANGED <<cat, goods, applied>>
  BY QuietMoves
<1>2. UsedInv' /\ WriteInv' /\ AppliedInv' /\ OneWinnerPerVersion'
  BY <1>1, SettledStep
<1>3. TypeOK'
  BY <1>1 DEF IInv, TypeOK, Moves, Phases
<1>4. Sound'
  BY <1>1 DEF IInv, Sound, Distinct, Present, Exists, ParentMissing
<1>. QED
  BY <1>2, <1>3, <1>4 DEF IInv

LEMMA ProductStep ==
  ASSUME IInv, NEW c \in Calls, CreateProduct(c)
  PROVE  IInv'
<1>1. /\ input[c].kind = "product" /\ ValidName(input[c].name) /\ Exists(input[c].category)
      /\ goods' = goods \cup {NewProduct(c)}
      /\ Moves(c, "done") /\ UNCHANGED <<cat, applied>>
  BY TookMoves DEF CreateProduct, Starts
<1>2. UsedInv' /\ WriteInv' /\ AppliedInv' /\ OneWinnerPerVersion'
  BY <1>1, SettledStep
<1>3. NewProduct(c) \in Product /\ NewProduct(c).category = input[c].category
  <2>1. /\ input[c].name \in Names /\ input[c].category \in Ids /\ input[c].price \in Nat
    BY <1>1, InputType DEF IInv
  <2>. QED
    BY <1>1, <2>1 DEF NewProduct, Product, Named, ValidName
<1>4. TypeOK'
  BY <1>1, <1>3 DEF IInv, TypeOK, Moves, Phases
<1>5. Sound'
  BY <1>1, <1>3 DEF IInv, Sound, Distinct, Present, Exists, ParentMissing
<1>. QED
  BY <1>2, <1>4, <1>5 DEF IInv

LEMMA StutterStep ==
  ASSUME IInv, UNCHANGED vars
  PROVE  IInv'
  BY DEF IInv, vars, tables, TypeOK, UsedInv, Used, Sound, Distinct, Present, Exists,
         ParentMissing, WriteInv, WriteOK, Gone, AppliedInv, AppliedOK, OneWinnerPerVersion

LEMMA NextInv == ASSUME IInv, [Next]_vars PROVE IInv'
<1>1. ASSUME NEW c \in Calls, Quiet(c) PROVE IInv'
  BY <1>1, QuietStep
<1>2. ASSUME NEW c \in Calls, ReadPasses(c) PROVE IInv'
  BY <1>2, ReadStep
<1>3. ASSUME NEW c \in Calls, CreateCategory(c) PROVE IInv'
  BY <1>3, CreateStep
<1>4. ASSUME NEW c \in Calls, WriteCategory(c) PROVE IInv'
  BY <1>4, WriteStep
<1>5. ASSUME NEW c \in Calls, DeleteCategory(c) PROVE IInv'
  BY <1>5, DeleteStep
<1>6. ASSUME NEW c \in Calls, CreateProduct(c) PROVE IInv'
  BY <1>6, ProductStep
<1>. QED
  BY <1>1, <1>2, <1>3, <1>4, <1>5, <1>6, NextCases, StutterStep

LEMMA Invariant == Spec => []IInv
<1>1. Init => IInv
  BY InitInv
<1>2. IInv /\ [Next]_vars => IInv'
  BY NextInv
<1>. QED
  BY <1>1, <1>2, PTL DEF Spec

-----------------------------------------------------------------------------
(* Rows, requests and what handlers hold keep their shape.                 *)
THEOREM TypeCorrect == Spec => []TypeOK
<1>1. IInv => TypeOK
  BY DEF IInv
<1>. QED
  BY <1>1, Invariant, PTL

(* No order of creations, moves, renames, deletions and new products of    *)
(* any number of calls leaves a category or a product hanging, or two      *)
(* names in one place.                                                     *)
THEOREM TablesAreSoundThm == Spec => []TablesAreSound
<1>1. IInv => TablesAreSound
  BY DEF IInv, Sound, Distinct, TablesAreSound, Duplicate
<1>. QED
  BY <1>1, Invariant, PTL

(* UpdateCategory with its version check lets one of the updates that read *)
(* a version win, lost answers and deletions included.                     *)
THEOREM OneWinnerPerVersionThm == Spec => []OneWinnerPerVersion
<1>1. IInv => OneWinnerPerVersion
  BY DEF IInv
<1>. QED
  BY <1>1, Invariant, PTL

(* What the client left out of an update is written back unchanged: no     *)
(* deletion between the read and the write slips through the version.      *)
THEOREM UnsentFieldsKeptThm == Spec => UnsentFieldsKept
<1>1. IInv /\ [Next]_vars => [\A c \in applied' \ applied : WritesOnlySent(c)]_vars
  <2>. SUFFICES ASSUME IInv, [Next]_vars
                PROVE  \A c \in applied' \ applied : WritesOnlySent(c)
    OBVIOUS
  <2>1. ASSUME NEW c \in Calls, WriteCategory(c)
        PROVE  \A d \in applied' \ applied : WritesOnlySent(d)
    BY <2>1, WriteStep
  <2>2. ASSUME applied' = applied PROVE \A d \in applied' \ applied : WritesOnlySent(d)
    BY <2>2
  <2>3. ASSUME NEW c \in Calls, Quiet(c) \/ ReadPasses(c) \/ CreateCategory(c)
                                \/ DeleteCategory(c) \/ CreateProduct(c)
        PROVE  applied' = applied
    BY <2>3, QuietMoves DEF ReadPasses, ReadCategory, CreateCategory, DeleteCategory,
       CreateProduct, Refuse
  <2>4. UNCHANGED vars => applied' = applied
    BY DEF vars
  <2>. QED
    BY <2>1, <2>2, <2>3, <2>4, NextCases
<1>. QED
  BY <1>1, Invariant, PTL DEF Spec, UnsentFieldsKept

-----------------------------------------------------------------------------
(* Induction, stated for sets of naturals so that it can be instantiated.  *)

LEMMA LeastNat ==
  ASSUME NEW S, S \subseteq Nat, S # {}
  PROVE  \E n \in S : \A m \in S : n <= m
<1>1. \E x \in S : \A y \in S : ~ (<<y, x>> \in OpToRel(<, Nat))
  BY NatLessThanWellFounded, WFMin, Zenon
<1>2. \E x \in S : \A y \in S : ~ (y < x)
  BY <1>1 DEF OpToRel
<1>. QED
  BY <1>2

LEMMA NatInduct ==
  ASSUME NEW S, 0 \in S, \A n \in Nat : n \in S => n + 1 \in S
  PROVE  Nat \subseteq S
<1>. SUFFICES ASSUME Nat \ S # {} PROVE FALSE
  OBVIOUS
<1>1. PICK n \in Nat \ S : \A m \in Nat \ S : n <= m
  BY LeastNat
<1>2. n # 0 /\ n - 1 \in Nat /\ n - 1 \in S
  BY <1>1
<1>. QED
  BY <1>1, <1>2

(* SumFunctionOnSet folds a function over a finite set: it takes out one   *)
(* element after the other (Pick), so its partial sums solve a recursion.  *)

Pick(S) == CHOOSE x \in S : TRUE
Partial(f, S, g, T) == IF T = {} THEN 0 ELSE f[Pick(T)] + g[T \ {Pick(T)}]
Partials(f, S) == CHOOSE g : g = [T \in SUBSET S |-> Partial(f, S, g, T)]

LEMMA SumIsPartial ==
  ASSUME NEW f, NEW S PROVE SumFunctionOnSet(f, S) = Partials(f, S)[S]
  BY DEF SumFunctionOnSet, FoldFunctionOnSet, MapThenFoldSet, Partials, Partial, Pick

LEMMA PickTaken ==
  ASSUME NEW S, IsFiniteSet(S), S # {}
  PROVE  /\ Pick(S) \in S /\ IsFiniteSet(S \ {Pick(S)})
         /\ Cardinality(S) \in Nat \ {0}
         /\ Cardinality(S \ {Pick(S)}) = Cardinality(S) - 1
<1>1. Pick(S) \in S
  BY DEF Pick
<1>. QED
  BY <1>1, FS_RemoveElement, FS_CardinalityType, FS_EmptySet

(* The fold's recursion has a solution, built up by cardinality.           *)
LEMMA PartialsDefined ==
  ASSUME NEW f, NEW S, IsFiniteSet(S)
  PROVE  \A T \in SUBSET S : Partials(f, S)[T] = Partial(f, S, Partials(f, S), T)
<1>. DEFINE Solves(g, n) == /\ DOMAIN g = SUBSET S
                            /\ \A T \in SUBSET S : Cardinality(T) <= n => g[T] = Partial(f, S, g, T)
            Good == {n \in Nat : \E g : Solves(g, n)}
<1>0. \A T \in SUBSET S : /\ IsFiniteSet(T) /\ Cardinality(T) \in Nat
                            /\ Cardinality(T) <= Cardinality(S)
  BY FS_Subset, FS_CardinalityType
<1>1. 0 \in Good
  <2>1. Solves([T \in SUBSET S |-> 0], 0)
    BY <1>0, FS_EmptySet DEF Partial
  <2>. QED
    BY <2>1
<1>2. ASSUME NEW n \in Nat, n \in Good PROVE n + 1 \in Good
  <2>1. PICK g : Solves(g, n)
    BY <1>2
  <2>. DEFINE h == [T \in SUBSET S |-> IF Cardinality(T) <= n THEN g[T] ELSE Partial(f, S, g, T)]
  <2>2. ASSUME NEW T \in SUBSET S, Cardinality(T) <= n + 1
        PROVE  h[T] = Partial(f, S, h, T)
    <3>1. CASE T = {}
      <4>1. Cardinality(T) <= n
        BY <3>1, FS_EmptySet
      <4>. QED
        BY <2>1, <3>1, <4>1 DEF Partial
    <3>2. CASE T # {}
      <4>1. /\ T \ {Pick(T)} \in SUBSET S
            /\ Cardinality(T \ {Pick(T)}) <= n
        BY <1>0, <2>2, <3>2, PickTaken
      <4>2. h[T \ {Pick(T)}] = g[T \ {Pick(T)}]
        BY <4>1
      <4>3. Partial(f, S, h, T) = Partial(f, S, g, T)
        BY <4>2 DEF Partial
      <4>. QED
        BY <2>1, <4>3
    <3>. QED
      BY <3>1, <3>2
  <2>3. Solves(h, n + 1)
    BY <2>2
  <2>4. \E k : Solves(k, n + 1)
    <3>. HIDE DEF h
    <3>. QED
      BY <2>3
  <2>. QED
    BY <2>4
<1>3. Cardinality(S) \in Good
  <2>1. Nat \subseteq Good
    <3>. HIDE DEF Good
    <3>. QED
      BY <1>1, <1>2, NatInduct
  <2>. QED
    BY <2>1, FS_CardinalityType
<1>4. PICK g : Solves(g, Cardinality(S))
  BY <1>3
<1>5. \A T \in SUBSET S : g[T] = Partial(f, S, g, T)
  BY <1>0, <1>4
<1>6. \E h : h = [T \in SUBSET S |-> Partial(f, S, h, T)]
  <2>1. PICK h : h = [T \in SUBSET S |-> g[T]]
    OBVIOUS
  <2>2. ASSUME NEW T \in SUBSET S PROVE h[T] = Partial(f, S, h, T)
    <3>1. h[T] = Partial(f, S, g, T)
      BY <1>5, <2>1
    <3>2. T # {} => h[T \ {Pick(T)}] = g[T \ {Pick(T)}]
      BY <2>1
    <3>. QED
      BY <3>1, <3>2 DEF Partial
  <2>3. h = [T \in SUBSET S |-> Partial(f, S, h, T)]
    BY <2>1, <2>2
  <2>. QED
    BY <2>3
<1>7. Partials(f, S) = [T \in SUBSET S |-> Partial(f, S, Partials(f, S), T)]
  BY <1>6 DEF Partials
<1>. QED
  BY <1>7

(* A set of subsets that holds of T once it holds of the smaller ones.     *)
LEMMA SubsetInduct ==
  ASSUME NEW S, IsFiniteSet(S), NEW Good,
         \A T \in SUBSET S : (\A U \in SUBSET T : U # T => U \in Good) => T \in Good
  PROVE  \A T \in SUBSET S : T \in Good
<1>. DEFINE Upto == {n \in Nat : \A T \in SUBSET S : Cardinality(T) <= n => T \in Good}
<1>0. \A T \in SUBSET S : IsFiniteSet(T) /\ Cardinality(T) \in Nat
  BY FS_Subset, FS_CardinalityType
<1>1. \A T \in SUBSET S : \A U :
        U \in SUBSET T /\ U # T => U \in SUBSET S /\ Cardinality(U) < Cardinality(T)
  BY <1>0, FS_Subset
<1>2. 0 \in Upto
  BY <1>0, <1>1
<1>3. ASSUME NEW n \in Nat, n \in Upto PROVE n + 1 \in Upto
  <2>1. ASSUME NEW T \in SUBSET S, Cardinality(T) <= n + 1 PROVE T \in Good
    <3>1. ASSUME NEW U \in SUBSET T, U # T PROVE U \in Good
      <4>1. U \in SUBSET S /\ Cardinality(U) < Cardinality(T)
        BY <1>1, <3>1
      <4>2. Cardinality(U) <= n
        BY <1>0, <2>1, <4>1
      <4>. QED
        BY <1>3, <4>1, <4>2
    <3>. QED
      BY <3>1
  <2>. QED
    BY <2>1
<1>4. Nat \subseteq Upto
  <2>. HIDE DEF Upto
  <2>. QED
    BY <1>2, <1>3, NatInduct
<1>. QED
  BY <1>0, <1>4

LEMMA PartialsAgree ==
  ASSUME NEW f, NEW S, IsFiniteSet(S), NEW R \in SUBSET S
  PROVE  Partials(f, S)[R] = SumFunctionOnSet(f, R)
<1>0. IsFiniteSet(R)
  BY FS_Subset
<1>. DEFINE Good == {T \in SUBSET R : Partials(f, S)[T] = Partials(f, R)[T]}
<1>1. ASSUME NEW T \in SUBSET R, \A U \in SUBSET T : U # T => U \in Good
      PROVE  T \in Good
  <2>1. /\ Partials(f, S)[T] = Partial(f, S, Partials(f, S), T)
        /\ Partials(f, R)[T] = Partial(f, R, Partials(f, R), T)
    BY <1>0, PartialsDefined
  <2>2. T # {} => T \ {Pick(T)} \in SUBSET T /\ T \ {Pick(T)} # T
    BY DEF Pick
  <2>3. T # {} => Partials(f, S)[T \ {Pick(T)}] = Partials(f, R)[T \ {Pick(T)}]
    BY <1>1, <2>2
  <2>. QED
    BY <2>1, <2>3 DEF Partial
<1>2. R \in Good
  <2>. HIDE DEF Good
  <2>. QED
    BY <1>0, <1>1, SubsetInduct
<1>. QED
  BY <1>2, SumIsPartial

LEMMA SumStep ==
  ASSUME NEW f, NEW S, IsFiniteSet(S)
  PROVE  /\ S = {} => SumFunctionOnSet(f, S) = 0
         /\ S # {} => SumFunctionOnSet(f, S) = f[Pick(S)] + SumFunctionOnSet(f, S \ {Pick(S)})
<1>1. SumFunctionOnSet(f, S) = Partial(f, S, Partials(f, S), S)
  BY SumIsPartial, PartialsDefined
<1>2. Partials(f, S)[S \ {Pick(S)}] = SumFunctionOnSet(f, S \ {Pick(S)})
  BY PartialsAgree
<1>. QED
  BY <1>1, <1>2 DEF Partial

LEMMA SumEmpty == ASSUME NEW f PROVE SumFunctionOnSet(f, {}) = 0
  BY SumStep, FS_EmptySet

LEMMA SumCongruence ==
  ASSUME NEW S, IsFiniteSet(S), NEW f, NEW g, \A s \in S : f[s] = g[s]
  PROVE  SumFunctionOnSet(f, S) = SumFunctionOnSet(g, S)
<1>. DEFINE Good == {T \in SUBSET S : SumFunctionOnSet(f, T) = SumFunctionOnSet(g, T)}
<1>1. ASSUME NEW T \in SUBSET S, \A U \in SUBSET T : U # T => U \in Good
      PROVE  T \in Good
  <2>0. IsFiniteSet(T)
    BY FS_Subset
  <2>1. CASE T = {}
    BY <2>1, SumEmpty
  <2>2. CASE T # {}
    <3>1. Pick(T) \in T /\ T \ {Pick(T)} \in Good
      BY <1>1, <2>2 DEF Pick
    <3>. QED
      BY <2>0, <2>2, <3>1, SumStep
  <2>. QED
    BY <2>1, <2>2
<1>2. S \in Good
  <2>. HIDE DEF Good
  <2>. QED
    BY <1>1, SubsetInduct
<1>. QED
  BY <1>2

LEMMA SumType ==
  ASSUME NEW S, IsFiniteSet(S), NEW f, \A s \in S : f[s] \in Nat
  PROVE  SumFunctionOnSet(f, S) \in Nat
<1>. DEFINE Good == {T \in SUBSET S : SumFunctionOnSet(f, T) \in Nat}
<1>1. ASSUME NEW T \in SUBSET S, \A U \in SUBSET T : U # T => U \in Good
      PROVE  T \in Good
  <2>0. IsFiniteSet(T)
    BY FS_Subset
  <2>1. CASE T = {}
    BY <2>1, SumEmpty
  <2>2. CASE T # {}
    <3>1. Pick(T) \in T /\ T \ {Pick(T)} \in Good
      BY <1>1, <2>2 DEF Pick
    <3>. QED
      BY <2>0, <2>2, <3>1, SumStep
  <2>. QED
    BY <2>1, <2>2
<1>2. S \in Good
  <2>. HIDE DEF Good
  <2>. QED
    BY <1>1, SubsetInduct
<1>. QED
  BY <1>2

(* Any element may be taken out of the sum first.                          *)
LEMMA SumRemove ==
  ASSUME NEW S, IsFiniteSet(S), NEW f, \A s \in S : f[s] \in Nat, NEW x \in S
  PROVE  SumFunctionOnSet(f, S) = f[x] + SumFunctionOnSet(f, S \ {x})
<1>. DEFINE Good == {T \in SUBSET S : \A y \in T :
                       SumFunctionOnSet(f, T) = f[y] + SumFunctionOnSet(f, T \ {y})}
<1>1. ASSUME NEW T \in SUBSET S, \A U \in SUBSET T : U # T => U \in Good
      PROVE  T \in Good
  <2>. SUFFICES ASSUME NEW y \in T
                PROVE  SumFunctionOnSet(f, T) = f[y] + SumFunctionOnSet(f, T \ {y})
    OBVIOUS
  <2>. DEFINE p == Pick(T)
  <2>0. p \in T /\ IsFiniteSet(T) /\ IsFiniteSet(T \ {y})
    BY FS_Subset DEF Pick
  <2>1. SumFunctionOnSet(f, T) = f[p] + SumFunctionOnSet(f, T \ {p})
    BY <2>0, SumStep
  <2>2. CASE y # p
    <3>1. SumFunctionOnSet(f, T \ {p}) = f[y] + SumFunctionOnSet(f, (T \ {p}) \ {y})
      BY <1>1, <2>0, <2>2
    <3>2. SumFunctionOnSet(f, T \ {y}) = f[p] + SumFunctionOnSet(f, (T \ {y}) \ {p})
      BY <1>1, <2>0, <2>2
    <3>3. (T \ {p}) \ {y} = (T \ {y}) \ {p}
      OBVIOUS
    <3>4. SumFunctionOnSet(f, (T \ {y}) \ {p}) \in Nat /\ f[p] \in Nat /\ f[y] \in Nat
      BY <2>0, SumType, FS_Subset
    <3>. QED
      BY <2>1, <3>1, <3>2, <3>3, <3>4
  <2>. QED
    BY <2>1, <2>2
<1>2. S \in Good
  <2>. HIDE DEF Good
  <2>. QED
    BY <1>1, SubsetInduct
<1>. QED
  BY <1>2
-----------------------------------------------------------------------------
(* Sums over disjoint sets.                                                *)

LEMMA SumUnion ==
  ASSUME NEW G, IsFiniteSet(G), NEW f, \A s \in G : f[s] \in Nat,
         NEW A \in SUBSET G, NEW B \in SUBSET G, A \cap B = {}
  PROVE  SumFunctionOnSet(f, A \cup B) = SumFunctionOnSet(f, A) + SumFunctionOnSet(f, B)
<1>. DEFINE Good == {T \in SUBSET B :
                       SumFunctionOnSet(f, A \cup T) = SumFunctionOnSet(f, A) + SumFunctionOnSet(f, T)}
<1>0. \A T \in SUBSET G : IsFiniteSet(T) /\ SumFunctionOnSet(f, T) \in Nat
  <2>. SUFFICES ASSUME NEW T \in SUBSET G PROVE IsFiniteSet(T) /\ SumFunctionOnSet(f, T) \in Nat
    OBVIOUS
  <2>1. IsFiniteSet(T)
    BY FS_Subset
  <2>. QED
    BY <2>1, SumType
<1>1. ASSUME NEW T \in SUBSET B, \A U \in SUBSET T : U # T => U \in Good
      PROVE  T \in Good
  <2>1. CASE T = {}
    <3>1. A \cup T = A /\ SumFunctionOnSet(f, T) = 0
      BY <2>1, SumEmpty
    <3>. QED
      BY <1>0, <3>1
  <2>2. CASE T # {}
    <3>1. PICK x \in T : TRUE
      BY <2>2
    <3>2. T \ {x} \in Good
      BY <1>1, <3>1
    <3>3. SumFunctionOnSet(f, T) = f[x] + SumFunctionOnSet(f, T \ {x})
      BY <1>0, <3>1, SumRemove
    <3>4. SumFunctionOnSet(f, A \cup T) = f[x] + SumFunctionOnSet(f, (A \cup T) \ {x})
      <4>1. A \cup T \in SUBSET G /\ x \in A \cup T
        BY <3>1
      <4>2. IsFiniteSet(A \cup T) /\ \A s \in A \cup T : f[s] \in Nat
        BY <1>0, <4>1
      <4>. QED
        BY <4>1, <4>2, SumRemove
    <3>5. (A \cup T) \ {x} = A \cup (T \ {x})
      BY <3>1
    <3>6. /\ SumFunctionOnSet(f, A) \in Nat /\ SumFunctionOnSet(f, T \ {x}) \in Nat
          /\ f[x] \in Nat
      BY <1>0, <3>1
    <3>. QED
      BY <3>2, <3>3, <3>4, <3>5, <3>6
  <2>. QED
    BY <2>1, <2>2
<1>2. IsFiniteSet(B)
  BY FS_Subset
<1>3. B \in Good
  <2>. HIDE DEF Good
  <2>. QED
    BY <1>1, <1>2, SubsetInduct
<1>. QED
  BY <1>3

(* A measure that is additive is the sum of its values on a partition.     *)
Additive(measure, G) ==
  /\ measure \in [SUBSET G -> Nat]
  /\ measure[{}] = 0
  /\ \A A, B \in SUBSET G : A \cap B = {} => measure[A \cup B] = measure[A] + measure[B]

Apart(part, m) == \A a, b \in 0 .. m : a # b => part[a] \cap part[b] = {}
Whole(part, m) == UNION {part[n] : n \in 0 .. m}
Measured(measure, part, m) == [n \in 0 .. m |-> measure[part[n]]]

LEMMA SumOfParts ==
  ASSUME NEW G, NEW measure, Additive(measure, G), NEW m \in Nat,
         NEW part \in [0 .. m -> SUBSET G], Apart(part, m)
  PROVE  SumFunctionOnSet(Measured(measure, part, m), 0 .. m) = measure[Whole(part, m)]
<1>. DEFINE value == [n \in 0 .. m |-> measure[part[n]]]
            upto(j) == UNION {part[n] : n \in 0 .. j}
            Good == {j \in Nat : j <= m => SumFunctionOnSet(value, 0 .. j) = measure[upto(j)]}
<1>0. \A n \in 0 .. m : value[n] \in Nat /\ part[n] \in SUBSET G
  BY DEF Additive
<1>1. 0 \in Good
  <2>1. 0 .. 0 = {0} /\ upto(0) = part[0] /\ 0 \in 0 .. m
    OBVIOUS
  <2>2. IsFiniteSet({0}) /\ \A s \in {0} : value[s] \in Nat
    BY <1>0, <2>1, FS_Singleton
  <2>3. SumFunctionOnSet(value, {0}) = value[0] + SumFunctionOnSet(value, {0} \ {0})
    <3>. HIDE DEF value
    <3>. QED
      BY <2>2, SumRemove
  <2>4. SumFunctionOnSet(value, {0} \ {0}) = 0
    <3>1. {0} \ {0} = {}
      OBVIOUS
    <3>. HIDE DEF value
    <3>. QED
      BY <3>1, SumEmpty
  <2>5. value[0] = measure[part[0]] /\ value[0] \in Nat
    BY <1>0, <2>1
  <2>6. SumFunctionOnSet(value, 0 .. 0) = measure[upto(0)]
    <3>. HIDE DEF value, upto
    <3>. QED
      BY <2>1, <2>3, <2>4, <2>5
  <2>. QED
    BY <2>6
<1>2. ASSUME NEW j \in Nat, j \in Good PROVE j + 1 \in Good
  <2>. SUFFICES ASSUME j + 1 <= m
                PROVE  SumFunctionOnSet(value, 0 .. j + 1) = measure[upto(j + 1)]
    OBVIOUS
  <2>1. /\ j \in 0 .. m /\ j + 1 \in 0 .. m /\ 0 .. j + 1 \in SUBSET (0 .. m)
        /\ (0 .. j + 1) \ {j + 1} = 0 .. j /\ j + 1 \in 0 .. j + 1
    OBVIOUS
  <2>2. SumFunctionOnSet(value, 0 .. j) = measure[upto(j)]
    BY <1>2
  <2>3. IsFiniteSet(0 .. j + 1)
    BY FS_Interval
  <2>4. SumFunctionOnSet(value, 0 .. j + 1) = value[j + 1] + SumFunctionOnSet(value, 0 .. j)
    <3>1. \A n \in 0 .. j + 1 : value[n] \in Nat
      BY <1>0, <2>1
    <3>. HIDE DEF value
    <3>2. SumFunctionOnSet(value, 0 .. j + 1)
            = value[j + 1] + SumFunctionOnSet(value, (0 .. j + 1) \ {j + 1})
      BY <2>1, <2>3, <3>1, SumRemove
    <3>. QED
      BY <2>1, <3>2
  <2>5. upto(j + 1) = upto(j) \cup part[j + 1]
    <3>1. ASSUME NEW x \in upto(j + 1) PROVE x \in upto(j) \cup part[j + 1]
      <4>1. PICK n \in 0 .. j + 1 : x \in part[n]
        OBVIOUS
      <4>2. n = j + 1 \/ n \in 0 .. j
        OBVIOUS
      <4>. QED
        BY <4>1, <4>2
    <3>2. ASSUME NEW x \in upto(j) \cup part[j + 1] PROVE x \in upto(j + 1)
      <4>1. CASE x \in part[j + 1]
        BY <2>1, <4>1
      <4>2. CASE x \in upto(j)
        <5>1. PICK n \in 0 .. j : x \in part[n]
          BY <4>2
        <5>2. n \in 0 .. j + 1
          OBVIOUS
        <5>. QED
          BY <5>1, <5>2
      <4>. QED
        BY <4>1, <4>2
    <3>. QED
      BY <3>1, <3>2
  <2>6. upto(j) \in SUBSET G /\ part[j + 1] \in SUBSET G /\ upto(j) \cap part[j + 1] = {}
    <3>1. \A n \in 0 .. j : n \in 0 .. m /\ n # j + 1
      BY <2>1
    <3>. QED
      BY <1>0, <2>1, <3>1 DEF Apart
  <2>7. measure[upto(j) \cup part[j + 1]] = measure[upto(j)] + measure[part[j + 1]]
    <3>. HIDE DEF upto
    <3>. QED
      BY <2>6 DEF Additive
  <2>8. measure[upto(j)] \in Nat /\ measure[part[j + 1]] \in Nat /\ value[j + 1] = measure[part[j + 1]]
    BY <2>1, <2>6 DEF Additive
  <2>. HIDE DEF value, upto
  <2>9. SumFunctionOnSet(value, 0 .. j + 1) = measure[part[j + 1]] + measure[upto(j)]
    BY <2>2, <2>4, <2>8
  <2>10. measure[upto(j + 1)] = measure[upto(j)] + measure[part[j + 1]]
    BY <2>5, <2>7
  <2>. QED
    BY <2>8, <2>9, <2>10
<1>3. m \in Good
  <2>1. Nat \subseteq Good
    <3>. HIDE DEF Good
    <3>. QED
      BY <1>1, <1>2, NatInduct
  <2>. QED
    BY <2>1
<1>4. value = Measured(measure, part, m) /\ upto(m) = Whole(part, m)
  BY DEF Measured, Whole
<1>5. SumFunctionOnSet(value, 0 .. m) = measure[upto(m)]
  BY <1>3
<1>. HIDE DEF value, upto
<1>. QED
  BY <1>4, <1>5
(* A function on 0 .. N that is given by its first value and by what each  *)
(* value makes of the one before.                                          *)
Recurs(f, base, N, step) == f[0] = base /\ \A n \in 1 .. N : f[n] = step[n][f[n - 1]]

LEMMA RecursionOn ==
  ASSUME NEW X, NEW base \in X, NEW N \in Nat, NEW step \in [1 .. N -> [X -> X]]
  PROVE  \E f \in [0 .. N -> X] : Recurs(f, base, N, step)
<1>. DEFINE Upto(f, k) == Recurs(f, base, k, step)
            Good == {k \in Nat : k <= N => \E f \in [0 .. N -> X] : Upto(f, k)}
<1>. USE DEF Recurs
<1>1. 0 \in Good
  <2>1. Upto([n \in 0 .. N |-> base], 0)
    OBVIOUS
  <2>. QED
    BY <2>1
<1>2. ASSUME NEW k \in Nat, k \in Good PROVE k + 1 \in Good
  <2>. SUFFICES ASSUME k + 1 <= N PROVE \E f \in [0 .. N -> X] : Upto(f, k + 1)
    OBVIOUS
  <2>1. PICK f \in [0 .. N -> X] : Upto(f, k)
    BY <1>2
  <2>2. k \in 0 .. N /\ k + 1 \in 1 .. N /\ f[k] \in X /\ step[k + 1][f[k]] \in X
    OBVIOUS
  <2>. DEFINE g == [n \in 0 .. N |-> IF n = k + 1 THEN step[k + 1][f[k]] ELSE f[n]]
  <2>3. g \in [0 .. N -> X]
    BY <2>2
  <2>4. Upto(g, k + 1)
    BY <2>1, <2>2
  <2>. QED
    BY <2>3, <2>4
<1>3. N \in Good
  <2>1. Nat \subseteq Good
    <3>. HIDE DEF Good
    <3>. QED
      BY <1>1, <1>2, NatInduct
  <2>. QED
    BY <2>1
<1>. QED
  BY <1>3

-----------------------------------------------------------------------------
(* The two recursions of Catalog, along the parents and down the levels.   *)

LEMMA RecursionNat ==
  ASSUME NEW X, NEW base \in X, NEW step \in [X -> X]
  PROVE  \E f \in [Nat -> X] : f[0] = base /\ \A n \in Nat : f[n + 1] = step[f[n]]
<1>. DEFINE Chain(g, k) == g[0] = base /\ \A n \in 1 .. k : g[n] = step[g[n - 1]]
            sol(k) == CHOOSE g \in [0 .. k -> X] : Chain(g, k)
            f == [n \in Nat |-> sol(n)[n]]
<1>1. ASSUME NEW k \in Nat PROVE sol(k) \in [0 .. k -> X] /\ Chain(sol(k), k)
  <2>. DEFINE each == [n \in 1 .. k |-> step]
  <2>1. each \in [1 .. k -> [X -> X]]
    OBVIOUS
  <2>2. PICK g \in [0 .. k -> X] : Recurs(g, base, k, each)
    <3>. HIDE DEF each
    <3>. QED
      BY <2>1, RecursionOn
  <2>3. Chain(g, k)
    BY <2>2 DEF Recurs
  <2>. QED
    BY <2>3
<1>. HIDE DEF sol
<1>2. ASSUME NEW k \in Nat PROVE \A n \in 0 .. k : sol(k + 1)[n] = sol(k)[n]
  <2>. DEFINE Good == {n \in Nat : n <= k => sol(k + 1)[n] = sol(k)[n]}
  <2>0. Chain(sol(k), k) /\ Chain(sol(k + 1), k + 1)
    BY <1>1
  <2>1. 0 \in Good
    BY <2>0
  <2>2. ASSUME NEW n \in Nat, n \in Good PROVE n + 1 \in Good
    <3>. SUFFICES ASSUME n + 1 <= k PROVE sol(k + 1)[n + 1] = sol(k)[n + 1]
      OBVIOUS
    <3>1. n + 1 \in 1 .. k /\ n + 1 \in 1 .. k + 1 /\ (n + 1) - 1 = n
      OBVIOUS
    <3>2. sol(k + 1)[n + 1] = step[sol(k + 1)[n]] /\ sol(k)[n + 1] = step[sol(k)[n]]
      BY <2>0, <3>1
    <3>. QED
      BY <2>2, <3>2
  <2>3. Nat \subseteq Good
    <3>. HIDE DEF Good
    <3>. QED
      BY <2>1, <2>2, NatInduct
  <2>. QED
    BY <2>3
<1>3. f \in [Nat -> X]
  <2>1. ASSUME NEW n \in Nat PROVE sol(n)[n] \in X
    <3>1. n \in 0 .. n
      OBVIOUS
    <3>. QED
      BY <1>1, <3>1
  <2>. QED
    BY <2>1
<1>4. f[0] = base
  BY <1>1
<1>5. ASSUME NEW n \in Nat PROVE f[n + 1] = step[f[n]]
  <2>1. sol(n + 1)[n + 1] = step[sol(n + 1)[n]]
    <3>1. n + 1 \in 1 .. n + 1 /\ (n + 1) - 1 = n
      OBVIOUS
    <3>2. Chain(sol(n + 1), n + 1)
      BY <1>1
    <3>. QED
      BY <3>1, <3>2
  <2>2. sol(n + 1)[n] = sol(n)[n]
    BY <1>2
  <2>. QED
    BY <2>1, <2>2
<1>6. \A n \in Nat : f[n + 1] = step[f[n]]
  BY <1>5
<1>. HIDE DEF f
<1>. QED
  BY <1>3, <1>4, <1>6

ParentOf(x) == IF x = Root THEN Root ELSE cat[x].parent
Up(i) ==
  CHOOSE up : up = [n \in Nat |->
    IF n = 0 THEN i
    ELSE LET reached == up[n - 1]
         IN  IF reached = Root THEN Root ELSE cat[reached].parent]
ChildrenOf(above) == {k \in Present : cat[k].parent \in above}
Level(i) ==
  CHOOSE level : level = [n \in Nat |->
    IF n = 0 THEN {i} \cap Present
    ELSE LET above == level[n - 1]
         IN  {k \in Present : cat[k].parent \in above}]

LEMMA AboveIsUp ==
  ASSUME NEW i PROVE Above(i) = {Up(i)[n] : n \in 1 .. Cardinality(Ids)} \ {Root}
  BY DEF Above, Up

LEMMA LevelsAreLevel ==
  ASSUME NEW i PROVE LevelsOf(i) = [n \in 0 .. Cardinality(Ids) |-> Level(i)[n]]
  BY DEF LevelsOf, Level

LEMMA PresentType == Present \subseteq Ids /\ Root \notin Present
  BY CatalogAssumption DEF Present

LEMMA UpDefined ==
  ASSUME Sound, NEW i \in Present
  PROVE  /\ Up(i) \in [Nat -> Present \cup {Root}]
         /\ Up(i)[0] = i
         /\ \A n \in Nat : Up(i)[n + 1] = ParentOf(Up(i)[n])
<1>. DEFINE X == Present \cup {Root}
            step == [x \in X |-> ParentOf(x)]
            Next1(up) == [n \in Nat |->
               IF n = 0 THEN i
               ELSE LET reached == up[n - 1]
                    IN  IF reached = Root THEN Root ELSE cat[reached].parent]
<1>1. step \in [X -> X]
  BY DEF ParentOf, Sound, ParentMissing
<1>2. i \in X
  OBVIOUS
<1>3. PICK f \in [Nat -> X] : f[0] = i /\ \A n \in Nat : f[n + 1] = step[f[n]]
  <2>. HIDE DEF X, step
  <2>. QED
    BY <1>1, <1>2, RecursionNat
<1>4. \A n \in Nat : f[n + 1] = ParentOf(f[n])
  BY <1>3
<1>5. ASSUME NEW n \in Nat
      PROVE  f[n] = IF n = 0 THEN i ELSE ParentOf(f[n - 1])
  <2>1. CASE n = 0
    BY <1>3, <2>1
  <2>2. CASE n # 0
    <3>1. n - 1 \in Nat /\ (n - 1) + 1 = n
      BY <2>2
    <3>. QED
      BY <1>4, <2>2, <3>1
  <2>. QED
    BY <2>1, <2>2
<1>6. f = Next1(f)
  <2>1. f = [n \in Nat |-> f[n]]
    OBVIOUS
  <2>2. [n \in Nat |-> f[n]] = [n \in Nat |-> IF n = 0 THEN i ELSE ParentOf(f[n - 1])]
    BY <1>5, Zenon
  <2>. QED
    BY <2>1, <2>2, Zenon DEF ParentOf
<1>7. Up(i) = Next1(Up(i))
  <2>1. \E g : g = Next1(g)
    BY <1>6
  <2>. QED
    BY <2>1 DEF Up
<1>8. \A n \in Nat : Up(i)[n] = IF n = 0 THEN i ELSE ParentOf(Up(i)[n - 1])
  BY <1>7 DEF ParentOf
<1>9. Up(i)[0] = i /\ \A n \in Nat : Up(i)[n + 1] = ParentOf(Up(i)[n])
  <2>1. \A n \in Nat : n + 1 # 0 /\ (n + 1) - 1 = n /\ n + 1 \in Nat
    OBVIOUS
  <2>. QED
    BY <1>8, <2>1
<1>10. \A n \in Nat : Up(i)[n] \in X
  <2>. DEFINE Good == {n \in Nat : Up(i)[n] \in X}
  <2>1. 0 \in Good
    BY <1>9
  <2>2. ASSUME NEW n \in Nat, n \in Good PROVE n + 1 \in Good
    BY <1>1, <1>9, <2>2
  <2>3. Nat \subseteq Good
    <3>. HIDE DEF Good
    <3>. QED
      BY <2>1, <2>2, NatInduct
  <2>. QED
    BY <2>3
<1>11. DOMAIN Up(i) = Nat /\ Up(i) = [n \in Nat |-> Up(i)[n]]
  BY <1>7
<1>. QED
  BY <1>9, <1>10, <1>11

LEMMA LevelDefined ==
  ASSUME NEW i
  PROVE  /\ Level(i)[0] = {i} \cap Present
         /\ \A n \in Nat : Level(i)[n + 1] = ChildrenOf(Level(i)[n])
<1>. DEFINE X == SUBSET Present
            base == {i} \cap Present
            step == [x \in X |-> ChildrenOf(x)]
            Next1(level) == [n \in Nat |->
               IF n = 0 THEN {i} \cap Present
               ELSE LET above == level[n - 1]
                    IN  {k \in Present : cat[k].parent \in above}]
<1>1. step \in [X -> X]
  BY DEF ChildrenOf
<1>2. base \in X
  OBVIOUS
<1>3. PICK f \in [Nat -> X] : f[0] = base /\ \A n \in Nat : f[n + 1] = step[f[n]]
  <2>. HIDE DEF X, step, base
  <2>. QED
    BY <1>1, <1>2, RecursionNat
<1>4. \A n \in Nat : f[n + 1] = ChildrenOf(f[n])
  BY <1>3
<1>5. ASSUME NEW n \in Nat
      PROVE  f[n] = IF n = 0 THEN base ELSE ChildrenOf(f[n - 1])
  <2>1. CASE n = 0
    BY <1>3, <2>1
  <2>2. CASE n # 0
    <3>1. n - 1 \in Nat /\ (n - 1) + 1 = n
      BY <2>2
    <3>. QED
      BY <1>4, <2>2, <3>1
  <2>. QED
    BY <2>1, <2>2
<1>6. f = Next1(f)
  <2>1. f = [n \in Nat |-> f[n]]
    OBVIOUS
  <2>2. [n \in Nat |-> f[n]] = [n \in Nat |-> IF n = 0 THEN base ELSE ChildrenOf(f[n - 1])]
    BY <1>5, Zenon
  <2>. QED
    BY <2>1, <2>2, Zenon DEF ChildrenOf
<1>7. Level(i) = Next1(Level(i))
  <2>1. \E g : g = Next1(g)
    BY <1>6
  <2>. QED
    BY <2>1 DEF Level
<1>8. \A n \in Nat : Level(i)[n] = IF n = 0 THEN base ELSE ChildrenOf(Level(i)[n - 1])
  BY <1>7 DEF ChildrenOf
<1>9. \A n \in Nat : n + 1 # 0 /\ (n + 1) - 1 = n /\ n + 1 \in Nat
  OBVIOUS
<1>. QED
  BY <1>8, <1>9

LEMMA UpIsUp ==
  ASSUME Sound, NEW i \in Present, NEW n \in Nat
  PROVE  Up(i)[n] \in Present \/ Up(i)[n] = Root
  BY UpDefined

(* Walking on from where a walk has come.                                  *)
LEMMA UpAdd ==
  ASSUME Sound, NEW i \in Present, NEW a \in Nat, Up(i)[a] \in Present
  PROVE  \A b \in Nat : Up(i)[a + b] = Up(Up(i)[a])[b]
<1>. DEFINE x == Up(i)[a]
            Good == {b \in Nat : Up(i)[a + b] = Up(x)[b]}
<1>1. 0 \in Good
  BY UpDefined
<1>2. ASSUME NEW b \in Nat, b \in Good PROVE b + 1 \in Good
  <2>1. a + (b + 1) = (a + b) + 1 /\ a + b \in Nat
    OBVIOUS
  <2>2. Up(i)[(a + b) + 1] = ParentOf(Up(i)[a + b])
    BY <2>1, UpDefined
  <2>3. Up(x)[b + 1] = ParentOf(Up(x)[b])
    BY UpDefined
  <2>. QED
    BY <1>2, <2>1, <2>2, <2>3
<1>3. Nat \subseteq Good
  <2>. HIDE DEF Good
  <2>. QED
    BY <1>1, <1>2, NatInduct
<1>. QED
  BY <1>3

LEMMA RootStays ==
  ASSUME Sound, NEW i \in Present, NEW a \in Nat, Up(i)[a] = Root
  PROVE  \A b \in Nat : Up(i)[a + b] = Root
<1>. DEFINE Good == {b \in Nat : Up(i)[a + b] = Root}
<1>1. 0 \in Good
  OBVIOUS
<1>2. ASSUME NEW b \in Nat, b \in Good PROVE b + 1 \in Good
  <2>1. a + (b + 1) = (a + b) + 1 /\ a + b \in Nat
    OBVIOUS
  <2>2. Up(i)[(a + b) + 1] = ParentOf(Up(i)[a + b])
    BY <2>1, UpDefined
  <2>. QED
    BY <1>2, <2>1, <2>2 DEF ParentOf
<1>3. Nat \subseteq Good
  <2>. HIDE DEF Good
  <2>. QED
    BY <1>1, <1>2, NatInduct
<1>. QED
  BY <1>3

(* Level n below i holds the categories from which n steps up lead to i.   *)
LEMMA LevelIsUp ==
  ASSUME Sound, NEW i \in Present, NEW n \in Nat
  PROVE  Level(i)[n] = {k \in Present : Up(k)[n] = i}
<1>. DEFINE Good == {m \in Nat : Level(i)[m] = {k \in Present : Up(k)[m] = i}}
<1>0. i # Root
  BY PresentType
<1>1. 0 \in Good
  <2>1. \A k \in Present : Up(k)[0] = k
    BY UpDefined
  <2>. QED
    BY <2>1, LevelDefined
<1>2. ASSUME NEW m \in Nat, m \in Good PROVE m + 1 \in Good
  <2>1. Level(i)[m + 1] = {k \in Present : cat[k].parent \in Level(i)[m]}
    BY LevelDefined DEF ChildrenOf
  <2>2. ASSUME NEW k \in Present
        PROVE  cat[k].parent \in Level(i)[m] <=> Up(k)[m + 1] = i
    <3>1. Up(k)[1] = cat[k].parent
      <4>1. Up(k)[0 + 1] = ParentOf(Up(k)[0]) /\ Up(k)[0] = k
        BY UpDefined
      <4>. QED
        BY <4>1, PresentType DEF ParentOf
    <3>2. 1 + m = m + 1 /\ 1 \in Nat
      OBVIOUS
    <3>3. CASE Up(k)[1] = Root
      <4>1. Up(k)[m + 1] = Root
        BY <3>2, <3>3, RootStays
      <4>. QED
        BY <1>0, <1>2, <3>1, <3>3, <4>1, PresentType
    <3>4. CASE Up(k)[1] \in Present
      <4>1. Up(k)[m + 1] = Up(Up(k)[1])[m]
        BY <3>2, <3>4, UpAdd
      <4>. QED
        BY <1>2, <3>1, <3>4, <4>1
    <3>. QED
      BY <3>2, <3>3, <3>4, UpIsUp
  <2>. QED
    BY <2>1, <2>2
<1>3. Nat \subseteq Good
  <2>. HIDE DEF Good
  <2>. QED
    BY <1>1, <1>2, NatInduct
<1>. QED
  BY <1>3

LEMMA IdsCounted ==
  /\ Cardinality(Ids) \in Nat
  /\ IsFiniteSet(Present) /\ Cardinality(Present) <= Cardinality(Ids)
<1>1. IsFiniteSet(Ids)
  BY CatalogAssumption
<1>. QED
  BY <1>1, PresentType, FS_CardinalityType, FS_Subset

LEMMA RingIsPeriod ==
  ASSUME Sound, NEW i \in Present
  PROVE  OnRing(i) <=> \E n \in 1 .. Cardinality(Ids) : Up(i)[n] = i
  BY AboveIsUp, PresentType DEF OnRing

(* On a ring every level has a category of the ring.                       *)
LEMMA RingNeverEnds ==
  ASSUME Sound, NEW i \in Present, OnRing(i)
  PROVE  ~ TreeEnds(i)
<1>. DEFINE N == Cardinality(Ids)
<1>1. PICK p \in 1 .. N : Up(i)[p] = i
  BY RingIsPeriod
<1>2. p \in Nat \ {0} /\ N \in Nat
  BY IdsCounted
<1>. DEFINE Good == {n \in Nat : \E m \in 0 .. p : Up(i)[m] \in Level(i)[n]}
<1>3. 0 \in Good
  <2>1. Up(i)[0] = i /\ 0 \in 0 .. p
    BY <1>2, UpDefined
  <2>2. Level(i)[0] = {i} \cap Present
    BY LevelDefined
  <2>. QED
    BY <2>1, <2>2
<1>4. ASSUME NEW n \in Nat, n \in Good PROVE n + 1 \in Good
  <2>1. PICK q \in 0 .. p : Up(i)[q] \in Level(i)[n]
    BY <1>4
  <2>2. PICK m \in 1 .. p : Up(i)[m] = Up(i)[q]
    <3>1. CASE q = 0
      <4>1. Up(i)[q] = Up(i)[p]
        BY <1>1, <3>1, UpDefined
      <4>2. p \in 1 .. p
        BY <1>2
      <4>. QED
        BY <4>1, <4>2
    <3>2. CASE q # 0
      BY <1>2, <3>2
    <3>. QED
      BY <3>1, <3>2
  <2>3. Up(i)[m] \in Level(i)[n] /\ Up(i)[m] \in Present
    BY <2>1, <2>2, LevelIsUp
  <2>4. m - 1 \in Nat /\ m - 1 \in 0 .. p /\ (m - 1) + 1 = m
    BY <1>2
  <2>5. Up(i)[m] = ParentOf(Up(i)[m - 1])
    BY <2>4, UpDefined
  <2>6. Up(i)[m - 1] \in Present /\ cat[Up(i)[m - 1]].parent = Up(i)[m]
    BY <2>3, <2>4, <2>5, UpIsUp, PresentType DEF ParentOf
  <2>7. Up(i)[m - 1] \in Level(i)[n + 1]
    BY <2>3, <2>6, LevelDefined DEF ChildrenOf
  <2>. QED
    BY <2>4, <2>7
<1>5. Nat \subseteq Good
  <2>. HIDE DEF Good
  <2>. QED
    BY <1>3, <1>4, NatInduct
<1>6. Level(i)[N] # {}
  BY <1>2, <1>5
<1>7. LevelsOf(i)[N] = Level(i)[N]
  <2>1. N \in 0 .. N
    BY <1>2
  <2>. QED
    BY <2>1, LevelsAreLevel
<1>. QED
  BY <1>6, <1>7 DEF TreeEnds

(* More steps than there are categories come to one of them twice.         *)
LEMMA EndlessIsRing ==
  ASSUME Sound, NEW i \in Present, ~ TreeEnds(i)
  PROVE  OnRing(i)
<1>. DEFINE N == Cardinality(Ids)
<1>0. N \in Nat /\ IsFiniteSet(Present) /\ Cardinality(Present) <= N
  BY IdsCounted
<1>1. PICK k \in Present : Up(k)[N] = i
  <2>1. LevelsOf(i)[N] = Level(i)[N]
    <3>1. N \in 0 .. N
      BY <1>0
    <3>. QED
      BY <3>1, LevelsAreLevel
  <2>2. Level(i)[N] # {}
    BY <2>1 DEF TreeEnds
  <2>. QED
    BY <1>0, <2>2, LevelIsUp
<1>2. ASSUME NEW a \in 0 .. N PROVE Up(k)[a] \in Present
  <2>1. CASE Up(k)[a] = Root
    <3>1. a \in Nat /\ N - a \in Nat /\ a + (N - a) = N
      BY <1>0
    <3>2. Up(k)[N] = Root
      BY <2>1, <3>1, RootStays
    <3>. QED
      BY <1>1, <3>2, PresentType
  <2>2. a \in Nat
    BY <1>0
  <2>. QED
    BY <2>1, <2>2, UpIsUp
<1>3. PICK a \in 0 .. N, b \in 0 .. N : a < b /\ Up(k)[a] = Up(k)[b]
  <2>. DEFINE f == [n \in 0 .. N |-> Up(k)[n]]
  <2>1. f \in [0 .. N -> Present]
    BY <1>2
  <2>2. IsFiniteSet(0 .. N) /\ Cardinality(0 .. N) = N + 1
    BY <1>0, FS_Interval
  <2>3. Cardinality(Present) \in Nat
    BY <1>0, FS_CardinalityType
  <2>4. Cardinality(Present) < Cardinality(0 .. N)
    BY <1>0, <2>2, <2>3
  <2>5. \E x, y \in 0 .. N : x # y /\ f[x] = f[y]
    <3>. HIDE DEF f
    <3>. QED
      BY <1>0, <2>1, <2>2, <2>4, FS_PigeonHole
  <2>6. PICK x \in 0 .. N, y \in 0 .. N : x # y /\ Up(k)[x] = Up(k)[y]
    BY <2>5
  <2>7. x < y \/ y < x
    BY <1>0, <2>6
  <2>. QED
    BY <2>6, <2>7
<1>. DEFINE x == Up(k)[a]
            d == b - a
            rest == N - a
<1>4. /\ a \in Nat /\ d \in Nat /\ rest \in Nat /\ d \in 1 .. N
      /\ a + d = b /\ a + rest = N /\ rest + d = d + rest
  BY <1>0, <1>3
<1>5. x \in Present
  BY <1>2
<1>6. Up(x)[d] = x /\ Up(x)[rest] = i
  <2>1. Up(k)[a + d] = Up(x)[d] /\ Up(k)[a + rest] = Up(x)[rest]
    BY <1>4, <1>5, UpAdd
  <2>. QED
    BY <1>1, <1>3, <1>4, <2>1
<1>7. Up(i)[d] = i
  <2>. HIDE DEF x, d, rest
  <2>1. Up(x)[rest + d] = Up(i)[d]
    BY <1>4, <1>5, <1>6, UpAdd
  <2>2. Up(x)[d + rest] = Up(x)[rest]
    BY <1>4, <1>5, <1>6, UpAdd
  <2>. QED
    BY <1>4, <1>6, <2>1, <2>2
<1>. QED
  BY <1>4, <1>7, RingIsPeriod

LEMMA EndsUnlessRing ==
  ASSUME Sound, NEW i \in Present PROVE TreeEnds(i) <=> ~ OnRing(i)
  BY RingNeverEnds, EndlessIsRing

(* Off a ring, no category is on two levels.                               *)
LEMMA LevelsDisjoint ==
  ASSUME Sound, NEW i \in Present, ~ OnRing(i),
         NEW a \in 0 .. Cardinality(Ids), NEW b \in 0 .. Cardinality(Ids), a # b
  PROVE  LevelsOf(i)[a] \cap LevelsOf(i)[b] = {}
<1>. DEFINE N == Cardinality(Ids)
<1>0. N \in Nat
  BY IdsCounted
<1>1. ASSUME NEW m \in 0 .. N, NEW n \in 0 .. N, m < n, NEW k \in Present,
             Up(k)[m] = i, Up(k)[n] = i
      PROVE  FALSE
  <2>1. m \in Nat /\ n - m \in Nat /\ n - m \in 1 .. N /\ m + (n - m) = n
    BY <1>0, <1>1
  <2>2. Up(k)[m + (n - m)] = Up(i)[n - m]
    BY <1>1, <2>1, UpAdd
  <2>3. Up(i)[n - m] = i
    BY <1>1, <2>1, <2>2
  <2>. QED
    BY <2>1, <2>3, RingIsPeriod
<1>2. LevelsOf(i)[a] = {k \in Present : Up(k)[a] = i} /\ LevelsOf(i)[b] = {k \in Present : Up(k)[b] = i}
  <2>1. a \in Nat /\ b \in Nat
    BY <1>0
  <2>. QED
    BY <2>1, LevelsAreLevel, LevelIsUp
<1>3. a < b \/ b < a
  BY <1>0
<1>. QED
  BY <1>1, <1>2, <1>3

(* The levels together are the category and those that have it above them. *)
Below(i) == {k \in Present : k = i \/ i \in Above(k)}

LEMMA LevelsCover ==
  ASSUME Sound, NEW i \in Present
  PROVE  Below(i) = UNION {LevelsOf(i)[n] : n \in 0 .. Cardinality(Ids)}
<1>. DEFINE N == Cardinality(Ids)
<1>0. N \in Nat
  BY IdsCounted
<1>1. ASSUME NEW n \in 0 .. N PROVE LevelsOf(i)[n] = {k \in Present : Up(k)[n] = i}
  <2>1. n \in Nat
    BY <1>0
  <2>. QED
    BY <2>1, LevelsAreLevel, LevelIsUp
<1>2. ASSUME NEW k \in Present
      PROVE  (k = i \/ i \in Above(k)) <=> \E n \in 0 .. N : Up(k)[n] = i
  <2>1. Up(k)[0] = k /\ 0 \in 0 .. N
    BY <1>0, UpDefined
  <2>2. i \in Above(k) <=> \E n \in 1 .. N : Up(k)[n] = i
    BY AboveIsUp, PresentType
  <2>3. \A n \in 0 .. N : n = 0 \/ n \in 1 .. N
    BY <1>0
  <2>4. \A n \in 1 .. N : n \in 0 .. N
    BY <1>0
  <2>. QED
    BY <2>1, <2>2, <2>3, <2>4
<1>. QED
  BY <1>1, <1>2 DEF Below

-----------------------------------------------------------------------------
(* The average adds up over the levels what the products below amount to.  *)
Price == [p \in goods |-> p.price]

FiniteGoods == IsFiniteSet(goods)

LEMMA GoodsFinite == Spec => []FiniteGoods
<1>1. Init => FiniteGoods
  BY CatalogAssumption DEF Init, FiniteGoods
<1>2. FiniteGoods /\ [Next]_vars => FiniteGoods'
  <2>. SUFFICES ASSUME IsFiniteSet(goods), [Next]_vars PROVE IsFiniteSet(goods')
    BY DEF FiniteGoods
  <2>1. ASSUME NEW c \in Calls, CreateProduct(c) PROVE IsFiniteSet(goods')
    <3>1. goods' = goods \cup {NewProduct(c)}
      BY <2>1 DEF CreateProduct
    <3>. QED
      BY <3>1, FS_AddElement
  <2>2. ASSUME NEW c \in Calls, Handle(c) \/ Crash(c), ~ CreateProduct(c) PROVE goods' = goods
    BY <2>2 DEF Handle, CreateRefused, CreateCategory, ReadCategory, ReadMissing, WriteCategory,
       WriteRefused, DeleteCategory, DeleteRefused, ProductRefused, Average, StatementFails, Crash,
       Refuse, tables
  <2>3. UNCHANGED vars => goods' = goods
    BY DEF vars, tables
  <2>. QED
    BY <2>1, <2>2, <2>3 DEF Next, AllEnded
<1>. QED
  BY <1>1, <1>2, PTL DEF Spec

LEMMA CountIsAdditive ==
  ASSUME IsFiniteSet(goods)
  PROVE  Additive([A \in SUBSET goods |-> Cardinality(A)], goods)
<1>1. ASSUME NEW A \in SUBSET goods PROVE IsFiniteSet(A) /\ Cardinality(A) \in Nat
  BY FS_Subset, FS_CardinalityType
<1>2. ASSUME NEW A \in SUBSET goods, NEW B \in SUBSET goods, A \cap B = {}
      PROVE  Cardinality(A \cup B) = Cardinality(A) + Cardinality(B)
  <2>1. Cardinality(A \cup B) = Cardinality(A) + Cardinality(B) - Cardinality({})
    BY <1>1, <1>2, FS_Union
  <2>. QED
    BY <1>1, <2>1, FS_EmptySet
<1>3. \A A, B \in SUBSET goods : A \cup B \in SUBSET goods
  OBVIOUS
<1>. QED
  BY <1>1, <1>2, <1>3, FS_EmptySet DEF Additive

LEMMA TotalIsSum ==
  ASSUME IsFiniteSet(goods), NEW A \in SUBSET goods
  PROVE  Total(A) = SumFunctionOnSet(Price, A)
<1>1. Total(A) = SumFunctionOnSet([p \in A |-> p.price], A)
  BY DEF Total, SumFunction
<1>2. IsFiniteSet(A)
  BY FS_Subset
<1>3. \A p \in A : [q \in A |-> q.price][p] = Price[p]
  BY DEF Price
<1>. DEFINE own == [q \in A |-> q.price]
<1>4. SumFunctionOnSet(own, A) = SumFunctionOnSet(Price, A)
  <2>1. \A p \in A : own[p] = Price[p]
    BY <1>3
  <2>. HIDE DEF own
  <2>. QED
    BY <1>2, <2>1, SumCongruence
<1>. QED
  BY <1>1, <1>4

LEMMA TotalIsAdditive ==
  ASSUME TypeOK, IsFiniteSet(goods)
  PROVE  Additive([A \in SUBSET goods |-> Total(A)], goods)
<1>1. \A p \in goods : Price[p] \in Nat
  BY DEF Price, TypeOK, Product
<1>2. ASSUME NEW A \in SUBSET goods PROVE Total(A) \in Nat
  <2>1. IsFiniteSet(A)
    BY FS_Subset
  <2>. QED
    BY <1>1, <2>1, TotalIsSum, SumType
<1>3. ASSUME NEW A \in SUBSET goods, NEW B \in SUBSET goods, A \cap B = {}
      PROVE  Total(A \cup B) = Total(A) + Total(B)
  <2>1. A \cup B \in SUBSET goods
    OBVIOUS
  <2>. QED
    BY <1>1, <1>3, <2>1, TotalIsSum, SumUnion
<1>4. Total({}) = 0
  BY TotalIsSum, SumEmpty
<1>5. \A A, B \in SUBSET goods : A \cup B \in SUBSET goods
  OBVIOUS
<1>. QED
  BY <1>2, <1>3, <1>4, <1>5 DEF Additive

LEMMA PartsOfBelow ==
  ASSUME Sound, NEW i \in Present, TreeEnds(i), NEW measure, Additive(measure, goods)
  PROVE  SumFunction([n \in DOMAIN LevelsOf(i) |-> measure[InCategories(LevelsOf(i)[n])]])
           = measure[InCategories(Below(i))]
<1>. DEFINE N == Cardinality(Ids)
            part == [n \in 0 .. N |-> InCategories(LevelsOf(i)[n])]
<1>0. N \in Nat /\ DOMAIN LevelsOf(i) = 0 .. N
  BY IdsCounted, LevelsAreLevel
<1>1. part \in [0 .. N -> SUBSET goods]
  BY DEF InCategories
<1>2. Apart(part, N)
  <2>. SUFFICES ASSUME NEW a \in 0 .. N, NEW b \in 0 .. N, a # b
                PROVE  part[a] \cap part[b] = {}
    BY DEF Apart
  <2>1. LevelsOf(i)[a] \cap LevelsOf(i)[b] = {}
    BY EndsUnlessRing, LevelsDisjoint
  <2>. QED
    BY <2>1 DEF InCategories
<1>3. Whole(part, N) = InCategories(Below(i))
  BY LevelsCover DEF InCategories, Whole
<1>4. SumFunctionOnSet(Measured(measure, part, N), 0 .. N) = measure[Whole(part, N)]
  <2>. HIDE DEF part, N
  <2>. QED
    BY <1>0, <1>1, <1>2, SumOfParts
<1>5. Measured(measure, part, N)
        = [n \in DOMAIN LevelsOf(i) |-> measure[InCategories(LevelsOf(i)[n])]]
  BY <1>0 DEF Measured
<1>6. DOMAIN Measured(measure, part, N) = 0 .. N
  BY DEF Measured
<1>. HIDE DEF part
<1>. QED
  BY <1>3, <1>4, <1>5, <1>6 DEF SumFunction

LEMMA AverageIsExact ==
  ASSUME TypeOK, Sound, IsFiniteSet(goods), NEW i \in Present, TreeEnds(i)
  PROVE  /\ AveragePrice(i).count = Cardinality(InCategories(Below(i)))
         /\ AveragePrice(i).total = Total(InCategories(Below(i)))
<1>. DEFINE count == [A \in SUBSET goods |-> Cardinality(A)]
            total == [A \in SUBSET goods |-> Total(A)]
<1>1. /\ \A A \in SUBSET goods : count[A] = Cardinality(A) /\ total[A] = Total(A)
      /\ \A ids : InCategories(ids) \in SUBSET goods
  BY DEF InCategories
<1>2. /\ SumFunction([n \in DOMAIN LevelsOf(i) |-> count[InCategories(LevelsOf(i)[n])]])
           = count[InCategories(Below(i))]
      /\ SumFunction([n \in DOMAIN LevelsOf(i) |-> total[InCategories(LevelsOf(i)[n])]])
           = total[InCategories(Below(i))]
  <2>1. Additive(count, goods)
    BY CountIsAdditive
  <2>2. Additive(total, goods)
    BY TotalIsAdditive
  <2>. HIDE DEF count, total
  <2>. QED
    BY <2>1, <2>2, PartsOfBelow
<1>3. /\ [n \in DOMAIN LevelsOf(i) |-> count[InCategories(LevelsOf(i)[n])]]
           = [n \in DOMAIN LevelsOf(i) |-> Cardinality(InCategories(LevelsOf(i)[n]))]
      /\ [n \in DOMAIN LevelsOf(i) |-> total[InCategories(LevelsOf(i)[n])]]
           = [n \in DOMAIN LevelsOf(i) |-> Total(InCategories(LevelsOf(i)[n]))]
  BY <1>1
<1>. QED
  BY <1>1, <1>2, <1>3 DEF AveragePrice

(* Whatever tree or ring updates and deletions have made of the categories,*)
(* the recursive query of the average ends exactly off a ring, and then    *)
(* counts every product at or below the category once, level by level.     *)
THEOREM AverageCountsEachOnceThm == Spec => []AverageCountsEachOnce
<1>1. IInv /\ FiniteGoods => AverageCountsEachOnce
  <2>. SUFFICES ASSUME IInv, FiniteGoods PROVE AverageCountsEachOnce
    OBVIOUS
  <2>1. TypeOK /\ Sound /\ IsFiniteSet(goods)
    BY DEF IInv, FiniteGoods
  <2>2. ASSUME NEW i \in Present
        PROVE  /\ TreeEnds(i) <=> ~ OnRing(i)
               /\ TreeEnds(i) =>
                    AveragePrice(i) = [count |-> Cardinality(InCategories(Below(i))),
                                       total |-> Total(InCategories(Below(i)))]
    <3>1. ASSUME TreeEnds(i)
          PROVE  AveragePrice(i) = [count |-> Cardinality(InCategories(Below(i))),
                                    total |-> Total(InCategories(Below(i)))]
      <4>1. AveragePrice(i) = [count |-> AveragePrice(i).count, total |-> AveragePrice(i).total]
        BY DEF AveragePrice
      <4>. QED
        BY <2>1, <3>1, <4>1, AverageIsExact
    <3>. QED
      BY <2>1, <3>1, EndsUnlessRing
  <2>. QED
    BY <2>2 DEF AverageCountsEachOnce, Below
<1>. QED
  BY <1>1, Invariant, GoodsFinite, PTL
=============================================================================
