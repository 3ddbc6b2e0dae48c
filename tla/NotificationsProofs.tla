------------------------- MODULE NotificationsProofs -------------------------
(***************************************************************************)
(* Theorems about Notifications for any orders, users, permissions and     *)
(* phone numbers.  What a task still has to send to (queue), what it has   *)
(* logged (outcome) and what was delivered (copies) are tied together by   *)
(* MailInv; what the two loops of the code compute, the list of distinct   *)
(* addresses and the cleaned phone number, is proved by induction on the   *)
(* length of their input.                                                  *)
(***************************************************************************)
EXTENDS Notifications, FunctionTheorems, FiniteSetTheorems, SequenceTheorems,
        WellFoundedInduction, TLAPS

-----------------------------------------------------------------------------
(* Induction, stated for sets of naturals so that it can be instantiated.  *)

LEMMA LeastNat ==
  ASSUME NEW S, S \subseteq Nat, S # {}
  PROVE  \E n \in S : \A m \in S : n <= m
<1>1. \E x \in S : \A y \in S : ~ (<<y, x>> \in OpToRel(<, Nat))
  BY NatLessThanWellFounded, WFMin, Zenon
<1>2. \E x \in S : \A y \in S : ~ (y < x)
  BY <1>1 DEF OpToRel
<1>. QED
  BY <1>2

LEMMA NatInduct ==
  ASSUME NEW S, 0 \in S, \A n \in Nat : n \in S => n + 1 \in S
  PROVE  Nat \subseteq S
<1>. SUFFICES ASSUME Nat \ S # {} PROVE FALSE
  OBVIOUS
<1>1. PICK n \in Nat \ S : \A m \in Nat \ S : n <= m
  BY LeastNat
<1>2. n # 0 /\ n - 1 \in Nat /\ n - 1 \in S
  BY <1>1
<1>. QED
  BY <1>1, <1>2

(* A function on 0 .. N that is given by its first value and by what each  *)
(* value makes of the one before.                                          *)
Recurs(f, base, N, step) == f[0] = base /\ \A n \in 1 .. N : f[n] = step[n][f[n - 1]]

LEMMA RecursionOn ==
  ASSUME NEW X, NEW base \in X, NEW N \in Nat, NEW step \in [1 .. N -> [X -> X]]
  PROVE  \E f \in [0 .. N -> X] : Recurs(f, base, N, step)
<1>. DEFINE Upto(f, k) == Recurs(f, base, k, step)
            Good == {k \in Nat : k <= N => \E f \in [0 .. N -> X] : Upto(f, k)}
<1>. USE DEF Recurs
<1>1. 0 \in Good
  <2>1. Upto([n \in 0 .. N |-> base], 0)
    OBVIOUS
  <2>. QED
    BY <2>1
<1>2. ASSUME NEW k \in Nat, k \in Good PROVE k + 1 \in Good
  <2>. SUFFICES ASSUME k + 1 <= N PROVE \E f \in [0 .. N -> X] : Upto(f, k + 1)
    OBVIOUS
  <2>1. PICK f \in [0 .. N -> X] : Upto(f, k)
    BY <1>2
  <2>2. k \in 0 .. N /\ k + 1 \in 1 .. N /\ f[k] \in X /\ step[k + 1][f[k]] \in X
    OBVIOUS
  <2>. DEFINE g == [n \in 0 .. N |-> IF n = k + 1 THEN step[k + 1][f[k]] ELSE f[n]]
  <2>3. g \in [0 .. N -> X]
    BY <2>2
  <2>4. Upto(g, k + 1)
    BY <2>1, <2>2
  <2>. QED
    BY <2>3, <2>4
<1>3. N \in Good
  <2>1. Nat \subseteq Good
    <3>. HIDE DEF Good
    <3>. QED
      BY <1>1, <1>2, NatInduct
  <2>. QED
    BY <2>1
<1>. QED
  BY <1>3

-----------------------------------------------------------------------------
(* Sequences.                                                              *)
Elements(s) == {s[i] : i \in 1 .. Len(s)}
Distinct(s) == \A i, j \in 1 .. Len(s) : s[i] = s[j] => i = j

LEMMA AppendNew ==
  ASSUME NEW S, NEW s \in Seq(S), NEW e \in S
  PROVE  /\ Append(s, e) \in Seq(S)
         /\ Elements(Append(s, e)) = Elements(s) \cup {e}
         /\ Distinct(s) /\ e \notin Elements(s) => Distinct(Append(s, e))
<1>1. /\ Append(s, e) \in Seq(S) /\ Len(Append(s, e)) = Len(s) + 1 /\ Len(s) \in Nat
      /\ \A i \in 1 .. Len(s) + 1 :
           Append(s, e)[i] = IF i <= Len(s) THEN s[i] ELSE e
  OBVIOUS
<1>2. Elements(Append(s, e)) = Elements(s) \cup {e}
  BY <1>1 DEF Elements
<1>3. ASSUME Distinct(s), e \notin Elements(s) PROVE Distinct(Append(s, e))
  BY <1>1, <1>3 DEF Distinct, Elements
<1>. QED
  BY <1>1, <1>2, <1>3

LEMMA TailOfDistinct ==
  ASSUME NEW S, NEW s \in Seq(S), s # << >>, Distinct(s)
  PROVE  /\ Head(s) \in S /\ Head(s) \in Elements(s)
         /\ Tail(s) \in Seq(S) /\ Distinct(Tail(s))
         /\ Elements(Tail(s)) = Elements(s) \ {Head(s)}
         /\ Tail(s) # << >> => Head(Tail(s)) \in Elements(Tail(s))
<1>1. /\ Len(s) \in Nat \ {0} /\ Head(s) = s[1] /\ s[1] \in S
      /\ Tail(s) \in Seq(S) /\ Len(Tail(s)) = Len(s) - 1
      /\ \A i \in 1 .. Len(s) - 1 : Tail(s)[i] = s[i + 1]
  OBVIOUS
<1>2. Distinct(Tail(s))
  BY <1>1 DEF Distinct
<1>3. Elements(Tail(s)) = Elements(s) \ {Head(s)}
  <2>1. ASSUME NEW x \in Elements(Tail(s)) PROVE x \in Elements(s) \ {Head(s)}
    <3>1. PICK i \in 1 .. Len(s) - 1 : x = s[i + 1]
      BY <1>1 DEF Elements
    <3>. QED
      BY <1>1, <3>1 DEF Distinct, Elements
  <2>2. ASSUME NEW x \in Elements(s) \ {Head(s)} PROVE x \in Elements(Tail(s))
    <3>1. PICK i \in 1 .. Len(s) : x = s[i]
      BY DEF Elements
    <3>2. i - 1 \in 1 .. Len(s) - 1 /\ Tail(s)[i - 1] = x
      BY <1>1, <3>1
    <3>. QED
      BY <1>1, <3>2 DEF Elements
  <2>. QED
    BY <2>1, <2>2
<1>4. Head(s) \in Elements(s)
  BY <1>1 DEF Elements
<1>5. Tail(s) # << >> => Head(Tail(s)) \in Elements(Tail(s))
  BY <1>1 DEF Elements
<1>. QED
  BY <1>1, <1>2, <1>3, <1>4, <1>5

-----------------------------------------------------------------------------
(* The map of addresses met: Unique keeps the first of equal elements.     *)
NextMet(s, x) == IF Contains(s, x) THEN s ELSE Append(s, x)
Met(rows) ==
  CHOOSE met : met = [n \in 0 .. Len(rows) |->
                        IF n = 0 THEN << >> ELSE NextMet(met[n - 1], rows[n])]

LEMMA MetDefined ==
  ASSUME NEW S, NEW rows \in Seq(S)
  PROVE  /\ Met(rows)[0] = << >>
         /\ \A n \in 1 .. Len(rows) : Met(rows)[n] = NextMet(Met(rows)[n - 1], rows[n])
<1>. DEFINE N == Len(rows)
            X == Seq(S)
            step == [n \in 1 .. N |-> [s \in X |-> NextMet(s, rows[n])]]
<1>1. N \in Nat /\ \A n \in 1 .. N : rows[n] \in S
  OBVIOUS
<1>2. step \in [1 .. N -> [X -> X]]
  <2>. SUFFICES ASSUME NEW s \in X, NEW n \in 1 .. N PROVE NextMet(s, rows[n]) \in X
    OBVIOUS
  <2>1. Append(s, rows[n]) \in X
    BY <1>1
  <2>. QED
    BY <2>1 DEF NextMet
<1>3. PICK f \in [0 .. N -> X] : f[0] = << >> /\ \A n \in 1 .. N : f[n] = step[n][f[n - 1]]
  <2>0. << >> \in X
    OBVIOUS
  <2>1. PICK none \in X : none = << >>
    BY <2>0, Zenon
  <2>. HIDE DEF N, X, step
  <2>2. \E f \in [0 .. N -> X] : Recurs(f, none, N, step)
    BY <1>1, <1>2, <2>1, RecursionOn
  <2>. QED
    BY <2>1, <2>2 DEF Recurs
<1>4. ASSUME NEW n \in 1 .. N PROVE f[n] = NextMet(f[n - 1], rows[n])
  <2>1. n - 1 \in 0 .. N /\ f[n - 1] \in X
    <3>. HIDE DEF N, X, step
    <3>. QED
      BY <1>1, <1>3
  <2>2. step[n][f[n - 1]] = NextMet(f[n - 1], rows[n])
    BY <2>1
  <2>. QED
    BY <1>3, <2>2
<1>5. f = [n \in 0 .. N |-> IF n = 0 THEN << >> ELSE NextMet(f[n - 1], rows[n])]
  BY <1>1, <1>3, <1>4
<1>6. Met(rows) = [n \in 0 .. N |-> IF n = 0 THEN << >> ELSE NextMet(Met(rows)[n - 1], rows[n])]
  <2>1. \E g : g = [n \in 0 .. N |-> IF n = 0 THEN << >> ELSE NextMet(g[n - 1], rows[n])]
    BY <1>5
  <2>. QED
    BY <2>1 DEF Met
<1>. QED
  BY <1>1, <1>6

LEMMA UniqueIsMet == ASSUME NEW rows PROVE Unique(rows) = Met(rows)[Len(rows)]
  BY DEF Unique, Met, NextMet

(* No address comes twice, and none that was read is left out.             *)
LEMMA UniqueKeepsAll ==
  ASSUME NEW S, NEW rows \in Seq(S)
  PROVE  /\ Unique(rows) \in Seq(S)
         /\ Distinct(Unique(rows))
         /\ Elements(Unique(rows)) = Elements(rows)
<1>. DEFINE N == Len(rows)
            Seen(n) == {rows[i] : i \in 1 .. n}
            Right(n) == /\ Met(rows)[n] \in Seq(S) /\ Distinct(Met(rows)[n])
                        /\ Elements(Met(rows)[n]) = Seen(n)
            Good == {n \in Nat : n <= N => Right(n)}
<1>0. N \in Nat /\ \A n \in 1 .. N : rows[n] \in S
  OBVIOUS
<1>1. 0 \in Good
  <2>1. Met(rows)[0] = << >>
    BY MetDefined
  <2>2. << >> \in Seq(S) /\ Distinct(<< >>) /\ Elements(<< >>) = {} /\ Seen(0) = {}
    BY DEF Distinct, Elements
  <2>. QED
    BY <2>1, <2>2
<1>2. ASSUME NEW n \in Nat, n \in Good PROVE n + 1 \in Good
  <2>. SUFFICES ASSUME n + 1 <= N PROVE Right(n + 1)
    OBVIOUS
  <2>. DEFINE s == Met(rows)[n]
              x == rows[n + 1]
  <2>1. n + 1 \in 1 .. N /\ (n + 1) - 1 = n /\ x \in S
    BY <1>0
  <2>2. Met(rows)[n + 1] = NextMet(s, x)
    BY <2>1, MetDefined
  <2>3. s \in Seq(S) /\ Distinct(s) /\ Elements(s) = Seen(n)
    BY <1>0, <1>2
  <2>4. Seen(n + 1) = Seen(n) \cup {x}
    BY <2>1
  <2>5. Contains(s, x) <=> x \in Elements(s)
    BY DEF Contains, Elements
  <2>6. CASE x \in Elements(s)
    BY <2>2, <2>3, <2>4, <2>5, <2>6 DEF NextMet
  <2>7. CASE x \notin Elements(s)
    <3>1. Met(rows)[n + 1] = Append(s, x)
      BY <2>2, <2>5, <2>7 DEF NextMet
    <3>. HIDE DEF s, x, Seen
    <3>2. /\ Append(s, x) \in Seq(S) /\ Distinct(Append(s, x))
          /\ Elements(Append(s, x)) = Elements(s) \cup {x}
      BY <2>1, <2>3, <2>7, AppendNew
    <3>. QED
      BY <2>3, <2>4, <3>1, <3>2
  <2>. QED
    BY <2>6, <2>7
<1>3. Right(N)
  <2>1. Nat \subseteq Good
    <3>. HIDE DEF Good
    <3>. QED
      BY <1>1, <1>2, NatInduct
  <2>2. N <= N
    BY <1>0
  <2>3. N \in Good
    <3>. HIDE DEF Good
    <3>. QED
      BY <1>0, <2>1
  <2>. QED
    BY <2>2, <2>3
<1>. QED
  BY <1>3, UniqueIsMet DEF Elements

-----------------------------------------------------------------------------
(* The phone number: what formatPhoneNumber keeps of what was typed.       *)
Characters == Digits \cup {"+"}
NextKept(s, c) == IF c \in Digits \cup {"+"} THEN Append(s, c) ELSE s
Kept(p) ==
  CHOOSE kept : kept = [n \in 0 .. Len(p) |->
                          IF n = 0 THEN << >> ELSE NextKept(kept[n - 1], p[n])]

LEMMA NextKeptType ==
  ASSUME NEW s \in Seq(Characters), NEW c PROVE NextKept(s, c) \in Seq(Characters)
  BY DEF NextKept, Characters

LEMMA KeptDefined ==
  ASSUME NEW p, Len(p) \in Nat
  PROVE  /\ Kept(p)[0] = << >>
         /\ \A n \in 1 .. Len(p) : Kept(p)[n] = NextKept(Kept(p)[n - 1], p[n])
<1>. DEFINE N == Len(p)
            X == Seq(Characters)
            step == [n \in 1 .. N |-> [s \in X |-> NextKept(s, p[n])]]
<1>2. step \in [1 .. N -> [X -> X]]
  BY NextKeptType
<1>3. PICK f \in [0 .. N -> X] : f[0] = << >> /\ \A n \in 1 .. N : f[n] = step[n][f[n - 1]]
  <2>0. << >> \in X
    OBVIOUS
  <2>1. PICK none \in X : none = << >>
    BY <2>0, Zenon
  <2>. HIDE DEF X, step
  <2>2. \E f \in [0 .. N -> X] : Recurs(f, none, N, step)
    BY <1>2, <2>1, RecursionOn
  <2>. QED
    BY <2>1, <2>2 DEF Recurs
<1>4. ASSUME NEW n \in 1 .. N PROVE f[n] = NextKept(f[n - 1], p[n])
  <2>1. n - 1 \in 0 .. N /\ f[n - 1] \in X
    <3>. HIDE DEF X, step
    <3>. QED
      BY <1>3
  <2>2. step[n][f[n - 1]] = NextKept(f[n - 1], p[n])
    BY <2>1
  <2>. QED
    BY <1>3, <2>2
<1>5. f = [n \in 0 .. N |-> IF n = 0 THEN << >> ELSE NextKept(f[n - 1], p[n])]
  BY <1>3, <1>4
<1>6. Kept(p) = [n \in 0 .. N |-> IF n = 0 THEN << >> ELSE NextKept(Kept(p)[n - 1], p[n])]
  <2>1. \E g : g = [n \in 0 .. N |-> IF n = 0 THEN << >> ELSE NextKept(g[n - 1], p[n])]
    BY <1>5
  <2>. QED
    BY <2>1 DEF Kept
<1>. QED
  BY <1>6

LEMMA CleanedIsKept == ASSUME NEW p PROVE Cleaned(p) = Kept(p)[Len(p)]
  BY DEF Cleaned, Kept, NextKept

LEMMA CleanedType ==
  ASSUME NEW p, Len(p) \in Nat PROVE Cleaned(p) \in Seq(Characters)
<1>. DEFINE Good == {n \in Nat : n <= Len(p) => Kept(p)[n] \in Seq(Characters)}
<1>1. 0 \in Good
  <2>1. Kept(p)[0] = << >>
    BY KeptDefined
  <2>2. << >> \in Seq(Characters)
    OBVIOUS
  <2>. QED
    BY <2>1, <2>2
<1>2. ASSUME NEW n \in Nat, n \in Good PROVE n + 1 \in Good
  <2>1. n + 1 <= Len(p) => n + 1 \in 1 .. Len(p) /\ (n + 1) - 1 = n
    OBVIOUS
  <2>2. n + 1 <= Len(p) => Kept(p)[n] \in Seq(Characters)
    BY <1>2
  <2>3. n + 1 <= Len(p) => Kept(p)[n + 1] = NextKept(Kept(p)[n], p[n + 1])
    BY <2>1, KeptDefined
  <2>. QED
    BY <2>2, <2>3, NextKeptType
<1>3. Nat \subseteq Good
  <2>. HIDE DEF Good
  <2>. QED
    BY <1>1, <1>2, NatInduct
<1>4. Kept(p)[Len(p)] \in Seq(Characters)
  BY <1>3
<1>. QED
  BY <1>4, CleanedIsKept

(* A Kenyan number typed in one of the usual ways becomes +254 and its     *)
(* last nine characters.                                                   *)
LEMMA FormatsUsual ==
  ASSUME NEW p, Len(p) \in Nat, Usual(p)
  PROVE  LET c == Cleaned(p)
         IN  FormatPhoneNumber(p) = Kenya \o SubSeq(c, Len(c) - 8, Len(c))
<1>. DEFINE c == Cleaned(p)
<1>1. c \in Seq(Characters) /\ Len(c) \in Nat
  BY CleanedType, LenProperties
<1>. HIDE DEF c
<1>. SUFFICES FormatPhoneNumber(p) = Kenya \o SubSeq(c, Len(c) - 8, Len(c))
  BY DEF c
<1>2. CASE Len(c) = 10 /\ c[1] = "0"
  <2>1. FormatPhoneNumber(p) = Kenya \o Tail(c)
    BY <1>2 DEF c, FormatPhoneNumber, TrunkDropped
  <2>2. c # << >> /\ Len(c) - 8 = 2
    <3>1. Len(<< >>) = 0
      OBVIOUS
    <3>2. c = << >> => Len(c) = 0
      BY <3>1, Zenon
    <3>. QED
      BY <1>2, <3>2
  <2>3. Tail(c) = SubSeq(c, 2, Len(c))
    BY <1>1, <2>2, TailIsSubSeq
  <2>. QED
    BY <2>1, <2>2, <2>3
<1>3. CASE Len(c) = 9 /\ c[1] \in Digits
  <2>1. c[1] # "+" /\ Len(c) - 8 = 1
    BY <1>3 DEF Digits
  <2>2. FormatPhoneNumber(p) = Kenya \o c
    BY <1>3, <2>1 DEF c, FormatPhoneNumber
  <2>3. SubSeq(c, 1, Len(c)) = c
    BY <1>1, SubSeqFull
  <2>. QED
    BY <2>1, <2>2, <2>3
<1>4. CASE Len(c) = 13 /\ SubSeq(c, 1, 4) = Kenya
  <2>1. c[1] = "+" /\ Len(c) - 8 = 5
    <3>1. Head(SubSeq(c, 1, 4)) = c[1]
      BY <1>1, <1>4, HeadTailOfSubSeq
    <3>2. Head(Kenya) = "+"
      <4>1. Head(Kenya) = Kenya[1]
        BY DEF Kenya
      <4>. QED
        BY <4>1 DEF Kenya
    <3>. QED
      BY <1>4, <3>1, <3>2
  <2>2. FormatPhoneNumber(p) = c
    BY <1>4, <2>1 DEF c, FormatPhoneNumber
  <2>3. SubSeq(c, 1, 4) \o SubSeq(c, 4 + 1, 13) = SubSeq(c, 1, 13)
    BY <1>1, <1>4, ConcatAdjacentSubSeq
  <2>4. SubSeq(c, 1, 13) = c
    BY <1>1, <1>4, SubSeqFull
  <2>5. 4 + 1 = 5
    OBVIOUS
  <2>. QED
    BY <1>4, <2>1, <2>2, <2>3, <2>4, <2>5
<1>. QED
  BY <1>2, <1>3, <1>4 DEF c, Usual

-----------------------------------------------------------------------------
(* The inductive invariant: the types, and for each task what it still has *)
(* to send to, has logged and has delivered.  Only the current address may *)
(* have copies of an e-mail without a result, at most one for each attempt *)
(* that failed; of the administrators' e-mail, the users that were read    *)
(* are those with a result and those still in the queue.                   *)
Early == {"idle", "order", "customer", "supers", "sms"}

MailOK(t) ==
  /\ t[1] \notin placed => stage[t] = "idle"
  /\ stage[t] = "supers" => Kind(t) = "admin"
  /\ stage[t] = "sms" => Kind(t) = "sms"
  /\ stage[t] = "send" => Kind(t) # "sms"
  /\ stage[t] # "send" => tries[t] = 0
  /\ Distinct(queue[t])
  /\ stage[t] \in Early =>
       asked[t] = {} /\ \A u \in Users : outcome[t][u] = "none" /\ copies[t][u] = 0
  /\ \A u \in Elements(queue[t]) :
       /\ outcome[t][u] = "none"
       /\ copies[t][u] <= IF u = Head(queue[t]) THEN tries[t] ELSE 0
  /\ \A u \in Users : copies[t][u] <= IF Kind(t) = "sms" THEN 1 ELSE Attempts
  /\ Kind(t) = "admin" /\ stage[t] = "send" =>
       /\ Elements(queue[t]) \subseteq asked[t]
       /\ {u \in Users : outcome[t][u] # "none"} = asked[t] \ Elements(queue[t])
  /\ Kind(t) = "admin" /\ stage[t] = "done" =>
       {u \in Users : outcome[t][u] # "none"} = asked[t]
  /\ dialled[t] # << >> =>
       stage[t] \in {"done", "dead"} /\ dialled[t] = FormatPhoneNumber(number[t])

MailInv == \A t \in Tasks : MailOK(t)
IInv == TypeOK /\ MailInv

-----------------------------------------------------------------------------
(* What the administrators' task reads.                                    *)

(* An enumeration of a finite set without repetitions reaches all of it.   *)
LEMMA SetToSeqsAll ==
  ASSUME NEW S, IsFiniteSet(S), NEW s \in SetToSeqs(S)
  PROVE  s \in Seq(S) /\ Len(s) = Cardinality(S) /\ Elements(s) = S
<1>. DEFINE D == 1 .. Cardinality(S)
<1>1. Cardinality(S) \in Nat /\ IsFiniteSet(D) /\ Cardinality(D) = Cardinality(S)
  BY FS_CardinalityType, FS_Interval
<1>2. s \in [D -> S] /\ \A i, j \in D : i # j => s[i] # s[j]
  BY DEF SetToSeqs
<1>3. s \in Injection(D, S)
  BY <1>2 DEF Injection, IsInjective
<1>4. s \in Surjection(D, S)
  <2>. HIDE DEF D
  <2>. QED
    BY <1>1, <1>3, FS_Injection
<1>5. \A x \in S : \E i \in D : s[i] = x
  BY <1>4 DEF Surjection
<1>6. s \in Seq(S) /\ Len(s) = Cardinality(S)
  BY <1>1, <1>2
<1>. QED
  BY <1>2, <1>5, <1>6 DEF Elements

LEMMA SupersRead ==
  ASSUME TypeOK, NEW rows \in PermissionRows
  PROVE  LET q == Unique(SuperUsers(rows))
         IN  /\ q \in Seq(Users) /\ Distinct(q)
             /\ Elements(q) = {g[1] : g \in grants}
             /\ q = << >> <=> grants = {}
<1>. DEFINE q == Unique(SuperUsers(rows))
            us == SuperUsers(rows)
<1>1. IsFiniteSet(grants) /\ \A g \in grants : g[1] \in Users
  BY FS_Subset, NotificationsAssumption DEF TypeOK
<1>2. /\ rows \in Seq(grants) /\ Len(rows) \in Nat /\ Elements(rows) = grants
      /\ \A n \in 1 .. Len(rows) : rows[n] \in grants
  BY <1>1, SetToSeqsAll, LenProperties, ElementOfSeq DEF PermissionRows
<1>3. us \in Seq(Users) /\ Len(us) = Len(rows) /\ \A n \in 1 .. Len(rows) : us[n] = rows[n][1]
  <2>1. us \in [1 .. Len(rows) -> Users]
    BY <1>1, <1>2 DEF SuperUsers
  <2>. QED
    BY <1>2, <2>1 DEF SuperUsers
<1>4. Elements(us) = {g[1] : g \in grants}
  BY <1>2, <1>3 DEF Elements
<1>. HIDE DEF us
<1>5. q \in Seq(Users) /\ Distinct(q) /\ Elements(q) = Elements(us)
  BY <1>3, UniqueKeepsAll DEF us
<1>6. q = << >> <=> Elements(q) = {}
  <2>. HIDE DEF q
  <2>1. q = << >> => Elements(q) = {}
    <3>1. Len(<< >>) = 0
      OBVIOUS
    <3>. QED
      BY <3>1 DEF Elements
  <2>2. q # << >> => q[1] \in Elements(q)
    BY <1>5, EmptySeq DEF Elements
  <2>. QED
    BY <2>1, <2>2
<1>. QED
  BY <1>4, <1>5, <1>6

-----------------------------------------------------------------------------
(* The steps of a task, by their effect.                                   *)

(* A read leads on, or the task is over; nothing is sent.                  *)
Moves(t) ==
  /\ stage[t] \in {"order", "customer", "supers"}
  /\ \E s \in {"customer", "supers", "sms", "done"} :
       /\ Goto(t, s)
       /\ s = "supers" => Kind(t) = "admin"
       /\ s = "sms" => Kind(t) = "sms"
  /\ number' = number \/ number' = [number EXCEPT ![t] = PhoneOf(t)]
  /\ UNCHANGED <<followed, tables, queue, tries, asked, world>>

DeliversOrNot(t) == Deliver(t, Head(queue[t])) \/ UNCHANGED copies

(* The current address gets its result.                                    *)
Finishes(t) ==
  /\ stage[t] = "send"
  /\ \E result \in {"sent", "error"} : Returns(t, result)
  /\ DeliversOrNot(t)
  /\ UNCHANGED <<followed, tables, number, asked, dialled>>

Retries(t) ==
  /\ stage[t] = "send"
  /\ tries[t] + 1 < Attempts
  /\ DeliversOrNot(t)
  /\ tries' = [tries EXCEPT ![t] = tries[t] + 1]
  /\ UNCHANGED <<followed, tables, stage, queue, number, asked, outcome, dialled>>

LEMMA WorkCases ==
  ASSUME NEW t \in Tasks, Work(t)
  PROVE  Moves(t) \/ ReadAddress(t) \/ ReadSupers(t) \/ Finishes(t) \/ Retries(t) \/ SendSms(t)
<1>1. CASE ReadOrder(t) \/ ReadCustomer(t) \/ ReadPhone(t) \/ ReadFails(t)
  BY <1>1 DEF ReadOrder, ReadCustomer, ReadPhone, ReadFails, GiveUp, Moves, memory
<1>2. CASE TemplateFails(t) \/ AttemptSucceeds(t)
  BY <1>2 DEF TemplateFails, AttemptSucceeds, Finishes, DeliversOrNot
<1>3. CASE AttemptFails(t)
  BY <1>3 DEF AttemptFails, MayRetry, LastError, Finishes, Retries, DeliversOrNot
<1>. QED
  BY <1>1, <1>2, <1>3 DEF Work

LEMMA NextCases ==
  ASSUME [Next]_vars
  PROVE  \/ \E o \in Orders : PlaceOrder(o) \/ ChangeStatus(o)
         \/ \E t \in Tasks : \/ Moves(t) \/ ReadAddress(t) \/ ReadSupers(t)
                             \/ Finishes(t) \/ Retries(t) \/ SendSms(t)
         \/ /\ placed' = placed /\ followed' = followed /\ UNCHANGED <<stage, memory, world>>
            /\ grants' \subseteq Grantable \/ ~ grants \subseteq Grantable
            /\ phone' \in [Customers -> Phones] \/ phone \notin [Customers -> Phones]
         \/ Crash
<1>1. ASSUME NEW u \in Customers, NEW p \in Phones, ChangePhone(u, p),
             phone \in [Customers -> Phones]
      PROVE  phone' \in [Customers -> Phones]
  BY <1>1 DEF ChangePhone
<1>2. CASE \E t \in Tasks : Work(t)
  BY <1>2, WorkCases
<1>3. CASE \E u \in Customers, p \in Phones : ChangePhone(u, p)
  BY <1>1, <1>3 DEF ChangePhone
<1>4. CASE \E g \in Grantable : Grant(g) \/ Revoke(g)
  BY <1>4 DEF Grant, Revoke
<1>5. CASE UNCHANGED vars
  BY <1>5 DEF vars, tables
<1>. QED
  BY <1>2, <1>3, <1>4, <1>5 DEF Next

(* What the queue becomes when the current address has its result.         *)
LEMMA RestOfQueue ==
  ASSUME TypeOK, MailInv, NEW t \in Tasks, stage[t] = "send"
  PROVE  /\ queue[t] # << >> /\ Head(queue[t]) \in Users
         /\ Head(queue[t]) \in Elements(queue[t])
         /\ Tail(queue[t]) \in Seq(Users) /\ Distinct(Tail(queue[t]))
         /\ Elements(Tail(queue[t])) = Elements(queue[t]) \ {Head(queue[t])}
         /\ Tail(queue[t]) = << >> => Elements(Tail(queue[t])) = {}
<1>1. queue[t] \in Seq(Users) /\ queue[t] # << >> /\ Distinct(queue[t])
  BY DEF TypeOK, MailInv, MailOK
<1>2. Elements(<< >>) = {}
  <2>1. Len(<< >>) = 0
    OBVIOUS
  <2>. QED
    BY <2>1 DEF Elements
<1>3. Tail(queue[t]) = << >> => Elements(Tail(queue[t])) = {}
  BY <1>2, Zenon
<1>. QED
  BY <1>1, <1>3, TailOfDistinct

-----------------------------------------------------------------------------
(* Type correctness.                                                       *)

LEMMA TypeInit == Init => TypeOK
  BY NotificationsAssumption DEF Init, TypeOK, Stages, Attempts, Tasks

LEMMA TypeStep ==
  ASSUME TypeOK, MailInv, [Next]_vars
  PROVE  TypeOK'
<1>. USE DEF TypeOK
<1>1. ASSUME NEW o \in Orders, PlaceOrder(o)
      PROVE  TypeOK'
  <2>1. UNCHANGED <<followed, grants, phone, memory, world>> /\ placed' \subseteq Orders
    BY <1>1 DEF PlaceOrder
  <2>2. stage' \in [Tasks -> Stages]
    BY <1>1 DEF PlaceOrder, Stages
  <2>3. ASSUME NEW t \in Tasks PROVE stage'[t] = "send" <=> queue'[t] # << >>
    <3>1. stage'[t] = stage[t] \/ (stage'[t] = "order" /\ t[1] = o)
      BY <1>1 DEF PlaceOrder
    <3>2. t[1] = o => stage[t] = "idle"
      BY <1>1 DEF PlaceOrder, MailInv, MailOK
    <3>. QED
      BY <2>1, <3>1, <3>2 DEF memory
  <2>. QED
    BY <2>1, <2>2, <2>3 DEF memory, world
<1>2. ASSUME NEW o \in Orders, ChangeStatus(o)
      PROVE  TypeOK'
  <2>. DEFINE t == <<o, "status">>
  <2>1. t \in Tasks /\ stage[t] = "idle" /\ stage' = [stage EXCEPT ![t] = "order"]
        /\ UNCHANGED <<followed, tables, memory, world>>
    BY <1>2 DEF ChangeStatus, Goto, Tasks, Kinds
  <2>. HIDE DEF t
  <2>. QED
    BY <2>1 DEF tables, memory, world, Stages
<1>3. ASSUME NEW t \in Tasks, Moves(t)
      PROVE  TypeOK'
  <2>1. /\ stage[t] # "send" /\ UNCHANGED <<followed, tables, queue, tries, asked, world>>
        /\ \E s \in Stages \ {"send"} : stage' = [stage EXCEPT ![t] = s]
    BY <1>3 DEF Moves, Goto, Stages
  <2>2. number' \in [Tasks -> Phones]
    <3>1. Customer(t) \in Customers
      BY DEF Customer, Customers, Tasks
    <3>2. PhoneOf(t) \in Phones
      BY <3>1 DEF PhoneOf
    <3>. QED
      BY <1>3, <3>2 DEF Moves
  <2>3. stage' \in [Tasks -> Stages]
    BY <2>1
  <2>4. \A x \in Tasks : stage'[x] = "send" <=> queue'[x] # << >>
    BY <2>1
  <2>. QED
    BY <2>1, <2>2, <2>3, <2>4 DEF tables, world
<1>4. ASSUME NEW t \in Tasks, ReadAddress(t)
      PROVE  TypeOK'
  <2>. DEFINE q == <<Customer(t)>>
  <2>1. stage' = [stage EXCEPT ![t] = "send"] /\ queue' = [queue EXCEPT ![t] = q]
        /\ UNCHANGED <<followed, tables, tries, number, asked, world>>
    BY <1>4 DEF ReadAddress, Goto
  <2>2. q \in Seq(Users) /\ q # << >>
    BY NotificationsAssumption DEF Customer, Tasks
  <2>. HIDE DEF q
  <2>3. stage' \in [Tasks -> Stages] /\ queue' \in [Tasks -> Seq(Users)]
    BY <2>1, <2>2 DEF Stages
  <2>4. \A x \in Tasks : stage'[x] = "send" <=> queue'[x] # << >>
    BY <2>1, <2>2
  <2>. QED
    BY <2>1, <2>3, <2>4 DEF tables, world
<1>5. ASSUME NEW t \in Tasks, ReadSupers(t)
      PROVE  TypeOK'
  <2>1. PICK rows \in PermissionRows : queue' = [queue EXCEPT ![t] = Unique(SuperUsers(rows))]
    BY <1>5 DEF ReadSupers
  <2>2. PICK q \in Seq(Users) : q = Unique(SuperUsers(rows)) /\ (q = << >> <=> grants = {})
    BY SupersRead
  <2>3. /\ stage' = [stage EXCEPT ![t] = IF grants = {} THEN "done" ELSE "send"]
        /\ asked' = [asked EXCEPT ![t] = {g[1] : g \in grants}]
        /\ UNCHANGED <<followed, tables, tries, number, world>>
    BY <1>5 DEF ReadSupers, Goto
  <2>4. {g[1] : g \in grants} \subseteq Users
    BY NotificationsAssumption
  <2>5. stage' \in [Tasks -> Stages] /\ queue' \in [Tasks -> Seq(Users)]
    BY <2>1, <2>2, <2>3 DEF Stages
  <2>6. \A x \in Tasks : stage'[x] = "send" <=> queue'[x] # << >>
    BY <2>1, <2>2, <2>3
  <2>7. asked' \in [Tasks -> SUBSET Users]
    BY <2>3, <2>4
  <2>. QED
    BY <2>3, <2>5, <2>6, <2>7 DEF tables, world
<1>6. ASSUME NEW t \in Tasks, Finishes(t) \/ Retries(t)
      PROVE  TypeOK'
  <2>. DEFINE h == Head(queue[t])
              rest == Tail(queue[t])
  <2>1. h \in Users /\ rest \in Seq(Users)
    BY <1>6, RestOfQueue DEF Finishes, Retries
  <2>2. copies' \in [Tasks -> [Users -> Nat]]
    <3>1. CASE UNCHANGED copies
      BY <3>1
    <3>2. CASE copies' = [copies EXCEPT ![t][h] = copies[t][h] + 1]
      <4>1. copies[t] \in [Users -> Nat] /\ copies[t][h] + 1 \in Nat
        BY <2>1
      <4>2. [copies[t] EXCEPT ![h] = copies[t][h] + 1] \in [Users -> Nat]
        BY <4>1
      <4>. QED
        BY <3>2, <4>2
    <3>. QED
      BY <1>6, <3>1, <3>2 DEF Finishes, Retries, DeliversOrNot, Deliver
  <2>3. CASE Finishes(t)
    <3>1. PICK result \in {"sent", "error"} : Returns(t, result)
      BY <2>3 DEF Finishes
    <3>2. outcome' = [outcome EXCEPT ![t][h] = result]
      BY <3>1 DEF Returns, Log
    <3>3. /\ queue' = [queue EXCEPT ![t] = rest] /\ tries' = [tries EXCEPT ![t] = 0]
          /\ stage' = [stage EXCEPT ![t] = IF rest = << >> THEN "done" ELSE "send"]
          /\ UNCHANGED <<followed, tables, number, asked, dialled>>
      BY <2>3, <3>1 DEF Returns, NextAddress, Goto, Finishes
    <3>. HIDE DEF h, rest
    <3>4. outcome' \in [Tasks -> [Users -> {"none", "sent", "error"}]]
      BY <2>1, <3>2
    <3>5. stage' \in [Tasks -> Stages] /\ queue' \in [Tasks -> Seq(Users)]
      BY <2>1, <3>3 DEF Stages
    <3>6. \A x \in Tasks : stage'[x] = "send" <=> queue'[x] # << >>
      BY <2>1, <3>3
    <3>7. tries' \in [Tasks -> 0 .. Attempts - 1]
      BY <3>3 DEF Attempts
    <3>. QED
      BY <2>2, <3>3, <3>4, <3>5, <3>6, <3>7 DEF tables
  <2>4. CASE Retries(t)
    <3>1. tries' = [tries EXCEPT ![t] = tries[t] + 1] /\ tries[t] + 1 < Attempts
          /\ UNCHANGED <<followed, tables, stage, queue, number, asked, outcome, dialled>>
      BY <2>4 DEF Retries
    <3>2. tries[t] \in 0 .. 2 /\ tries[t] + 1 < 3
      BY <3>1 DEF Attempts
    <3>3. tries[t] + 1 \in 0 .. 2
      BY <3>2
    <3>4. tries' \in [Tasks -> 0 .. Attempts - 1]
      BY <3>1, <3>3 DEF Attempts
    <3>. HIDE DEF h, rest
    <3>. QED
      BY <2>2, <3>1, <3>4 DEF tables
  <2>. QED
    BY <1>6, <2>3, <2>4
<1>7. ASSUME NEW t \in Tasks, SendSms(t)
      PROVE  TypeOK'
  <2>. DEFINE u == Customer(t)
  <2>1. u \in Users
    BY NotificationsAssumption DEF Customer, Tasks
  <2>2. /\ stage[t] = "sms" /\ stage' = [stage EXCEPT ![t] = "done"]
        /\ DOMAIN dialled' = DOMAIN dialled
        /\ copies' = copies \/ copies' = [copies EXCEPT ![t][u] = copies[t][u] + 1]
        /\ \E r \in {"sent", "error"} : outcome' = [outcome EXCEPT ![t][u] = r]
        /\ UNCHANGED <<followed, tables, memory>>
    BY <1>7 DEF SendSms, ProviderAnswers, Deliver, Log, Goto
  <2>. HIDE DEF u
  <2>3. copies' \in [Tasks -> [Users -> Nat]]
    <3>1. copies[t] \in [Users -> Nat] /\ copies[t][u] + 1 \in Nat
      BY <2>1
    <3>2. [copies[t] EXCEPT ![u] = copies[t][u] + 1] \in [Users -> Nat]
      BY <3>1
    <3>3. ASSUME copies' = [copies EXCEPT ![t][u] = copies[t][u] + 1]
          PROVE  copies' \in [Tasks -> [Users -> Nat]]
      BY <3>2, <3>3
    <3>. QED
      BY <2>2, <3>3
  <2>4. outcome' \in [Tasks -> [Users -> {"none", "sent", "error"}]]
    BY <2>1, <2>2
  <2>. QED
    BY <2>2, <2>3, <2>4 DEF tables, memory, Stages
<1>8. CASE /\ placed' = placed /\ followed' = followed /\ UNCHANGED <<stage, memory, world>>
           /\ grants' \subseteq Grantable \/ ~ grants \subseteq Grantable
           /\ phone' \in [Customers -> Phones] \/ phone \notin [Customers -> Phones]
  BY <1>8 DEF memory, world
<1>9. CASE Crash
  <2>1. << >> \in Seq(Users) /\ 0 \in 0 .. Attempts - 1
    BY DEF Attempts
  <2>2. /\ stage' \in [Tasks -> Stages] /\ \A t \in Tasks : stage'[t] # "send"
        /\ queue' \in [Tasks -> Seq(Users)] /\ \A t \in Tasks : queue'[t] = << >>
        /\ tries' \in [Tasks -> 0 .. Attempts - 1]
    BY <1>9, <2>1 DEF Crash, Running, Stages
  <2>. QED
    BY <1>9, <2>2 DEF Crash, tables, world
<1>. QED
  BY <1>1, <1>2, <1>3, <1>4, <1>5, <1>6, <1>7, <1>8, <1>9, NextCases

-----------------------------------------------------------------------------
(* The invariant of the tasks.                                             *)

LEMMA MailInit == Init => MailInv
<1>1. Elements(<< >>) = {} /\ Distinct(<< >>)
  <2>1. Len(<< >>) = 0
    OBVIOUS
  <2>. QED
    BY <2>1 DEF Elements, Distinct
<1>2. ASSUME Init, NEW t \in Tasks PROVE MailOK(t)
  <2>1. /\ stage[t] = "idle" /\ tries[t] = 0 /\ queue[t] = << >> /\ asked[t] = {}
        /\ dialled[t] = << >>
        /\ \A u \in Users : copies[t][u] = 0 /\ outcome[t][u] = "none"
    BY <1>2 DEF Init
  <2>2. Distinct(queue[t]) /\ Elements(queue[t]) = {}
    BY <1>1, <2>1, Zenon
  <2>. QED
    BY <2>1, <2>2 DEF MailOK, Attempts
<1>. QED
  BY <1>2 DEF MailInv

(* Nothing of what MailOK says of a task has changed.                      *)
Untouched(q) ==
  /\ stage'[q] = stage[q] /\ queue'[q] = queue[q] /\ tries'[q] = tries[q]
  /\ asked'[q] = asked[q] /\ copies'[q] = copies[q] /\ outcome'[q] = outcome[q]
  /\ number'[q] = number[q] /\ dialled'[q] = dialled[q]

LEMMA MailFrame ==
  ASSUME NEW q \in Tasks, MailOK(q), Untouched(q), placed \subseteq placed'
  PROVE  MailOK(q)'
  BY DEF MailOK, Untouched, Kind

(* The step of a task concerns no other task.                              *)
OnlyOf(t) ==
  /\ placed' = placed
  /\ \A q \in Tasks \ {t} : Untouched(q)

LEMMA MailOthers ==
  ASSUME MailInv, NEW t \in Tasks, OnlyOf(t), MailOK(t)'
  PROVE  MailInv'
<1>1. ASSUME NEW q \in Tasks, q # t PROVE MailOK(q)'
  BY <1>1, MailFrame DEF OnlyOf, MailInv
<1>. QED
  BY <1>1 DEF MailInv

LEMMA WorkIsLocal ==
  ASSUME TypeOK, NEW t \in Tasks,
         Moves(t) \/ ReadAddress(t) \/ ReadSupers(t) \/ Finishes(t) \/ Retries(t) \/ SendSms(t)
  PROVE  OnlyOf(t)
<1>. USE DEF TypeOK, OnlyOf, Untouched, Goto, tables, memory, world
<1>1. CASE Moves(t)
  BY <1>1 DEF Moves
<1>2. CASE ReadAddress(t) \/ ReadSupers(t)
  BY <1>2 DEF ReadAddress, ReadSupers
<1>3. CASE Finishes(t)
  BY <1>3 DEF Finishes, DeliversOrNot, Deliver, Returns, Log
<1>4. CASE Retries(t)
  BY <1>4 DEF Retries, DeliversOrNot, Deliver
<1>5. CASE SendSms(t)
  BY <1>5 DEF SendSms, ProviderAnswers, Deliver, Log
<1>. QED
  BY <1>1, <1>2, <1>3, <1>4, <1>5

LEMMA MailPlace ==
  ASSUME TypeOK, MailInv, NEW o \in Orders, PlaceOrder(o) PROVE MailInv'
<1>1. placed' = placed \cup {o} /\ UNCHANGED <<memory, world>>
  BY DEF PlaceOrder
<1>2. ASSUME NEW q \in Tasks, stage'[q] = stage[q] PROVE MailOK(q)'
  BY <1>1, <1>2, MailFrame DEF MailInv, Untouched, memory, world
<1>3. ASSUME NEW q \in Tasks, stage'[q] # stage[q] PROVE MailOK(q)'
  <2>1. q[1] = o /\ stage'[q] = "order" /\ o \notin placed
    BY <1>3 DEF PlaceOrder, TypeOK
  <2>2. MailOK(q) /\ stage[q] = "idle"
    BY <2>1 DEF MailInv, MailOK
  <2>. QED
    BY <1>1, <2>1, <2>2 DEF MailOK, Kind, Early, memory, world
<1>. QED
  BY <1>2, <1>3 DEF MailInv

LEMMA MailChange ==
  ASSUME TypeOK, MailInv, NEW o \in Orders, ChangeStatus(o) PROVE MailInv'
<1>. DEFINE t == <<o, "status">>
<1>1. /\ t \in Tasks /\ t[1] = o /\ o \in placed /\ stage[t] = "idle"
      /\ stage' = [stage EXCEPT ![t] = "order"]
      /\ placed' = placed /\ UNCHANGED <<memory, world>>
  BY DEF ChangeStatus, Goto, Tasks, Kinds, tables
<1>. HIDE DEF t
<1>2. MailOK(t)'
  <2>1. MailOK(t) /\ stage'[t] = "order"
    BY <1>1 DEF MailInv, TypeOK
  <2>. QED
    BY <1>1, <2>1 DEF MailOK, Kind, Early, memory, world
<1>3. OnlyOf(t)
  BY <1>1 DEF OnlyOf, Untouched, TypeOK, memory, world
<1>. QED
  BY <1>1, <1>2, <1>3, MailOthers

LEMMA MailMoves ==
  ASSUME TypeOK, MailInv, NEW t \in Tasks, Moves(t) PROVE MailOK(t)'
<1>1. MailOK(t) /\ stage[t] \in {"order", "customer", "supers"} /\ queue[t] = << >>
  BY DEF MailInv, Moves, TypeOK
<1>2. /\ stage'[t] \in {"customer", "supers", "sms", "done"}
      /\ stage'[t] = "supers" => Kind(t) = "admin"
      /\ stage'[t] = "sms" => Kind(t) = "sms"
      /\ UNCHANGED <<placed, queue, tries, asked, world>>
  BY DEF Moves, Goto, TypeOK, tables
<1>. QED
  BY <1>1, <1>2 DEF MailOK, Kind, Early, world

LEMMA MailReadAddress ==
  ASSUME TypeOK, MailInv, NEW t \in Tasks, ReadAddress(t) PROVE MailOK(t)'
<1>. DEFINE u == Customer(t)
<1>1. /\ MailOK(t) /\ stage[t] = "customer" /\ Kind(t) \in {"confirm", "status"}
      /\ u \in Users
  BY NotificationsAssumption DEF ReadAddress, MailInv, Customer, Tasks
<1>2. /\ stage'[t] = "send" /\ queue'[t] = <<u>>
      /\ UNCHANGED <<placed, tries, asked, number, world>>
  BY DEF ReadAddress, Goto, TypeOK, tables
<1>. HIDE DEF u
<1>3. Elements(<<u>>) = {u} /\ Distinct(<<u>>)
  BY DEF Elements, Distinct
<1>4. /\ Elements(queue'[t]) = {u} /\ Distinct(queue'[t])
  BY <1>2, <1>3, Zenon
<1>5. stage[t] \in Early /\ tries[t] = 0 /\ dialled[t] = << >>
  BY <1>1 DEF MailOK, Early
<1>. QED
  BY <1>1, <1>2, <1>4, <1>5 DEF MailOK, Kind, Early, Attempts, world

LEMMA MailReadSupers ==
  ASSUME TypeOK, MailInv, NEW t \in Tasks, ReadSupers(t) PROVE MailOK(t)'
<1>. DEFINE read == {g[1] : g \in grants}
<1>1. PICK rows \in PermissionRows : queue' = [queue EXCEPT ![t] = Unique(SuperUsers(rows))]
  BY DEF ReadSupers
<1>2. PICK q \in Seq(Users) :
        /\ q = Unique(SuperUsers(rows)) /\ Distinct(q) /\ Elements(q) = read
        /\ q = << >> <=> grants = {}
  BY SupersRead
<1>3. /\ stage'[t] = IF grants = {} THEN "done" ELSE "send"
      /\ asked'[t] = read /\ queue'[t] = q
      /\ UNCHANGED <<placed, tries, number, world>>
  BY <1>1, <1>2 DEF ReadSupers, Goto, TypeOK, tables
<1>4. read \subseteq Users /\ (grants = {} => read = {})
  BY NotificationsAssumption DEF TypeOK
<1>5. /\ MailOK(t) /\ stage[t] \in Early /\ tries[t] = 0 /\ Kind(t) = "admin"
      /\ dialled[t] = << >>
  BY DEF MailInv, MailOK, Early, ReadSupers
<1>6. \A u \in Users : outcome[t][u] = "none" /\ copies[t][u] = 0
  BY <1>5 DEF MailOK
<1>7. Elements(queue'[t]) = read /\ Distinct(queue'[t])
  BY <1>2, <1>3, Zenon
<1>. HIDE DEF read
<1>8. UNCHANGED <<outcome, copies, dialled>> /\ stage'[t] \in {"done", "send"}
  BY <1>3 DEF world
<1>9. {u \in Users : outcome'[t][u] # "none"} = {}
  BY <1>6, <1>8
<1>10. stage'[t] = "done" => asked'[t] = {}
  BY <1>3, <1>4
<1>11. /\ (t[1] \notin placed => stage[t] = "idle") /\ stage[t] # "idle" /\ placed' = placed
  BY <1>3, <1>5 DEF MailOK, ReadSupers
<1>. QED
  BY <1>3, <1>4, <1>5, <1>6, <1>7, <1>8, <1>9, <1>10, <1>11 DEF MailOK, Kind, Early, Attempts

(* The counts and the results after an attempt for the current address h.  *)
LEMMA MailDelivery ==
  ASSUME TypeOK, MailInv, NEW t \in Tasks, stage[t] = "send", DeliversOrNot(t)
  PROVE  LET h == Head(queue[t])
         IN  /\ \A u \in Users : u # h => copies'[t][u] = copies[t][u]
             /\ copies'[t][h] \in Nat /\ copies'[t][h] <= tries[t] + 1
<1>. DEFINE h == Head(queue[t])
<1>1. h \in Users /\ h \in Elements(queue[t])
  BY RestOfQueue
<1>2. copies[t][h] <= tries[t] /\ copies[t][h] \in Nat /\ tries[t] \in Nat
  <2>1. \A u \in Elements(queue[t]) : copies[t][u] <= IF u = Head(queue[t]) THEN tries[t] ELSE 0
    BY DEF MailInv, MailOK
  <2>2. copies[t][h] \in Nat
    BY <1>1 DEF TypeOK
  <2>3. tries[t] \in Nat
    BY DEF TypeOK
  <2>. QED
    BY <1>1, <2>1, <2>2, <2>3
<1>3. copies' = copies \/ copies' = [copies EXCEPT ![t][h] = copies[t][h] + 1]
  BY DEF DeliversOrNot, Deliver
<1>4. copies \in [Tasks -> [Users -> Nat]]
  BY DEF TypeOK
<1>. HIDE DEF h
<1>5. \A u \in Users : u # h => copies'[t][u] = copies[t][u]
  BY <1>3, <1>4
<1>6. copies'[t][h] = copies[t][h] \/ copies'[t][h] = copies[t][h] + 1
  BY <1>1, <1>3, <1>4
<1>7. copies'[t][h] \in Nat /\ copies'[t][h] <= tries[t] + 1
  BY <1>2, <1>6
<1>. QED
  BY <1>5, <1>7 DEF h

LEMMA MailFinishes ==
  ASSUME TypeOK, MailInv, NEW t \in Tasks, Finishes(t) PROVE MailOK(t)'
<1>. DEFINE h == Head(queue[t])
            rest == Tail(queue[t])
<1>1. MailOK(t) /\ stage[t] = "send" /\ DeliversOrNot(t) /\ tries[t] \in 0 .. 2
  BY DEF Finishes, MailInv, TypeOK, Attempts
<1>2. /\ h \in Users /\ h \in Elements(queue[t]) /\ Distinct(rest)
      /\ Elements(rest) = Elements(queue[t]) \ {h}
      /\ rest = << >> => Elements(rest) = {}
  BY <1>1, RestOfQueue
<1>3. /\ \A u \in Users : u # h => copies'[t][u] = copies[t][u]
      /\ copies'[t][h] \in Nat /\ copies'[t][h] <= tries[t] + 1
  BY <1>1, MailDelivery
<1>4. /\ outcome'[t][h] \in {"sent", "error"}
      /\ \A u \in Users : u # h => outcome'[t][u] = outcome[t][u]
  BY <1>2 DEF Finishes, Returns, Log, TypeOK
<1>5. /\ queue'[t] = rest /\ tries'[t] = 0
      /\ stage'[t] = IF rest = << >> THEN "done" ELSE "send"
      /\ UNCHANGED <<placed, number, asked, dialled>>
  BY DEF Finishes, Returns, NextAddress, Goto, TypeOK, tables
<1>6. \A u \in Elements(queue[t]) : u \in Users
  BY DEF TypeOK, Elements
<1>. HIDE DEF h, rest
<1>7. Elements(queue'[t]) = Elements(queue[t]) \ {h} /\ Distinct(queue'[t])
  BY <1>2, <1>5
<1>8. /\ stage'[t] \in {"done", "send"}
      /\ stage'[t] = "done" => Elements(queue[t]) = {h}
  BY <1>2, <1>5
<1>9. \A u \in Elements(queue'[t]) : outcome'[t][u] = "none" /\ copies'[t][u] <= 0
  <2>1. \A u \in Elements(queue[t]) :
          outcome[t][u] = "none" /\ copies[t][u] <= IF u = h THEN tries[t] ELSE 0
    BY <1>1 DEF MailOK, h
  <2>. QED
    BY <1>3, <1>4, <1>6, <1>7, <2>1
<1>10. ASSUME NEW u \in Elements(queue'[t])
       PROVE  copies'[t][u] <= IF u = Head(queue'[t]) THEN tries'[t] ELSE 0
  BY <1>5, <1>9
<1>11. \A u \in Users : copies'[t][u] <= IF Kind(t) = "sms" THEN 1 ELSE Attempts
  BY <1>1, <1>3 DEF MailOK, Attempts
<1>12. Kind(t) = "admin" =>
         /\ Elements(queue[t]) \subseteq asked[t]
         /\ {u \in Users : outcome[t][u] # "none"} = asked[t] \ Elements(queue[t])
  BY <1>1 DEF MailOK
<1>13. {u \in Users : outcome'[t][u] # "none"} = {u \in Users : outcome[t][u] # "none"} \cup {h}
  BY <1>2, <1>4
<1>14. Kind(t) = "admin" =>
         /\ Elements(queue'[t]) \subseteq asked'[t]
         /\ {u \in Users : outcome'[t][u] # "none"} = asked'[t] \ Elements(queue'[t])
  BY <1>2, <1>5, <1>7, <1>12, <1>13
<1>15. stage'[t] = "done" => Elements(queue'[t]) = {}
  BY <1>7, <1>8
<1>16. /\ Kind(t)' = Kind(t) /\ Kind(t) # "sms" /\ t[1] \in placed' /\ dialled'[t] = << >>
  BY <1>1, <1>5 DEF MailOK, Kind
<1>17. stage'[t] = "done" /\ Kind(t) = "admin" =>
         {u \in Users : outcome'[t][u] # "none"} = asked'[t]
  BY <1>14, <1>15
<1>. QED
  BY <1>5, <1>7, <1>8, <1>9, <1>10, <1>11, <1>14, <1>16, <1>17 DEF MailOK, Early

LEMMA MailRetries ==
  ASSUME TypeOK, MailInv, NEW t \in Tasks, Retries(t) PROVE MailOK(t)'
<1>. DEFINE h == Head(queue[t])
<1>1. /\ MailOK(t) /\ stage[t] = "send" /\ DeliversOrNot(t)
      /\ tries[t] \in Nat /\ tries[t] + 1 < Attempts
  BY DEF Retries, MailInv, TypeOK
<1>2. /\ \A u \in Users : u # h => copies'[t][u] = copies[t][u]
      /\ copies'[t][h] \in Nat /\ copies'[t][h] <= tries[t] + 1
  BY <1>1, MailDelivery
<1>3. /\ tries'[t] = tries[t] + 1
      /\ UNCHANGED <<placed, stage, queue, number, asked, outcome, dialled>>
  BY DEF Retries, TypeOK, tables
<1>4. \A u \in Elements(queue[t]) : u \in Users
  BY DEF TypeOK, Elements
<1>5. ASSUME NEW u \in Elements(queue[t])
      PROVE  copies'[t][u] <= IF u = h THEN tries'[t] ELSE 0
  BY <1>1, <1>2, <1>3, <1>4, <1>5 DEF MailOK
<1>. HIDE DEF h
<1>6. Kind(t) # "sms"
  BY <1>1 DEF MailOK
<1>7. \A u \in Users : copies'[t][u] <= IF Kind(t) = "sms" THEN 1 ELSE Attempts
  BY <1>1, <1>2, <1>6 DEF MailOK, Attempts
<1>. QED
  BY <1>1, <1>3, <1>5, <1>7 DEF MailOK, Kind, Early, h

LEMMA MailSms ==
  ASSUME TypeOK, MailInv, NEW t \in Tasks, SendSms(t) PROVE MailOK(t)'
<1>. DEFINE u == Customer(t)
<1>1. /\ MailOK(t) /\ stage[t] = "sms" /\ Kind(t) = "sms" /\ u \in Users /\ queue[t] = << >>
  <2>1. MailOK(t) /\ stage[t] = "sms"
    BY DEF SendSms, MailInv
  <2>2. Kind(t) = "sms"
    BY <2>1 DEF MailOK
  <2>3. u \in Users
    BY NotificationsAssumption DEF Customer, Tasks
  <2>4. queue[t] = << >>
    BY <2>1 DEF TypeOK
  <2>. QED
    BY <2>1, <2>2, <2>3, <2>4
<1>2. /\ stage'[t] = "done" /\ dialled'[t] = FormatPhoneNumber(number[t])
      /\ UNCHANGED <<placed, queue, tries, number, asked>>
  BY DEF SendSms, Goto, TypeOK, tables, memory
<1>3. copies' = copies \/ copies' = [copies EXCEPT ![t][u] = copies[t][u] + 1]
  BY DEF SendSms, ProviderAnswers, Deliver
<1>4. copies \in [Tasks -> [Users -> Nat]] /\ \A v \in Users : copies[t][v] = 0
  BY <1>1 DEF TypeOK, MailOK, Early
<1>. HIDE DEF u
<1>5. \A v \in Users : copies'[t][v] <= 1
  BY <1>1, <1>3, <1>4
<1>6. Elements(queue'[t]) = {} /\ Distinct(queue'[t])
  <2>1. Elements(<< >>) = {} /\ Distinct(<< >>)
    <3>1. Len(<< >>) = 0
      OBVIOUS
    <3>. QED
      BY <3>1 DEF Elements, Distinct
  <2>. QED
    BY <1>1, <1>2, <2>1, Zenon
<1>. QED
  BY <1>1, <1>2, <1>5, <1>6 DEF MailOK, Kind, Early

LEMMA MailCrash == TypeOK /\ MailInv /\ Crash => MailInv'
<1>1. Elements(<< >>) = {} /\ Distinct(<< >>)
  <2>1. Len(<< >>) = 0
    OBVIOUS
  <2>. QED
    BY <2>1 DEF Elements, Distinct
<1>2. ASSUME TypeOK, MailInv, Crash, NEW t \in Tasks PROVE MailOK(t)'
  <2>1. /\ stage'[t] = IF Running(t) THEN "dead" ELSE stage[t]
        /\ queue'[t] = << >> /\ tries'[t] = 0
        /\ UNCHANGED <<placed, number, asked, world>>
    BY <1>2 DEF Crash, tables
  <2>2. Elements(queue'[t]) = {} /\ Distinct(queue'[t])
    BY <1>1, <2>1, Zenon
  <2>3. stage'[t] = "dead" \/ (stage'[t] = stage[t] /\ stage[t] \in {"idle", "done"})
    BY <1>2, <2>1 DEF Running
  <2>4. MailOK(t)
    BY <1>2 DEF MailInv
  <2>5. (t[1] \notin placed => stage[t] = "idle" /\ stage'[t] = "idle")
    BY <2>1, <2>4 DEF MailOK, Running
  <2>. QED
    BY <2>1, <2>2, <2>3, <2>4, <2>5 DEF MailOK, Kind, Early, world
<1>. QED
  BY <1>2 DEF MailInv

LEMMA MailStep ==
  ASSUME TypeOK, MailInv, [Next]_vars PROVE MailInv'
<1>1. CASE \E o \in Orders : PlaceOrder(o) \/ ChangeStatus(o)
  BY <1>1, MailPlace, MailChange
<1>2. ASSUME NEW t \in Tasks,
             Moves(t) \/ ReadAddress(t) \/ ReadSupers(t) \/ Finishes(t) \/ Retries(t) \/ SendSms(t)
      PROVE  MailInv'
  <2>1. OnlyOf(t)
    BY <1>2, WorkIsLocal
  <2>2. MailOK(t)'
    BY <1>2, MailMoves, MailReadAddress, MailReadSupers, MailFinishes, MailRetries, MailSms
  <2>. QED
    BY <2>1, <2>2, MailOthers
<1>3. CASE placed' = placed /\ UNCHANGED <<stage, memory, world>>
  <2>1. ASSUME NEW q \in Tasks PROVE MailOK(q)'
    BY <1>3, MailFrame DEF MailInv, Untouched, memory, world
  <2>. QED
    BY <2>1 DEF MailInv
<1>4. CASE Crash
  BY <1>4, MailCrash
<1>. QED
  BY <1>1, <1>2, <1>3, <1>4, NextCases

THEOREM IInvariant == Spec => []IInv
<1>1. Init => IInv
  BY TypeInit, MailInit DEF IInv
<1>2. IInv /\ [Next]_vars => IInv'
  BY TypeStep, MailStep DEF IInv
<1>. QED
  BY <1>1, <1>2, PTL DEF Spec

(* Every variable keeps its type; a task is sending exactly while there is *)
(* an address left in its queue, and none failed more than twice.          *)
THEOREM TypeCorrect == Spec => []TypeOK
<1>1. IInv => TypeOK
  BY DEF IInv
<1>. QED
  BY <1>1, IInvariant, PTL

(* At most three copies of an e-mail reach anybody, and one of an SMS,     *)
(* however many retries follow a delivery that was reported as an error    *)
(* and however many permissions name the same user (Mailer.Send,           *)
(* sendOrderNotificationToAdmins, SendOrderConfirmation).                  *)
THEOREM CopiesAreBoundedThm == Spec => []CopiesAreBounded
<1>1. IInv => CopiesAreBounded
  BY DEF IInv, MailInv, MailOK, CopiesAreBounded
<1>. QED
  BY <1>1, IInvariant, PTL

(* The administrators' task that came to its end has logged a result for   *)
(* exactly the users it read, the failure of one stopping no other.        *)
THEOREM EveryAdminIsTriedThm == Spec => []EveryAdminIsTried
<1>1. IInv => EveryAdminIsTried
  BY DEF IInv, MailInv, MailOK, EveryAdminIsTried
<1>. QED
  BY <1>1, IInvariant, PTL

(* The number an SMS goes to is the international form of the one the task *)
(* read, for every usual way of typing a Kenyan number (formatPhoneNumber).*)
THEOREM SmsIsInternationalThm == Spec => []SmsIsInternational
<1>1. ASSUME IInv, NEW t \in Tasks, dialled[t] # << >>, Usual(number[t])
      PROVE  LET c == Cleaned(number[t])
             IN  dialled[t] = Kenya \o SubSeq(c, Len(c) - 8, Len(c))
  <2>1. dialled[t] = FormatPhoneNumber(number[t])
    BY <1>1 DEF IInv, MailInv, MailOK
  <2>2. number[t] \in Phones
    BY <1>1 DEF IInv, TypeOK
  <2>3. Len(number[t]) \in Nat
    BY <2>2, NotificationsAssumption
  <2>. QED
    BY <1>1, <2>1, <2>3, FormatsUsual
<1>2. IInv => SmsIsInternational
  BY <1>1 DEF SmsIsInternational
<1>. QED
  BY <1>2, IInvariant, PTL
=============================================================================
