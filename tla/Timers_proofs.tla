----------------------------- MODULE Timers_proofs -----------------------------
(***************************************************************************)
(* Proofs about Timers, and so about RbTree, for every number of events,   *)
(* every width of the clock and all delays it can tell apart.              *)
(*                                                                         *)
(* The shape of a tree is a function u: u[a] is a and all that is below it.*)
(* Heights are a function h, the order is one by a rank d[a], which is the *)
(* time until a.  IsTree(t, d, T, kk) says that such u and h exist for the *)
(* nodes T with the keys kk; no lemma chooses them.  Fields are read with  *)
(* Top, Kid, Dad, Weight and Keys, which are expanded where a field is     *)
(* written and nowhere else.  What the loops need is a measure: how many   *)
(* nodes are below, or not below, where the loop is.                       *)
(***************************************************************************)
EXTENDS Timers, FiniteSetTheorems, WellFoundedInduction, TLAPS

-------------------------------------------------------------------------------
(* Loops.                                                                  *)

(* What holds of 0 and is handed on holds up to any number.                *)
LEMMA Steps ==
  ASSUME NEW top \in Nat, NEW S, 0 \in S, \A n \in 0 .. top - 1 : n \in S => n + 1 \in S
  PROVE  \A n \in 0 .. top : n \in S
<1> DEFINE D == {n \in 0 .. top : n \notin S}
<1> SUFFICES ASSUME D # {} PROVE FALSE
  OBVIOUS
<1>1. D \subseteq Nat
  OBVIOUS
<1>2. PICK m \in D : \A n \in D : <<n, m>> \notin OpToRel(<, Nat)
  BY <1>1, NatLessThanWellFounded, WFMin
<1>3. m \in 0 .. top /\ m # 0 /\ m - 1 \in 0 .. top - 1 /\ m - 1 + 1 = m
  OBVIOUS
<1>4. m - 1 \notin S
  BY <1>3
<1>5. m - 1 \in D /\ m - 1 < m /\ m \in Nat
  BY <1>3, <1>4
<1>6. <<m - 1, m>> \in OpToRel(<, Nat)
  BY <1>1, <1>5 DEF OpToRel
<1> QED BY <1>2, <1>5, <1>6

Size == Cardinality(Node)

(* What is there after each round of a loop.                               *)
Rounds(f, S, round, b) ==
  f \in [0 .. Size -> S] /\ f[0] = b /\ \A n \in 1 .. Size : f[n] = round[f[n - 1]]

LEMMA SizeType == Size \in Nat
BY RbTreeAssumption, FS_CardinalityType DEF Size

LEMMA RoundsExist ==
  ASSUME NEW S, NEW b \in S, NEW round \in [S -> S]
  PROVE  \E f : Rounds(f, S, round, b)
<1> USE SizeType
<1> DEFINE Rule(f, m) == f \in [0 .. m -> S] /\ f[0] = b /\ \A n \in 1 .. m : f[n] = round[f[n - 1]]
           Good == {m \in 0 .. Size : \E f \in [0 .. m -> S] : Rule(f, m)}
<1>1. 0 \in Good
  <2>1. PICK f \in [0 .. 0 -> S] : f = [n \in 0 .. 0 |-> b]
    OBVIOUS
  <2>2. Rule(f, 0) /\ 0 \in 0 .. Size
    BY <2>1
  <2> QED BY <2>2
<1>2. ASSUME NEW n \in 0 .. Size - 1, n \in Good PROVE n + 1 \in Good
  <2>1. PICK f \in [0 .. n -> S] : Rule(f, n)
    BY <1>2
  <2> DEFINE v == round[f[n]]
             g == [m \in 0 .. n + 1 |-> IF m = n + 1 THEN v ELSE f[m]]
  <2>2. v \in S
    <3>1. n \in 0 .. n /\ f[n] \in S
      OBVIOUS
    <3> QED BY <3>1
  <2> HIDE DEF v
  <2>3. g \in [0 .. n + 1 -> S]
    BY <2>2
  <2>4. g[0] = b
    BY <2>1
  <2>5. ASSUME NEW m \in 1 .. n + 1 PROVE g[m] = round[g[m - 1]]
    <3>1. CASE m = n + 1
      <4>1. g[m] = v /\ g[m - 1] = f[n]
        BY <3>1
      <4> QED BY <3>1, <4>1 DEF v
    <3>2. CASE m # n + 1
      <4>1. m \in 1 .. n /\ m - 1 \in 0 .. n /\ m - 1 # n + 1
        BY <3>2
      <4>2. g[m] = f[m] /\ g[m - 1] = f[m - 1]
        BY <4>1
      <4> QED BY <2>1, <4>1, <4>2
    <3> QED BY <3>1, <3>2
  <2>6. Rule(g, n + 1)
    BY <2>3, <2>4, <2>5
  <2>7. n + 1 \in 0 .. Size
    OBVIOUS
  <2> HIDE DEF g
  <2> QED BY <2>3, <2>6, <2>7
<1>3. Size \in Good
  <2> HIDE DEF Good
  <2>1. \A n \in 0 .. Size : n \in Good
    BY <1>1, <1>2, Steps
  <2> QED BY <2>1
<1> QED BY <1>3 DEF Rounds

(* The rounds of a loop end with what the loop returns.                    *)
LEMMA LoopRounds ==
  ASSUME NEW S, NEW b \in S, NEW round \in [S -> S]
  PROVE  \E f : Rounds(f, S, round, b) /\ Loop(round, b) = f[Size]
<1> USE SizeType
<1> DEFINE Rule(g) == g = [k \in 0 .. Cardinality(Node) |-> IF k = 0 THEN b ELSE round[g[k - 1]]]
<1>1. PICK f : Rounds(f, S, round, b)
  BY RoundsExist
<1>2. Rule(f)
  <2>1. \A k \in 0 .. Size : f[k] = IF k = 0 THEN b ELSE round[f[k - 1]]
    BY <1>1 DEF Rounds
  <2>2. f = [k \in 0 .. Size |-> f[k]]
    BY <1>1 DEF Rounds
  <2> QED BY <2>1, <2>2 DEF Size
<1>3. After(round, b) = CHOOSE g : Rule(g)
  BY DEF After
<1>4. Rule(After(round, b))
  BY <1>2, <1>3
<1> DEFINE g == After(round, b)
           Same == {n \in 0 .. Size : g[n] = f[n]}
<1> HIDE DEF g
<1>5. g[0] = b /\ \A n \in 1 .. Size : g[n] = round[g[n - 1]]
  BY <1>4 DEF g, Size
<1>6. 0 \in Same
  BY <1>1, <1>5 DEF Rounds
<1>7. ASSUME NEW n \in 0 .. Size - 1, n \in Same PROVE n + 1 \in Same
  <2>1. n + 1 \in 1 .. Size /\ n + 1 - 1 = n /\ n + 1 \in 0 .. Size
    OBVIOUS
  <2>2. g[n + 1] = round[g[n]]
    BY <1>5, <2>1
  <2>3. f[n + 1] = round[f[n]]
    BY <1>1, <2>1 DEF Rounds
  <2> QED BY <1>7, <2>1, <2>2, <2>3
<1> HIDE DEF Same
<1>8. \A n \in 0 .. Size : n \in Same
  BY <1>6, <1>7, Steps
<1>9. Loop(round, b) = f[Size]
  BY <1>8 DEF Same, g, Loop, Size
<1> QED BY <1>1, <1>9

(* What every round keeps is kept by a loop.                               *)
LEMMA LoopKeeps ==
  ASSUME NEW S, NEW round \in [S -> S], NEW J, J \subseteq S, NEW b \in J, \A x \in J : round[x] \in J
  PROVE  Loop(round, b) \in J
<1> USE SizeType
<1>1. PICK f : Rounds(f, S, round, b) /\ Loop(round, b) = f[Size]
  BY LoopRounds
<1> DEFINE Good == {n \in 0 .. Size : f[n] \in J}
<1>2. 0 \in Good
  BY <1>1 DEF Rounds
<1>3. ASSUME NEW n \in 0 .. Size - 1, n \in Good PROVE n + 1 \in Good
  <2>1. n + 1 \in 1 .. Size /\ n + 1 - 1 = n /\ n + 1 \in 0 .. Size
    OBVIOUS
  <2> QED BY <1>1, <1>3, <2>1 DEF Rounds
<1> HIDE DEF Good
<1>4. \A n \in 0 .. Size : n \in Good
  BY <1>2, <1>3, Steps
<1> QED BY <1>1, <1>4 DEF Good

(* A loop whose rounds end or have a number that grows, up to the number   *)
(* of the nodes, ends.                                                     *)
Ends(S, round, F, G) ==
  /\ round \in [S -> S] /\ F \in SUBSET S /\ \A x \in F : round[x] = x
  /\ \A x \in S : \A k \in 1 .. Size :
       <<x, k>> \in G => round[x] \in F \/ \E j \in 1 .. Size : j > k /\ <<round[x], j>> \in G

LEMMA LoopEnds ==
  ASSUME NEW S, NEW round, NEW F, NEW G, Ends(S, round, F, G),
         NEW b \in S, NEW first \in 1 .. Size, <<b, first>> \in G
  PROVE  Loop(round, b) \in F
<1> USE SizeType DEF Ends
<1>1. PICK f : Rounds(f, S, round, b) /\ Loop(round, b) = f[Size]
  BY LoopRounds
<1> DEFINE Good == {n \in 0 .. Size : f[n] \in F \/ \E k \in 1 .. Size : k > n /\ <<f[n], k>> \in G}
<1>2. 0 \in Good
  <2>1. f[0] = b /\ first > 0
    BY <1>1 DEF Rounds
  <2> QED BY <2>1
<1>3. ASSUME NEW n \in 0 .. Size - 1, n \in Good PROVE n + 1 \in Good
  <2>1. n + 1 \in 1 .. Size /\ n + 1 - 1 = n /\ n + 1 \in 0 .. Size /\ n \in 0 .. Size
    OBVIOUS
  <2>2. f[n + 1] = round[f[n]] /\ f[n] \in S
    BY <1>1, <2>1 DEF Rounds
  <2>3. CASE f[n] \in F
    BY <2>1, <2>2, <2>3
  <2>4. CASE f[n] \notin F
    <3>1. PICK k \in 1 .. Size : k > n /\ <<f[n], k>> \in G
      BY <1>3, <2>4
    <3>2. CASE round[f[n]] \in F
      BY <3>2, <2>1, <2>2
    <3>3. CASE \E j \in 1 .. Size : j > k /\ <<round[f[n]], j>> \in G
      <4>1. PICK j \in 1 .. Size : j > k /\ <<round[f[n]], j>> \in G
        BY <3>3
      <4>2. j > n + 1
        BY <3>1, <4>1
      <4> QED BY <2>1, <2>2, <4>1, <4>2
    <3> QED BY <2>2, <3>1, <3>2, <3>3
  <2> QED BY <2>3, <2>4
<1> HIDE DEF Good
<1>4. \A n \in 0 .. Size : n \in Good
  BY <1>2, <1>3, Steps
<1>5. f[Size] \in F \/ \E k \in 1 .. Size : k > Size
  <2>1. Size \in Good
    BY <1>4
  <2> QED BY <2>1 DEF Good
<1> QED BY <1>1, <1>5

-------------------------------------------------------------------------------
(* The fields of a tree, each read through a name of its own.              *)
Top(t) == t.root
Kid(t, s, a) == t.child[s][a]
Dad(t, a) == t.parent[a]
Weight(t, a) == IF t.red[a] THEN 0 ELSE 1
Keys(t) == t.key

LEMMA Sides ==
  /\ \A s \in Side : Other(s) \in Side /\ Other(Other(s)) = s /\ Other(s) # s /\ \A z \in Side : z = s \/ z = Other(s)
  /\ "left" \in Side /\ "right" \in Side /\ \A t, n : SideOf(t, n) \in Side
  /\ Other("left") = "right" /\ Other("right") = "left"
  /\ \A s \in Side : s = "left" \/ s = "right"
BY DEF Side, Other, SideOf

LEMMA Fields ==
  ASSUME NEW t \in Tree
  PROVE  /\ Top(t) \in Ptr
         /\ \A s \in Side, a \in Ptr : Kid(t, s, a) \in Ptr
         /\ \A a \in Ptr : Dad(t, a) \in Ptr /\ Weight(t, a) \in {0, 1}
         /\ Keys(t) \in [Ptr -> Key]
         /\ \A a \in Ptr : SideOf(t, a) \in Side /\ \A s \in Side : Kid(t, s, Dad(t, a)) = a => Kid(t, SideOf(t, a), Dad(t, a)) = a
<1>1. ASSUME NEW a \in Ptr, NEW s \in Side, Kid(t, s, Dad(t, a)) = a PROVE Kid(t, SideOf(t, a), Dad(t, a)) = a
  <2>1. CASE a = Kid(t, "left", Dad(t, a))
    BY <2>1 DEF SideOf, Kid, Dad
  <2>2. CASE a # Kid(t, "left", Dad(t, a))
    <3>1. SideOf(t, a) = "right"
      BY <2>2 DEF SideOf, Kid, Dad
    <3>2. s = "right"
      BY <1>1, <2>2 DEF Side
    <3> QED BY <1>1, <3>1, <3>2
  <2> QED BY <2>1, <2>2
<1>2. Top(t) \in Ptr /\ Keys(t) \in [Ptr -> Key]
  BY DEF Tree, Top, Keys
<1>3. ASSUME NEW s \in Side, NEW a \in Ptr PROVE Kid(t, s, a) \in Ptr
  BY DEF Tree, Kid
<1>4. ASSUME NEW a \in Ptr PROVE Dad(t, a) \in Ptr /\ Weight(t, a) \in {0, 1}
  BY DEF Tree, Dad, Weight
<1> QED BY <1>1, <1>2, <1>3, <1>4, Sides

(* One field is written.                                                   *)
PutChild(t, s, n, m) == [t EXCEPT !.child[s][n] = m]
PutParent(t, n, m) == [t EXCEPT !.parent[n] = m]
PutRoot(t, m) == [t EXCEPT !.root = m]
PutKey(t, n, m) == [t EXCEPT !.key[n] = m]

ChildIs(v, t, s, n, m) ==
  /\ v \in Tree /\ Top(v) = Top(t) /\ Keys(v) = Keys(t) /\ Kid(v, s, n) = m
  /\ \A z \in Side, a \in Ptr : (z # s \/ a # n) => Kid(v, z, a) = Kid(t, z, a)
  /\ \A a \in Ptr : Dad(v, a) = Dad(t, a) /\ Weight(v, a) = Weight(t, a)

LEMMA ChildPut ==
  ASSUME NEW t \in Tree, NEW s \in Side, NEW n \in Ptr, NEW m \in Ptr
  PROVE  ChildIs(PutChild(t, s, n, m), t, s, n, m)
BY DEF Tree, Side, PutChild, Top, Kid, Dad, Weight, Keys, ChildIs

ParentIs(v, t, n, m) ==
  /\ v \in Tree /\ Top(v) = Top(t) /\ Keys(v) = Keys(t) /\ Dad(v, n) = m
  /\ \A z \in Side, a \in Ptr : Kid(v, z, a) = Kid(t, z, a)
  /\ \A a \in Ptr : Weight(v, a) = Weight(t, a) /\ (a # n => Dad(v, a) = Dad(t, a))

LEMMA ParentPut ==
  ASSUME NEW t \in Tree, NEW n \in Ptr, NEW m \in Ptr
  PROVE  ParentIs(PutParent(t, n, m), t, n, m)
BY DEF Tree, PutParent, Top, Kid, Dad, Weight, Keys, ParentIs

Blackened(t, n) == Painted(t, n, FALSE)
Reddened(t, n) == Painted(t, n, TRUE)

WeightIs(v, t, n, m) ==
  /\ v \in Tree /\ Top(v) = Top(t) /\ Keys(v) = Keys(t) /\ Weight(v, n) = m
  /\ \A z \in Side, a \in Ptr : Kid(v, z, a) = Kid(t, z, a)
  /\ \A a \in Ptr : Dad(v, a) = Dad(t, a) /\ (a # n => Weight(v, a) = Weight(t, a))

LEMMA WeightPut ==
  ASSUME NEW t \in Tree, NEW n \in Ptr
  PROVE  WeightIs(Blackened(t, n), t, n, 1) /\ WeightIs(Reddened(t, n), t, n, 0)
BY DEF Tree, Painted, Blackened, Reddened, Top, Kid, Dad, Weight, Keys, WeightIs

RootIs(v, t, m) ==
  /\ v \in Tree /\ Top(v) = m /\ Keys(v) = Keys(t)
  /\ \A z \in Side, a \in Ptr : Kid(v, z, a) = Kid(t, z, a)
  /\ \A a \in Ptr : Dad(v, a) = Dad(t, a) /\ Weight(v, a) = Weight(t, a)

LEMMA RootPut ==
  ASSUME NEW t \in Tree, NEW m \in Ptr
  PROVE  RootIs(PutRoot(t, m), t, m)
BY DEF Tree, PutRoot, Top, Kid, Dad, Weight, Keys, RootIs

KeyIs(v, t, n, m) ==
  /\ v \in Tree /\ Top(v) = Top(t) /\ Keys(v) = [Keys(t) EXCEPT ![n] = m]
  /\ \A z \in Side, a \in Ptr : Kid(v, z, a) = Kid(t, z, a)
  /\ \A a \in Ptr : Dad(v, a) = Dad(t, a) /\ Weight(v, a) = Weight(t, a)

LEMMA KeyPut ==
  ASSUME NEW t \in Tree, NEW n \in Ptr, NEW m \in Key
  PROVE  KeyIs(PutKey(t, n, m), t, n, m)
BY DEF Tree, PutKey, Top, Kid, Dad, Weight, Keys, KeyIs

HungIs(v, t, old, n) ==
  /\ v \in Tree /\ Keys(v) = Keys(t)
  /\ \A a \in Ptr : Dad(v, a) = Dad(t, a) /\ Weight(v, a) = Weight(t, a)
  /\ Top(v) = IF old = Top(t) THEN n ELSE Top(t)
  /\ old # Top(t) => Kid(v, SideOf(t, old), Dad(t, old)) = n
  /\ \A z \in Side, a \in Ptr :
       (old = Top(t) \/ z # SideOf(t, old) \/ a # Dad(t, old)) => Kid(v, z, a) = Kid(t, z, a)

LEMMA Hung ==
  ASSUME NEW t \in Tree, NEW old \in Ptr, NEW n \in Ptr
  PROVE  HungIs(Hang(t, old, n), t, old, n)
<1>1. CASE old = Top(t)
  <2>1. Hang(t, old, n) = PutRoot(t, n)
    BY <1>1 DEF Hang, PutRoot, Top
  <2> QED BY <1>1, <2>1, RootPut DEF RootIs, HungIs
<1>2. CASE old # Top(t)
  <2>1. SideOf(t, old) \in Side /\ Dad(t, old) \in Ptr
    BY Fields, Sides
  <2>2. Hang(t, old, n) = PutChild(t, SideOf(t, old), Dad(t, old), n)
    BY <1>2 DEF Hang, PutChild, Top, Dad
  <2> QED BY <1>2, <2>1, <2>2, ChildPut DEF ChildIs, HungIs
<1> QED BY <1>1, <1>2

AdoptIs(v, t, n, p) ==
  /\ v \in Tree /\ Top(v) = Top(t) /\ Keys(v) = Keys(t)
  /\ \A z \in Side, a \in Ptr : Kid(v, z, a) = Kid(t, z, a)
  /\ n # Sentinel => Dad(v, n) = p
  /\ \A a \in Ptr : Weight(v, a) = Weight(t, a) /\ (n = Sentinel \/ a # n => Dad(v, a) = Dad(t, a))

LEMMA Adopted ==
  ASSUME NEW t \in Tree, NEW n \in Ptr, NEW p \in Ptr
  PROVE  AdoptIs(Adopt(t, n, p), t, n, p)
<1>1. CASE n = Sentinel
  BY <1>1 DEF Adopt, AdoptIs
<1>2. CASE n # Sentinel
  <2>1. Adopt(t, n, p) = PutParent(t, n, p)
    BY <1>2 DEF Adopt, PutParent
  <2> QED BY <1>2, <2>1, ParentPut DEF ParentIs, AdoptIs
<1> QED BY <1>1, <1>2

RotateIs(v, t, s, n) ==
  LET y == Kid(t, Other(s), n)
      x == Kid(t, s, y)
  IN /\ v \in Tree /\ Keys(v) = Keys(t) /\ \A a \in Ptr : Weight(v, a) = Weight(t, a)
     /\ Top(v) = IF n = Top(t) THEN y ELSE Top(t)
     /\ Kid(v, Other(s), n) = x /\ Kid(v, s, n) = Kid(t, s, n)
     /\ Kid(v, s, y) = n /\ Kid(v, Other(s), y) = Kid(t, Other(s), y)
     /\ n # Top(t) => /\ Kid(v, SideOf(t, n), Dad(t, n)) = y
                      /\ Kid(v, Other(SideOf(t, n)), Dad(t, n)) = Kid(t, Other(SideOf(t, n)), Dad(t, n))
     /\ \A z \in Side, a \in Ptr : a # n /\ a # y /\ (n # Top(t) => a # Dad(t, n)) => Kid(v, z, a) = Kid(t, z, a)
     /\ x = n \/ Dad(v, n) = y
     /\ (x = y /\ x # Sentinel) \/ Dad(v, y) = Dad(t, n)
     /\ x # Sentinel => Dad(v, x) = n
     /\ \A a \in Ptr : a # n /\ a # y /\ (a = Sentinel \/ a # x) => Dad(v, a) = Dad(t, a)

LEMMA Rotated ==
  ASSUME NEW t \in Tree, NEW s \in Side, NEW n \in Ptr, n # Kid(t, Other(s), n),
         n # Top(t) => Dad(t, n) # n /\ Dad(t, n) # Kid(t, Other(s), n)
  PROVE  RotateIs(Rotate(t, s, n), t, s, n)
<1> DEFINE o == Other(s)
           y == Kid(t, Other(s), n)
           x == Kid(t, s, y)
           v == Rotate(t, s, n)
           b == Hang(t, n, y)
           c1 == PutChild(b, o, n, x)
           c2 == PutChild(c1, s, y, n)
           c3 == PutParent(c2, y, Dad(t, n))
           c4 == PutParent(c3, n, y)
<1>1. o \in Side /\ o # s /\ Other(s) = o /\ \A z \in Side : z = s \/ z = o
  BY Sides
<1>2. y \in Ptr /\ x \in Ptr /\ Dad(t, n) \in Ptr /\ SideOf(t, n) \in Side /\ Other(SideOf(t, n)) \in Side
      /\ SideOf(t, n) # Other(SideOf(t, n)) /\ Top(t) \in Ptr
  BY Fields, <1>1, Sides
<1>3. v = Adopt(c4, x, n)
  BY DEF Rotate, PutChild, PutParent, Kid, Dad
<1> HIDE DEF o, b, c1, c2, c3, c4, y, x, v
<1>0. n # y /\ (n # Top(t) => Dad(t, n) # n /\ Dad(t, n) # y)
  BY DEF y
<1>4. HungIs(b, t, n, y)
  BY <1>2, Hung DEF b
<1>5. b \in Tree /\ ChildIs(c1, b, o, n, x)
  <2>1. b \in Tree
    BY <1>4 DEF HungIs
  <2> QED BY <1>1, <1>2, <2>1, ChildPut DEF c1
<1>6. c1 \in Tree /\ ChildIs(c2, c1, s, y, n)
  <2>1. c1 \in Tree
    BY <1>5 DEF ChildIs
  <2> QED BY <1>2, <2>1, ChildPut DEF c2
<1>7. c2 \in Tree /\ ParentIs(c3, c2, y, Dad(t, n))
  <2>1. c2 \in Tree
    BY <1>6 DEF ChildIs
  <2> QED BY <1>2, <2>1, ParentPut DEF c3
<1>8. c3 \in Tree /\ ParentIs(c4, c3, n, y)
  <2>1. c3 \in Tree
    BY <1>7 DEF ParentIs
  <2> QED BY <1>2, <2>1, ParentPut DEF c4
<1>9. AdoptIs(v, c4, x, n)
  <2>1. c4 \in Tree
    BY <1>8 DEF ParentIs
  <2> QED BY <1>2, <1>3, <2>1, Adopted
<1> USE DEF HungIs, ChildIs, ParentIs, AdoptIs
<1>10. v \in Tree /\ Keys(v) = Keys(t) /\ Top(v) = (IF n = Top(t) THEN y ELSE Top(t)) /\ \A a \in Ptr : Weight(v, a) = Weight(t, a)
  BY <1>4, <1>5, <1>6, <1>7, <1>8, <1>9
<1>11. Kid(v, o, n) = x /\ Kid(v, s, y) = n
  BY <1>1, <1>2, <1>5, <1>6, <1>7, <1>8, <1>9
<1>12. \A z \in Side, a \in Ptr : (z # o \/ a # n) /\ (z # s \/ a # y) => Kid(v, z, a) = Kid(b, z, a)
  BY <1>5, <1>6, <1>7, <1>8, <1>9
<1>13. Kid(v, s, n) = Kid(t, s, n) /\ Kid(v, o, y) = Kid(t, o, y)
  BY <1>0, <1>1, <1>2, <1>4, <1>12
<1>14. n # Top(t) => /\ Kid(v, SideOf(t, n), Dad(t, n)) = y
                     /\ Kid(v, Other(SideOf(t, n)), Dad(t, n)) = Kid(t, Other(SideOf(t, n)), Dad(t, n))
  BY <1>0, <1>2, <1>4, <1>12
<1>15. \A z \in Side, a \in Ptr : a # n /\ a # y /\ (n # Top(t) => a # Dad(t, n)) => Kid(v, z, a) = Kid(t, z, a)
  BY <1>4, <1>12
<1>16. /\ x = n \/ Dad(v, n) = y
       /\ (x = y /\ x # Sentinel) \/ Dad(v, y) = Dad(t, n)
       /\ x # Sentinel => Dad(v, x) = n
       /\ \A a \in Ptr : a # n /\ a # y /\ (a = Sentinel \/ a # x) => Dad(v, a) = Dad(t, a)
  BY <1>0, <1>2, <1>4, <1>5, <1>6, <1>7, <1>8, <1>9
<1> QED BY <1>1, <1>10, <1>11, <1>13, <1>14, <1>15, <1>16 DEF v, y, x, o, RotateIs

-------------------------------------------------------------------------------
(* The shape: u[a] is a and all that is below it.                          *)
Sub(u, a) == u[a]
All(t, u) == Sub(u, Top(t))
Subs == [Ptr -> SUBSET Node]

(* Children know their parents.                                            *)
Down(t, u) ==
  \A a \in All(t, u), s \in Side :
    Kid(t, s, a) # Sentinel => /\ Kid(t, s, a) \in All(t, u) /\ Dad(t, Kid(t, s, a)) = a
                               /\ Kid(t, s, a) \in Sub(u, Kid(t, s, a))

(* A node and what is below its children, apart.                           *)
Parts(t, u) ==
  \A a \in All(t, u), s \in Side :
    /\ \A b : b \in Sub(u, a) <=> b = a \/ b \in Sub(u, Kid(t, s, a)) \/ b \in Sub(u, Kid(t, Other(s), a))
    /\ a \notin Sub(u, Kid(t, s, a))
    /\ \A b \in Sub(u, Kid(t, s, a)) : b \notin Sub(u, Kid(t, Other(s), a))

Nested(t, u) ==
  \A a \in All(t, u) : \A b \in Sub(u, a) : (\A c \in Sub(u, b) : c \in Sub(u, a)) /\ (b # a => Dad(t, b) \in Sub(u, a))

(* Parents know their children.                                            *)
Upward(t, u) ==
  \A a \in All(t, u) : a # Top(t) => Dad(t, a) \in All(t, u) /\ Kid(t, SideOf(t, a), Dad(t, a)) = a

Shape(t, u) ==
  /\ t \in Tree /\ u \in Subs /\ (\A b : b \notin Sub(u, Sentinel)) /\ (Top(t) # Sentinel => Top(t) \in All(t, u))
  /\ Down(t, u) /\ Parts(t, u) /\ Nested(t, u) /\ Upward(t, u)

LEMMA SubIsNodes ==
  ASSUME NEW u \in Subs, NEW a \in Ptr
  PROVE  Sub(u, a) \in SUBSET Node /\ \A b \in Sub(u, a) : b \in Node /\ b \in Ptr /\ b # Sentinel
BY RbTreeAssumption DEF Sub, Subs, Ptr

(* What follows from it about one node.                                    *)
NodeFacts(t, u, a) ==
  /\ a \in Node /\ a \in Ptr /\ a # Sentinel /\ a \in Sub(u, a) /\ \A b \in Sub(u, a) : b \in All(t, u)
  /\ Top(t) \in Sub(u, a) => a = Top(t)
  /\ \A s \in Side :
       /\ \A b \in Sub(u, Kid(t, s, a)) : b \in All(t, u) /\ b \in Sub(u, a)
       /\ Kid(t, s, a) # Sentinel => /\ Kid(t, s, a) # Top(t) /\ Kid(t, s, a) # a /\ SideOf(t, Kid(t, s, a)) = s
                                     /\ Kid(t, Other(s), a) # Kid(t, s, a) /\ Kid(t, s, a) \in Sub(u, a)
  /\ a # Top(t) => /\ Dad(t, a) # a /\ a \in Sub(u, Dad(t, a)) /\ Dad(t, a) \notin Sub(u, a)
                   /\ \A b \in Sub(u, a) : b \in Sub(u, Dad(t, a))

LEMMA ShapeFacts ==
  ASSUME NEW t, NEW u, Shape(t, u)
  PROVE  /\ t \in Tree /\ Top(t) \in Ptr /\ u \in Subs
         /\ \A a \in All(t, u) : NodeFacts(t, u, a)
<1> USE DEF Shape
<1>1. t \in Tree /\ Top(t) \in Ptr /\ u \in Subs
  BY Fields
<1>2. ASSUME NEW a \in All(t, u) PROVE NodeFacts(t, u, a)
  <2>1. a \in Node /\ a \in Ptr /\ a # Sentinel
    BY <1>1, SubIsNodes DEF All
  <2>2. a \in Sub(u, a)
    BY Sides DEF Parts
  <2>3. \A b \in Sub(u, a) : b \in All(t, u)
    BY <2>2 DEF Nested, All
  <2>4. ASSUME Top(t) \in Sub(u, a) PROVE a = Top(t)
    <3>0. SUFFICES ASSUME a # Top(t) PROVE FALSE
      OBVIOUS
    <3>1. Top(t) \in All(t, u)
      BY <2>3, <2>4
    <3>2. PICK s \in Side : a \in Sub(u, Kid(t, s, Top(t)))
      <4>1. "left" \in Side /\ Other("left") \in Side
        BY Sides
      <4> QED BY <3>0, <3>1, <4>1 DEF Parts, All
    <3>3. Top(t) \in Sub(u, Kid(t, s, Top(t)))
      <4>1. Kid(t, s, Top(t)) # Sentinel
        BY <3>2
      <4> QED BY <2>4, <3>1, <3>2, <4>1 DEF Down, Nested
    <3> QED BY <3>1, <3>3 DEF Parts
  <2>5. ASSUME NEW s \in Side PROVE \A b \in Sub(u, Kid(t, s, a)) : b \in All(t, u) /\ b \in Sub(u, a)
    BY <2>3 DEF Parts
  <2>6. ASSUME NEW s \in Side, Kid(t, s, a) # Sentinel
        PROVE  Kid(t, s, a) # Top(t) /\ Kid(t, s, a) # a /\ Kid(t, Other(s), a) # Kid(t, s, a) /\ Kid(t, s, a) \in Sub(u, a)
    <3>1. Kid(t, s, a) \in All(t, u) /\ Kid(t, s, a) \in Sub(u, Kid(t, s, a))
      BY <2>6 DEF Down
    <3>2. Kid(t, s, a) \in Sub(u, a) /\ Kid(t, s, a) # a
      BY <3>1 DEF Parts
    <3>3. Kid(t, Other(s), a) # Kid(t, s, a)
      BY <3>1 DEF Parts
    <3>4. Kid(t, s, a) # Top(t)
      BY <2>4, <3>2
    <3> QED BY <3>2, <3>3, <3>4
  <2>7. ASSUME NEW s \in Side, Kid(t, s, a) # Sentinel PROVE SideOf(t, Kid(t, s, a)) = s
    <3>1. Dad(t, Kid(t, s, a)) = a
      BY <2>7 DEF Down
    <3>2. SideOf(t, Kid(t, s, a)) = IF Kid(t, s, a) = Kid(t, "left", a) THEN "left" ELSE "right"
      BY <3>1 DEF SideOf, Kid, Dad
    <3>3. s = "left" \/ (s = "right" /\ Other(s) = "left")
      BY Sides
    <3> QED BY <2>6, <2>7, <3>2, <3>3
  <2>8. ASSUME a # Top(t)
        PROVE  /\ Dad(t, a) # a /\ a \in Sub(u, Dad(t, a)) /\ Dad(t, a) \notin Sub(u, a)
               /\ \A b \in Sub(u, a) : b \in Sub(u, Dad(t, a))
    <3> DEFINE p == Dad(t, a)
               s == SideOf(t, a)
    <3>1. p \in All(t, u) /\ Kid(t, s, p) = a /\ s \in Side
      BY <2>8, Sides DEF Upward
    <3> HIDE DEF p, s
    <3>2. p \notin Sub(u, a) /\ \A b \in Sub(u, a) : b \in Sub(u, p)
      BY <3>1 DEF Parts
    <3> QED BY <2>2, <3>2 DEF p
  <2> QED BY <2>1, <2>2, <2>3, <2>4, <2>5, <2>6, <2>7, <2>8 DEF NodeFacts
<1> QED BY <1>1, <1>2

-------------------------------------------------------------------------------
(* Rotation.                                                               *)
TurnU(u, n, y, low) == [u EXCEPT ![y] = u[n], ![n] = low]

TurnIs(w, u, n, y, low) ==
  /\ w \in Subs /\ Sub(w, n) = low /\ Sub(w, y) = Sub(u, n)
  /\ \A a \in Ptr : a # n /\ a # y => Sub(w, a) = Sub(u, a)

LEMMA TurnedU ==
  ASSUME NEW u \in Subs, NEW n \in Ptr, NEW y \in Ptr, n # y, NEW low \in SUBSET Node
  PROVE  TurnIs(TurnU(u, n, y, low), u, n, y, low)
BY DEF TurnIs, TurnU, Subs, Sub

LEMMA RotateShape ==
  ASSUME NEW t, NEW u, Shape(t, u), NEW s \in Side, NEW n \in All(t, u), Kid(t, Other(s), n) # Sentinel,
         NEW v, RotateIs(v, t, s, n), NEW w, NEW low,
         TurnIs(w, u, n, Kid(t, Other(s), n), low),
         \A b : b \in low <=> b = n \/ b \in Sub(u, Kid(t, s, n)) \/ b \in Sub(u, Kid(t, s, Kid(t, Other(s), n)))
  PROVE  Shape(v, w) /\ All(v, w) = All(t, u)
<1> DEFINE o == Other(s)
           y == Kid(t, o, n)
           x == Kid(t, s, y)
           A == Kid(t, s, n)
           C == Kid(t, o, y)
           p == Dad(t, n)
           r == SideOf(t, n)
           T == All(t, u)
<1>1. o \in Side /\ o # s /\ Other(o) = s /\ (\A z \in Side : z = s \/ z = o)
  BY Sides
<1>2. t \in Tree /\ Top(t) \in Ptr /\ u \in Subs /\ Down(t, u) /\ Parts(t, u) /\ Nested(t, u) /\ Upward(t, u)
      /\ (\A b : b \notin Sub(u, Sentinel)) /\ \A a \in All(t, u) : NodeFacts(t, u, a)
  BY ShapeFacts DEF Shape
<1>3. n # Sentinel /\ n \in Ptr /\ y \in T /\ Dad(t, y) = n /\ y # n /\ y # Top(t) /\ y # Sentinel /\ y \in Ptr /\ A # y
      /\ y \in Sub(u, n) /\ n \notin Sub(u, y)
  BY <1>1, <1>2 DEF NodeFacts, Down, Parts
<1>4. x \in Ptr /\ A \in Ptr /\ C \in Ptr /\ p \in Ptr /\ r \in Side
  BY <1>1, <1>2, <1>3, Fields
<1>5. x # Sentinel => x \in T /\ Dad(t, x) = y /\ x # n /\ x # y /\ x # Top(t) /\ x # C /\ x # A
  <2>1. x # Sentinel => x \in T /\ Dad(t, x) = y /\ x # y /\ x # Top(t) /\ x # C
    BY <1>1, <1>2, <1>3 DEF NodeFacts, Down
  <2>2. x # Sentinel => x # n
    BY <1>1, <1>2, <1>3 DEF Down, Parts
  <2>3. x # Sentinel => x # A
    BY <1>1, <1>2, <1>3, <2>1 DEF Down
  <2> QED BY <2>1, <2>2, <2>3
<1>6. A # Sentinel => A \in T /\ Dad(t, A) = n /\ A # n /\ A # Top(t)
  BY <1>1, <1>2, <1>3 DEF NodeFacts, Down
<1>7. C # Sentinel => C \in T /\ Dad(t, C) = y /\ C # n /\ C # y /\ C # Top(t)
  <2>1. C # Sentinel => C \in T /\ Dad(t, C) = y /\ C # y /\ C # Top(t)
    BY <1>1, <1>2, <1>3 DEF NodeFacts, Down
  <2>2. C # Sentinel => C # n
    BY <1>1, <1>2, <1>3 DEF Down, Parts
  <2> QED BY <2>1, <2>2
<1>8. n # Top(t) => /\ p \in T /\ Kid(t, r, p) = n /\ p # n /\ p # y /\ p # x /\ p # A /\ p # C
                    /\ n \in Sub(u, p) /\ p \notin Sub(u, n)
  <2>1. n # Top(t) => p \in T /\ Kid(t, r, p) = n /\ p # n /\ p \notin Sub(u, n) /\ n \in Sub(u, p)
    BY <1>2 DEF NodeFacts, Upward
  <2>2. x # Sentinel => x \in Sub(u, n)
    BY <1>1, <1>2, <1>3 DEF NodeFacts
  <2>3. A # Sentinel => A \in Sub(u, n)
    BY <1>1, <1>2, <1>3 DEF NodeFacts
  <2>4. C # Sentinel => C \in Sub(u, n)
    BY <1>1, <1>2, <1>3 DEF NodeFacts
  <2>5. p # Sentinel \/ n = Top(t)
    BY <1>2, <2>1 DEF NodeFacts
  <2> QED BY <1>3, <2>1, <2>2, <2>3, <2>4, <2>5
<1>9. /\ v \in Tree /\ Top(v) = IF n = Top(t) THEN y ELSE Top(t)
      /\ Kid(v, o, n) = x /\ Kid(v, s, n) = A /\ Kid(v, s, y) = n /\ Kid(v, o, y) = C
      /\ n # Top(t) => Kid(v, r, p) = y /\ Kid(v, Other(r), p) = Kid(t, Other(r), p)
      /\ \A z \in Side, a \in Ptr : a # n /\ a # y /\ (n # Top(t) => a # p) => Kid(v, z, a) = Kid(t, z, a)
      /\ Dad(v, n) = y /\ Dad(v, y) = p /\ (x # Sentinel => Dad(v, x) = n)
      /\ \A a \in Ptr : a # n /\ a # y /\ (a = Sentinel \/ a # x) => Dad(v, a) = Dad(t, a)
  BY <1>3, <1>4, <1>5 DEF RotateIs
<1>10. /\ w \in Subs /\ Sub(w, n) = low /\ Sub(w, y) = Sub(u, n)
       /\ \A a \in Ptr : a # n /\ a # y => Sub(w, a) = Sub(u, a)
       /\ \A b : b \in Sub(w, n) <=> b = n \/ b \in Sub(u, A) \/ b \in Sub(u, x)
  BY DEF TurnIs
<1>11. All(v, w) = T /\ Top(v) \in T /\ (\A b : b \notin Sub(w, Sentinel)) /\ (\A a \in T : a \in Sub(w, a))
  <2>1. All(v, w) = T
    BY <1>2, <1>3, <1>9, <1>10 DEF All
  <2>2. Top(v) \in T
    <3>1. Top(t) = n \/ Top(t) \in T
      <4>1. Top(t) # Sentinel
        BY <1>2 DEF All
      <4> QED BY <4>1 DEF Shape
    <3> QED BY <1>3, <1>9, <3>1
  <2>3. \A b : b \notin Sub(w, Sentinel)
    <3>1. Sentinel \in Ptr
      BY DEF Ptr
    <3> QED BY <1>2, <1>3, <1>10, <3>1
  <2>4. ASSUME NEW a \in T PROVE a \in Sub(w, a)
    BY <1>2, <1>3, <1>10, <2>4 DEF NodeFacts
  <2> QED BY <2>1, <2>2, <2>3, <2>4
<1> HIDE DEF o, y, x, A, C, p, r, T
<1>12. \A a \in T : a \in Ptr /\ a # Sentinel
  BY <1>2 DEF NodeFacts, T
<1>13. Down(v, w)
  <2> SUFFICES ASSUME NEW a \in T, NEW z \in Side, Kid(v, z, a) # Sentinel
               PROVE  Kid(v, z, a) \in T /\ Dad(v, Kid(v, z, a)) = a
    BY <1>11 DEF Down
  <2>1. CASE a = n
    BY <1>1, <1>3, <1>4, <1>5, <1>6, <1>9, <2>1
  <2>2. CASE a = y
    BY <1>1, <1>3, <1>4, <1>5, <1>7, <1>9, <2>2 DEF T
  <2>3. CASE n # Top(t) /\ a = p
    <3>1. CASE z = r
      BY <1>3, <1>9, <2>3, <3>1
    <3>2. CASE z # r
      <4>1. z = Other(r) /\ r \in Side
        BY <1>4, <3>2, Sides
      <4>2. Kid(v, z, a) = Kid(t, z, a) /\ Kid(t, z, a) # n
        BY <1>2, <1>8, <1>9, <2>3, <4>1, <1>3 DEF NodeFacts, T
      <4>3. Kid(t, z, a) \in T /\ Dad(t, Kid(t, z, a)) = a
        BY <1>2, <4>2 DEF Down, T
      <4> QED BY <1>3, <1>5, <1>8, <1>9, <1>12, <2>3, <4>2, <4>3
    <3> QED BY <3>1, <3>2
  <2>4. CASE a # n /\ a # y /\ (n # Top(t) => a # p)
    <3>1. Kid(v, z, a) = Kid(t, z, a)
      BY <1>9, <1>12, <2>4
    <3>2. Kid(t, z, a) \in T /\ Dad(t, Kid(t, z, a)) = a /\ Kid(t, z, a) # Top(t)
      BY <1>2, <3>1 DEF Down, NodeFacts, T
    <3>3. Kid(t, z, a) # n /\ Kid(t, z, a) # y /\ Kid(t, z, a) # x
      BY <1>3, <1>5, <1>12, <2>4, <3>2 DEF p
    <3> QED BY <1>9, <1>12, <3>1, <3>2, <3>3
  <2> QED BY <2>1, <2>2, <2>3, <2>4
<1>14. Parts(v, w)
  <2> SUFFICES ASSUME NEW a \in T, NEW z \in Side
               PROVE  /\ \A b : b \in Sub(w, a) <=> b = a \/ b \in Sub(w, Kid(v, z, a)) \/ b \in Sub(w, Kid(v, Other(z), a))
                      /\ a \notin Sub(w, Kid(v, z, a))
                      /\ \A b \in Sub(w, Kid(v, z, a)) : b \notin Sub(w, Kid(v, Other(z), a))
    BY <1>11 DEF Parts
  <2>0. Other(z) \in Side /\ ((z = s /\ Other(z) = o) \/ (z = o /\ Other(z) = s))
    BY <1>1, Sides DEF o
  <2>1. CASE a = n
    <3>1. Sub(w, A) = Sub(u, A) /\ Sub(w, x) = Sub(u, x)
      <4>1. A # n /\ A # y
        BY <1>3, <1>6
      <4>2. x # n /\ x # y
        BY <1>3, <1>5
      <4> QED BY <1>4, <1>10, <4>1, <4>2
    <3>2. n \notin Sub(u, A) /\ n \notin Sub(u, x)
      <4>1. n \notin Sub(u, A)
        BY <1>2 DEF Parts, T, A
      <4>2. n \notin Sub(u, x)
        BY <1>1, <1>2, <1>3 DEF Parts, T, x
      <4> QED BY <4>1, <4>2
    <3>3. \A b \in Sub(u, A) : b \notin Sub(u, x)
      BY <1>1, <1>2, <1>3 DEF Parts, T, x, y, A, o
    <3> QED BY <1>9, <1>10, <2>0, <2>1, <3>1, <3>2, <3>3
  <2>2. CASE a = y
    <3>1. Sub(w, C) = Sub(u, C)
      BY <1>3, <1>4, <1>7, <1>10
    <3>2. \A b : b \in Sub(u, n) <=> b = n \/ b \in Sub(u, A) \/ b = y \/ b \in Sub(u, x) \/ b \in Sub(u, C)
      BY <1>1, <1>2, <1>3 DEF Parts, T, x, y, A, C, o
    <3>3. y \notin Sub(u, A) /\ y \notin Sub(u, x) /\ y \notin Sub(u, C)
      <4>1. y \in Sub(u, y)
        BY <1>2, <1>3 DEF NodeFacts, T
      <4> QED BY <1>1, <1>2, <1>3, <4>1 DEF Parts, T, x, y, A, C, o
    <3>4. n \notin Sub(u, C) /\ \A b \in Sub(u, C) : b \notin Sub(u, A) /\ b \notin Sub(u, x)
      BY <1>1, <1>2, <1>3 DEF Parts, T, x, y, A, C, o
    <3> QED BY <1>3, <1>9, <1>10, <2>0, <2>2, <3>1, <3>2, <3>3, <3>4
  <2>3. CASE n # Top(t) /\ a = p
    <3>1. Sub(w, a) = Sub(u, a)
      BY <1>4, <1>8, <1>10, <2>3
    <3>2. ASSUME NEW q \in Side PROVE Sub(w, Kid(v, q, a)) = Sub(u, Kid(t, q, a))
      <4>1. CASE q = r
        BY <1>8, <1>9, <1>10, <2>3, <4>1
      <4>2. CASE q # r
        <5>1. q = Other(r) /\ r \in Side
          BY <1>4, <4>2, Sides
        <5>2. Kid(v, q, a) = Kid(t, q, a) /\ Kid(t, q, a) # n
          BY <1>2, <1>8, <1>9, <2>3, <5>1, <1>3 DEF NodeFacts, T
        <5>3. Kid(t, q, a) # y
          BY <1>2, <1>3, <1>8, <2>3 DEF Down, T
        <5>4. Kid(t, q, a) \in Ptr
          BY <1>2, <1>12, Fields
        <5> QED BY <1>10, <5>2, <5>3, <5>4
      <4> QED BY <4>1, <4>2
    <3> QED BY <1>2, <2>0, <3>1, <3>2 DEF Parts, T
  <2>4. CASE a # n /\ a # y /\ (n # Top(t) => a # p)
    <3>1. Sub(w, a) = Sub(u, a)
      BY <1>12, <1>10, <2>4
    <3>2. ASSUME NEW q \in Side PROVE Sub(w, Kid(v, q, a)) = Sub(u, Kid(t, q, a))
      <4>1. Kid(v, q, a) = Kid(t, q, a)
        BY <1>9, <1>12, <2>4
      <4>2. Kid(t, q, a) # Sentinel => Dad(t, Kid(t, q, a)) = a /\ Kid(t, q, a) # Top(t)
        BY <1>2, <4>1 DEF Down, NodeFacts, T
      <4>3. Kid(t, q, a) # n /\ Kid(t, q, a) # y
        BY <1>3, <1>5, <1>12, <2>4, <4>2 DEF p
      <4>4. Kid(t, q, a) \in Ptr
        BY <1>2, <1>12, Fields
      <4> QED BY <1>10, <4>1, <4>3, <4>4
    <3> QED BY <1>2, <2>0, <3>1, <3>2 DEF Parts, T
  <2> QED BY <2>1, <2>2, <2>3, <2>4
<1>15. Nested(v, w)
  <2>1. ASSUME NEW a \in T, NEW b \in Sub(w, a), NEW c \in Sub(w, b) PROVE c \in Sub(w, a)
    <3> USE <1>2, <1>3, <1>12
    <3>0. b \in T /\ b \in Ptr
      <4>1. Sub(w, n) \subseteq Sub(u, n) /\ n \in T
        BY <1>10, <1>1 DEF NodeFacts, T, A, x, y
      <4> QED BY <1>10, <4>1 DEF NodeFacts, T
    <3>1. c \in Sub(u, b) \/ (b = y /\ c \in Sub(u, n))
      <4>1. \A e \in Sub(w, n) : e \in Sub(u, n)
        BY <1>10, <1>1 DEF NodeFacts, T, A, x, y
      <4> QED BY <1>10, <3>0, <4>1
    <3>2. CASE a = n
      <4>1. y \notin Sub(w, n)
        <5>1. y \in Sub(u, y)
          BY DEF NodeFacts, T
        <5> QED BY <1>1, <1>10, <5>1 DEF Parts, T, x, y, A, o
      <4>2. CASE b = n
        BY <3>2, <4>2
      <4>3. CASE b \in Sub(u, A)
        <5>1. A \in T
          BY <4>3, <1>6
        <5> QED BY <1>10, <3>1, <3>2, <4>1, <4>3, <5>1 DEF Nested, T
      <4>4. CASE b \in Sub(u, x)
        <5>1. x \in T
          BY <4>4, <1>5
        <5> QED BY <1>10, <3>1, <3>2, <4>1, <4>4, <5>1 DEF Nested, T
      <4> QED BY <1>10, <3>2, <4>2, <4>3, <4>4
    <3>3. CASE a = y
      <4>1. b \in Sub(u, n)
        BY <1>10, <3>3
      <4>2. n \in T
        BY DEF T
      <4> QED BY <1>10, <3>1, <3>3, <4>1, <4>2 DEF Nested, T
    <3>4. CASE a # n /\ a # y
      <4>1. Sub(w, a) = Sub(u, a)
        BY <1>10, <3>4
      <4>2. b = y => n \in Sub(u, a)
        BY <3>4, <4>1 DEF Nested, T
      <4>3. n \in Sub(u, a) => \A e \in Sub(u, n) : e \in Sub(u, a)
        BY DEF Nested, T
      <4>4. \A e \in Sub(u, b) : e \in Sub(u, a)
        BY <4>1 DEF Nested, T
      <4> QED BY <3>1, <4>1, <4>2, <4>3, <4>4
    <3> QED BY <3>2, <3>3, <3>4
  <2>2. ASSUME NEW a \in T, NEW b \in Sub(w, a), b # a PROVE Dad(v, b) \in Sub(w, a)
    <3> USE <1>2, <1>3, <1>12
    <3>n. n \in T
      BY DEF T
    <3>0. b \in T /\ b \in Ptr
      <4>1. Sub(w, n) \subseteq Sub(u, n) /\ n \in T
        BY <1>10, <1>1 DEF NodeFacts, T, A, x, y
      <4> QED BY <1>10, <4>1 DEF NodeFacts, T
    <3>1. y \notin Sub(w, n)
      <4>1. y \in Sub(u, y)
        BY DEF NodeFacts, T
      <4> QED BY <1>1, <1>10, <4>1 DEF Parts, T, x, y, A, o
    <3>2. a # n /\ a # y => \A e \in Sub(w, a) : e # a => Dad(t, e) \in Sub(w, a)
      BY <1>10 DEF Nested, T
    <3>3. CASE b = n
      <4>1. a # y => y \in Sub(w, a)
        BY <1>10, <2>2, <3>3 DEF Nested, T
      <4>2. y \in Sub(w, y)
        BY <1>11
      <4> QED BY <1>9, <3>3, <4>1, <4>2
    <3>4. CASE b = y
      <4>1. a # n /\ a # y
        BY <2>2, <3>1, <3>4
      <4>2. n \in Sub(w, a)
        BY <3>2, <3>4, <4>1
      <4>3. p \in Sub(w, a)
        BY <3>2, <4>1, <4>2 DEF p
      <4> QED BY <1>9, <3>4, <4>3
    <3>5. CASE b = x
      <4>1. n \in Sub(w, n) /\ n \in Sub(w, y)
        BY <1>10, <1>11 DEF NodeFacts, T
      <4>2. a # n /\ a # y => y \in Sub(w, a)
        BY <1>5, <2>2, <3>0, <3>2, <3>5
      <4>3. a # n /\ a # y => n \in Sub(w, a)
        BY <3>2, <4>2
      <4> QED BY <1>5, <1>9, <1>10, <2>2, <3>0, <3>5, <4>1, <4>3
    <3>6. CASE b # n /\ b # y /\ b # x
      <4>1. Dad(v, b) = Dad(t, b)
        BY <1>9, <3>0, <3>6
      <4>2. CASE a = n
        <5>1. CASE b \in Sub(u, A)
          <6>1. A \in T /\ Dad(t, A) = n
            BY <5>1, <1>6
          <6>2. b = A \/ Dad(t, b) \in Sub(u, A)
            BY <5>1, <6>1 DEF Nested, T
          <6> QED BY <1>10, <1>11, <4>1, <4>2, <6>1, <6>2
        <5>2. CASE b \in Sub(u, x)
          <6>1. x \in T
            BY <5>2, <1>5
          <6>2. Dad(t, b) \in Sub(u, x)
            BY <5>2, <6>1, <3>6 DEF Nested, T
          <6> QED BY <1>10, <4>1, <4>2, <6>2
        <5> QED BY <1>10, <4>2, <3>6, <5>1, <5>2
      <4>3. CASE a = y
        BY <1>10, <3>n, <3>6, <4>1, <4>3 DEF Nested, T
      <4>4. CASE a # n /\ a # y
        BY <2>2, <3>2, <4>1, <4>4
      <4> QED BY <4>2, <4>3, <4>4
    <3> QED BY <3>3, <3>4, <3>5, <3>6
  <2> QED BY <1>11, <2>1, <2>2 DEF Nested
<1>16. Upward(v, w)
  <2> SUFFICES ASSUME NEW a \in T, a # Top(v)
               PROVE  Dad(v, a) \in T /\ \E z \in Side : Kid(v, z, Dad(v, a)) = a
    <3>1. \A a \in T : a # Top(v) => Dad(v, a) \in T /\ \E z \in Side : Kid(v, z, Dad(v, a)) = a
      OBVIOUS
    <3> QED BY <1>9, <1>11, <1>12, <3>1, Fields DEF Upward
  <2> USE <1>2, <1>3, <1>12
  <2>1. CASE a = n
    BY <1>9, <2>1
  <2>2. CASE a = y
    <3>1. n # Top(t)
      BY <1>9, <2>2
    <3> QED BY <1>4, <1>8, <1>9, <2>2, <3>1
  <2>3. CASE a = x
    <3>1. n \in T
      BY DEF T
    <3> QED BY <1>1, <1>9, <2>3, <3>1
  <2>4. CASE a # n /\ a # y /\ a # x
    <3> DEFINE q == Dad(t, a)
               z == SideOf(t, a)
    <3>1. a # Top(t)
      BY <1>9, <2>4
    <3>2. q \in T /\ Kid(t, z, q) = a /\ z \in Side /\ Dad(v, a) = q
      BY <1>9, <2>4, <3>1, Sides DEF Upward, T
    <3> HIDE DEF q, z
    <3>3. CASE q = n
      BY <1>1, <1>9, <2>4, <3>2, <3>3 DEF y, A
    <3>4. CASE q = y
      BY <1>1, <1>9, <2>4, <3>2, <3>4 DEF x, C
    <3>5. CASE n # Top(t) /\ q = p
      <4>1. z # r
        BY <1>8, <2>4, <3>2, <3>5
      <4>2. z = Other(r)
        BY <1>4, <3>2, <4>1, Sides
      <4> QED BY <1>9, <3>2, <3>5, <4>2
    <3>6. CASE q # n /\ q # y /\ (n # Top(t) => q # p)
      BY <1>9, <3>2, <3>6
    <3> QED BY <3>3, <3>4, <3>5, <3>6
  <2> QED BY <2>1, <2>2, <2>3, <2>4
<1> QED BY <1>9, <1>10, <1>11, <1>13, <1>14, <1>15, <1>16 DEF Shape, T

-------------------------------------------------------------------------------
(* Heights, colours and the order.                                         *)
Levels == [Ptr -> Nat]
Lvl(h, a) == h[a]

(* Below the side hs of the node hp one black node is missing; nowhere if  *)
(* hp is the sentinel.                                                     *)
Gap(s, a, hs, hp) == IF s = hs /\ a = hp THEN 1 ELSE 0
LevelAt(t, h, hs, hp, a) == \A s \in Side : Lvl(h, a) = Lvl(h, Kid(t, s, a)) + Weight(t, a) + Gap(s, a, hs, hp)
Level(t, u, h, hs, hp) ==
  h \in Levels /\ Lvl(h, Sentinel) = 0 /\ \A a \in All(t, u) : LevelAt(t, h, hs, hp, a)

(* A red node has black children, but for the child x and the parent y.    *)
RedRule(t, u, x, y) ==
  /\ Weight(t, Sentinel) = 1
  /\ \A a \in All(t, u), s \in Side : Weight(t, a) = 0 /\ Weight(t, Kid(t, s, a)) = 0 => Kid(t, s, a) = x \/ a = y

(* Where a node is in the order.                                           *)
Ranks == [Ptr -> Int]
Rank(d, a) == d[a]
Apart(d, s, b, a) == IF s = "left" THEN Rank(d, b) <= Rank(d, a) ELSE Rank(d, a) <= Rank(d, b)
Order(t, u, d) == \A a \in All(t, u), s \in Side : \A b \in Sub(u, Kid(t, s, a)) : Apart(d, s, b, a)

LEMMA ApartFacts ==
  ASSUME NEW d \in Ranks
  PROVE  \A a \in Ptr, b \in Ptr, s \in Side :
           /\ Rank(d, a) \in Int /\ Apart(d, s, a, a)
           /\ Apart(d, s, b, a) => Apart(d, Other(s), a, b)
           /\ \A c \in Ptr : Apart(d, s, c, b) /\ Apart(d, s, b, a) => Apart(d, s, c, a)
<1>1. \A a \in Ptr : Rank(d, a) \in Int
  BY DEF Ranks, Rank
<1> QED BY <1>1 DEF Apart, Side, Other

LEMMA LevelFacts ==
  ASSUME NEW h \in Levels
  PROVE  \A a \in Ptr : Lvl(h, a) \in Nat
BY DEF Levels, Lvl

(* What is not in the tree, and the parents of the root and of the         *)
(* sentinel, do not matter.                                                *)
LinksKept(v, t, u) ==
  /\ v \in Tree /\ Top(v) = Top(t)
  /\ \A a \in All(t, u) : (\A z \in Side : Kid(v, z, a) = Kid(t, z, a)) /\ (a # Top(t) => Dad(v, a) = Dad(t, a))

LEMMA LinksShape ==
  ASSUME NEW t, NEW u, Shape(t, u), NEW v, LinksKept(v, t, u)
  PROVE  Shape(v, u) /\ All(v, u) = All(t, u)
<1>1. /\ t \in Tree /\ Top(t) \in Ptr /\ u \in Subs /\ Down(t, u) /\ Parts(t, u) /\ Nested(t, u) /\ Upward(t, u)
      /\ (\A b : b \notin Sub(u, Sentinel)) /\ (\A a \in All(t, u) : NodeFacts(t, u, a))
      /\ (Top(t) # Sentinel => Top(t) \in All(t, u))
  BY ShapeFacts DEF Shape
<1>2. v \in Tree /\ Top(v) = Top(t)
  BY DEF LinksKept
<1>3. All(v, u) = All(t, u)
  BY <1>2 DEF All
<1>4. Down(v, u)
  BY <1>1, <1>3 DEF LinksKept, Down, NodeFacts
<1>5. Parts(v, u)
  BY <1>1, <1>3, Sides DEF LinksKept, Parts
<1>6. Nested(v, u)
  <2>1. ASSUME NEW a \in All(t, u), NEW b \in Sub(u, a), b # a PROVE b \in All(t, u) /\ b # Top(t)
    BY <1>1, <2>1 DEF NodeFacts
  <2> QED BY <1>1, <1>3, <2>1 DEF LinksKept, Nested
<1>7. Upward(v, u)
  <2> SUFFICES ASSUME NEW a \in All(t, u), a # Top(t)
               PROVE  Dad(v, a) \in All(t, u) /\ Kid(v, SideOf(v, a), Dad(v, a)) = a
    BY <1>2, <1>3 DEF Upward
  <2>1. Dad(v, a) = Dad(t, a) /\ Dad(t, a) \in All(t, u) /\ Kid(t, SideOf(t, a), Dad(t, a)) = a /\ a \in Ptr
    BY <1>1 DEF LinksKept, Upward, NodeFacts
  <2>2. Kid(v, SideOf(t, a), Dad(v, a)) = a /\ SideOf(t, a) \in Side
    BY <2>1, Sides DEF LinksKept
  <2> QED BY <1>2, <2>1, <2>2, Fields
<1> QED BY <1>1, <1>2, <1>3, <1>4, <1>5, <1>6, <1>7 DEF Shape

LEMMA LinksOrder ==
  ASSUME NEW t, NEW u, Shape(t, u), NEW v, LinksKept(v, t, u), NEW d, Order(t, u, d)
  PROVE  Order(v, u, d)
BY LinksShape DEF Order, LinksKept

LEMMA PaintedLinks ==
  ASSUME NEW t, NEW u, Shape(t, u), NEW n, NEW m, NEW v, WeightIs(v, t, n, m)
  PROVE  LinksKept(v, t, u)
BY ShapeFacts DEF WeightIs, LinksKept, NodeFacts

(* What stays when n is rotated.                                           *)
LEMMA RotateKids ==
  ASSUME NEW t, NEW u, Shape(t, u), NEW s \in Side, NEW n \in All(t, u), Kid(t, Other(s), n) # Sentinel,
         NEW v, RotateIs(v, t, s, n)
  PROVE  \A a \in All(t, u), z \in Side : a # n /\ a # Kid(t, Other(s), n) =>
           \/ Kid(v, z, a) = Kid(t, z, a) /\ Kid(t, z, a) # n /\ Kid(t, z, a) # Kid(t, Other(s), n)
           \/ Kid(v, z, a) = Kid(t, Other(s), n) /\ Kid(t, z, a) = n
<1> DEFINE y == Kid(t, Other(s), n)
           p == Dad(t, n)
           r == SideOf(t, n)
           T == All(t, u)
<1> SUFFICES ASSUME NEW a \in T, NEW z \in Side, a # n, a # y
             PROVE  \/ Kid(v, z, a) = Kid(t, z, a) /\ Kid(t, z, a) # n /\ Kid(t, z, a) # y
                    \/ Kid(v, z, a) = y /\ Kid(t, z, a) = n
  OBVIOUS
<1>1. t \in Tree /\ Top(t) \in Ptr /\ u \in Subs /\ Down(t, u) /\ Parts(t, u) /\ Upward(t, u)
      /\ \A b \in T : NodeFacts(t, u, b)
  BY ShapeFacts DEF Shape
<1>2. Other(s) \in Side /\ y \in T /\ Dad(t, y) = n /\ y # n /\ y # Sentinel /\ n # Sentinel /\ a \in Ptr /\ a # Sentinel /\ r \in Side
  BY <1>1, Sides DEF Down, NodeFacts
<1>3. /\ n # Top(t) => Kid(v, r, p) = y /\ Kid(v, Other(r), p) = Kid(t, Other(r), p)
      /\ n # Top(t) \/ a # p => Kid(v, z, a) = Kid(t, z, a) \/ a = p
  BY <1>2 DEF RotateIs
<1>4. n # Top(t) => Kid(t, r, p) = n
  BY <1>1 DEF Upward
<1>5. Kid(t, z, a) # y
  BY <1>1, <1>2 DEF Down
<1>6. Kid(t, z, a) = n => n # Top(t) /\ a = p
  BY <1>1, <1>2 DEF Down, NodeFacts
<1>7. CASE n # Top(t) /\ a = p
  <2>1. CASE z = r
    BY <1>3, <1>4, <1>7, <2>1
  <2>2. CASE z # r
    <3>1. z = Other(r)
      BY <1>2, <2>2, Sides
    <3>2. Kid(t, z, a) # n
      BY <1>1, <1>2, <1>4, <1>7, <3>1 DEF NodeFacts
    <3> QED BY <1>3, <1>5, <1>7, <3>1, <3>2
  <2> QED BY <2>1, <2>2
<1>8. CASE ~(n # Top(t) /\ a = p)
  <2>1. Kid(v, z, a) = Kid(t, z, a)
    BY <1>2, <1>8 DEF RotateIs
  <2> QED BY <1>5, <1>6, <1>8, <2>1
<1> QED BY <1>7, <1>8

LEMMA RotateOrder ==
  ASSUME NEW t, NEW u, Shape(t, u), NEW s \in Side, NEW n \in All(t, u), Kid(t, Other(s), n) # Sentinel,
         NEW v, RotateIs(v, t, s, n), NEW w, NEW low,
         TurnIs(w, u, n, Kid(t, Other(s), n), low),
         \A b : b \in low <=> b = n \/ b \in Sub(u, Kid(t, s, n)) \/ b \in Sub(u, Kid(t, s, Kid(t, Other(s), n))),
         NEW d \in Ranks, Order(t, u, d)
  PROVE  Order(v, w, d)
<1> DEFINE o == Other(s)
           y == Kid(t, o, n)
           x == Kid(t, s, y)
           A == Kid(t, s, n)
           C == Kid(t, o, y)
           T == All(t, u)
<1>1. o \in Side /\ o # s /\ Other(o) = s /\ (\A z \in Side : z = s \/ z = o)
  BY Sides
<1>2. t \in Tree /\ u \in Subs /\ Down(t, u) /\ Parts(t, u) /\ (\A b : b \notin Sub(u, Sentinel)) /\ \A a \in T : NodeFacts(t, u, a)
  BY ShapeFacts DEF Shape
<1>3. All(v, w) = T
  BY RotateShape
<1>4. y \in T /\ n \in T /\ y \in Sub(u, y) /\ y # n /\ n \in Ptr /\ y \in Ptr /\ x \in Ptr /\ C \in Ptr /\ A \in Ptr
  BY <1>1, <1>2, Fields DEF Down, NodeFacts
<1>5. x # n /\ x # y /\ A # n /\ A # y /\ C # n /\ C # y
  <2>1. x # y /\ C # y /\ A # n /\ A # y
    BY <1>1, <1>2, <1>4 DEF NodeFacts
  <2>2. x # n
    BY <1>1, <1>2, <1>4 DEF Down, Parts, NodeFacts
  <2>3. C # n
    BY <1>1, <1>2, <1>4 DEF Down, Parts, NodeFacts
  <2> QED BY <2>1, <2>2, <2>3
<1>6. Sub(w, x) = Sub(u, x) /\ Sub(w, A) = Sub(u, A) /\ Sub(w, C) = Sub(u, C)
  BY <1>4, <1>5 DEF TurnIs
<1>7. Kid(v, o, n) = x /\ Kid(v, s, n) = A /\ Kid(v, s, y) = n /\ Kid(v, o, y) = C
  BY DEF RotateIs
<1>8. \A a \in T, z \in Side : a # n /\ a # y => Sub(w, Kid(v, z, a)) = Sub(u, Kid(t, z, a))
  <2> SUFFICES ASSUME NEW a \in T, NEW z \in Side, a # n, a # y PROVE Sub(w, Kid(v, z, a)) = Sub(u, Kid(t, z, a))
    OBVIOUS
  <2>1. Kid(t, z, a) \in Ptr
    BY <1>2, Fields DEF NodeFacts
  <2>2. \/ Kid(v, z, a) = Kid(t, z, a) /\ Kid(t, z, a) # n /\ Kid(t, z, a) # y
        \/ Kid(v, z, a) = y /\ Kid(t, z, a) = n
    BY RotateKids
  <2> QED BY <2>1, <2>2 DEF TurnIs
<1> HIDE DEF o, y, x, A, C, T
<1>9. \A a \in T, z \in Side : \A b \in Sub(u, Kid(t, z, a)) : b \in Ptr /\ Apart(d, z, b, a)
  BY <1>2 DEF Order, NodeFacts, T
<1>10. ASSUME NEW b \in Sub(w, n) PROVE Apart(d, s, b, y)
  <2>1. Apart(d, s, n, y)
    <3>1. Apart(d, o, y, n)
      BY <1>1, <1>4, <1>9 DEF y
    <3> QED BY <1>1, <1>4, <3>1, ApartFacts
  <2>2. CASE b = n
    BY <2>1, <2>2
  <2>3. CASE b \in Sub(u, A)
    BY <1>4, <1>9, <2>1, <2>3, ApartFacts DEF A
  <2>4. CASE b \in Sub(u, x)
    BY <1>4, <1>9, <2>4 DEF x
  <2> QED BY <2>2, <2>3, <2>4 DEF TurnIs, A, x, y, o
<1>11. ASSUME NEW a \in T, NEW z \in Side, NEW b \in Sub(w, Kid(v, z, a)) PROVE Apart(d, z, b, a)
  <2>1. CASE a = n
    <3>1. \A e \in Sub(u, x) : e \in Sub(u, y)
      BY <1>2, <1>4 DEF Parts, T, x
    <3>2. CASE z = s
      BY <1>4, <1>6, <1>7, <1>9, <1>11, <2>1, <3>2 DEF A
    <3>3. CASE z = o
      BY <1>4, <1>6, <1>7, <1>9, <1>11, <2>1, <3>1, <3>3 DEF y
    <3> QED BY <1>1, <3>2, <3>3
  <2>2. CASE a = y
    <3>2. CASE z = s
      BY <1>7, <1>10, <1>11, <2>2, <3>2
    <3>3. CASE z = o
      BY <1>4, <1>6, <1>7, <1>9, <1>11, <2>2, <3>3 DEF C
    <3> QED BY <1>1, <3>2, <3>3
  <2>3. CASE a # n /\ a # y
    BY <1>8, <1>9, <1>11, <2>3
  <2> QED BY <2>1, <2>2, <2>3
<1> QED BY <1>3, <1>11 DEF Order

(* The heights after a rotation: k gives y what n had.                     *)
LEMMA RotateLevels ==
  ASSUME NEW t, NEW u, Shape(t, u), NEW s \in Side, NEW n \in All(t, u), NEW y, y = Kid(t, Other(s), n), y # Sentinel,
         NEW v, RotateIs(v, t, s, n), NEW hs, NEW hp,
         NEW h, NEW k, Lvl(k, y) = Lvl(h, n), \A a \in Ptr : a # n /\ a # y => Lvl(k, a) = Lvl(h, a),
         \A a \in All(t, u) : a # n /\ a # y => LevelAt(t, h, hs, hp, a),
         Lvl(k, n) = Lvl(h, Kid(t, s, n)) + Weight(t, n) + Gap(s, n, hs, hp),
         Lvl(k, n) = Lvl(h, Kid(t, s, y)) + Weight(t, n) + Gap(Other(s), n, hs, hp),
         Lvl(h, n) = Lvl(k, n) + Weight(t, y) + Gap(s, y, hs, hp),
         Lvl(h, n) = Lvl(h, Kid(t, Other(s), y)) + Weight(t, y) + Gap(Other(s), y, hs, hp)
  PROVE  \A a \in All(t, u) : LevelAt(v, k, hs, hp, a)
<1> DEFINE o == Other(s)
           x == Kid(t, s, y)
           A == Kid(t, s, n)
           C == Kid(t, o, y)
           T == All(t, u)
<1>1. o \in Side /\ o # s /\ Other(o) = s /\ (\A z \in Side : z = s \/ z = o)
  BY Sides
<1>2. t \in Tree /\ u \in Subs /\ Down(t, u) /\ Parts(t, u) /\ \A a \in T : NodeFacts(t, u, a)
  BY ShapeFacts DEF Shape
<1>4. y \in T /\ n \in T /\ y # n /\ n \in Ptr /\ y \in Ptr /\ x \in Ptr /\ C \in Ptr /\ A \in Ptr
      /\ n # Sentinel /\ y # Sentinel
  BY <1>1, <1>2, Fields DEF Down, NodeFacts
<1>5. x # n /\ x # y /\ A # n /\ A # y /\ C # n /\ C # y
  <2>1. x # y /\ C # y /\ A # n /\ A # y
    BY <1>1, <1>2, <1>4 DEF NodeFacts
  <2>2. x # n
    BY <1>1, <1>2, <1>4 DEF Down, Parts, NodeFacts
  <2>3. C # n
    BY <1>1, <1>2, <1>4 DEF Down, Parts, NodeFacts
  <2> QED BY <2>1, <2>2, <2>3
<1>6. Lvl(k, x) = Lvl(h, x) /\ Lvl(k, A) = Lvl(h, A) /\ Lvl(k, C) = Lvl(h, C)
  BY <1>4, <1>5
<1>7. /\ Kid(v, o, n) = x /\ Kid(v, s, n) = A /\ Kid(v, s, y) = n /\ Kid(v, o, y) = C
      /\ \A a \in Ptr : Weight(v, a) = Weight(t, a)
  BY DEF RotateIs
<1>8. ASSUME NEW a \in T, a # n, a # y PROVE LevelAt(v, k, hs, hp, a)
  <2> SUFFICES ASSUME NEW z \in Side PROVE Lvl(k, a) = Lvl(k, Kid(v, z, a)) + Weight(v, a) + Gap(z, a, hs, hp)
    BY DEF LevelAt
  <2>1. Kid(t, z, a) \in Ptr /\ a \in Ptr
    BY <1>2, Fields DEF NodeFacts
  <2>2. \/ Kid(v, z, a) = Kid(t, z, a) /\ Kid(t, z, a) # n /\ Kid(t, z, a) # y
        \/ Kid(v, z, a) = y /\ Kid(t, z, a) = n
    BY <1>8, RotateKids
  <2>3. Lvl(k, Kid(v, z, a)) = Lvl(h, Kid(t, z, a))
    BY <2>1, <2>2
  <2>4. Lvl(h, a) = Lvl(h, Kid(t, z, a)) + Weight(t, a) + Gap(z, a, hs, hp)
    BY <1>8 DEF LevelAt
  <2> QED BY <1>7, <1>8, <2>1, <2>3, <2>4
<1>9. LevelAt(v, k, hs, hp, n)
  BY <1>1, <1>4, <1>6, <1>7 DEF LevelAt
<1>10. LevelAt(v, k, hs, hp, y)
  BY <1>1, <1>4, <1>6, <1>7 DEF LevelAt
<1> QED BY <1>8, <1>9, <1>10

-------------------------------------------------------------------------------
(* How many nodes there are below one.                                     *)
Count(u, a) == Cardinality(Sub(u, a))

LEMMA CountFacts ==
  ASSUME NEW u \in Subs
  PROVE  /\ \A a \in Ptr : Count(u, a) \in 0 .. Size
         /\ \A a \in Ptr : a \in Sub(u, a) => Count(u, a) >= 1
         /\ \A a \in Ptr, b \in Ptr : (\A c \in Sub(u, a) : c \in Sub(u, b)) /\ b \in Sub(u, b) /\ b \notin Sub(u, a) => Count(u, a) < Count(u, b)
<1> USE RbTreeAssumption
<1>1. ASSUME NEW a \in Ptr PROVE IsFiniteSet(Sub(u, a)) /\ Count(u, a) \in Nat /\ Count(u, a) <= Size
  <2>1. Sub(u, a) \subseteq Node
    BY SubIsNodes
  <2>2. IsFiniteSet(Sub(u, a)) /\ Cardinality(Sub(u, a)) <= Cardinality(Node)
    BY <2>1, FS_Subset
  <2> QED BY <2>2, FS_CardinalityType DEF Count, Size
<1>2. ASSUME NEW a \in Ptr, a \in Sub(u, a) PROVE Count(u, a) >= 1
  <2>1. Count(u, a) # 0
    BY <1>1, <1>2, FS_EmptySet DEF Count
  <2> QED BY <1>1, <2>1
<1>3. ASSUME NEW a \in Ptr, NEW b \in Ptr, \A c \in Sub(u, a) : c \in Sub(u, b), b \in Sub(u, b), b \notin Sub(u, a)
      PROVE  Count(u, a) < Count(u, b)
  <2>1. Sub(u, a) \subseteq Sub(u, b) /\ Sub(u, a) # Sub(u, b)
    BY <1>3
  <2>2. Cardinality(Sub(u, a)) <= Cardinality(Sub(u, b)) /\ (Cardinality(Sub(u, a)) = Cardinality(Sub(u, b)) => Sub(u, a) = Sub(u, b))
    <3> HIDE DEF Sub
    <3>1. IsFiniteSet(Sub(u, b))
      BY <1>1
    <3> QED BY <2>1, <3>1, FS_Subset
  <2>3. Count(u, a) \in Nat /\ Count(u, b) \in Nat
    BY <1>1
  <2> QED BY <2>1, <2>2, <2>3 DEF Count
<1> QED BY <1>1, <1>2, <1>3, SizeType

-------------------------------------------------------------------------------
(* The first node below another one.                                       *)
IsFirst(t, u, d, m, r) ==
  /\ r \in Sub(u, m) /\ \A b \in Sub(u, m) : b \in Sub(u, r) \/ Apart(d, "left", r, b)
  /\ \A a \in Sub(u, m) : r \in Sub(u, a) => a = r \/ r \in Sub(u, Kid(t, "left", a))

LEMMA MinIsFirst ==
  ASSUME NEW t, NEW u, Shape(t, u), NEW d \in Ranks, Order(t, u, d), NEW m \in All(t, u), NEW r, r = MinFrom(t, m)
  PROVE  /\ r \in Sub(u, m) /\ Kid(t, "left", r) = Sentinel
         /\ \A b \in Sub(u, m) : Apart(d, "left", r, b)
         /\ \A a \in Sub(u, m) : r \in Sub(u, a) => a = r \/ r \in Sub(u, Kid(t, "left", a))
<1> DEFINE round == MinRound(t)
           P(x) == IsFirst(t, u, d, m, x)
           F == {x \in Ptr : P(x) /\ Kid(t, "left", x) = Sentinel}
           G == {e \in Ptr \X (1 .. Size) : P(e[1]) /\ e[2] = Size - Count(u, e[1]) + 1}
<1>1. /\ t \in Tree /\ u \in Subs /\ Down(t, u) /\ Parts(t, u) /\ Nested(t, u) /\ (\A b : b \notin Sub(u, Sentinel))
      /\ \A a \in All(t, u) : NodeFacts(t, u, a)
  BY ShapeFacts DEF Shape
<1>2. "left" \in Side /\ "right" \in Side /\ Other("left") = "right" /\ Other("right") = "left"
  BY Sides
<1>3. round \in [Ptr -> Ptr] /\ \A x \in Ptr : round[x] = IF Kid(t, "left", x) = Sentinel THEN x ELSE Kid(t, "left", x)
  <2>1. \A x \in Ptr : Kid(t, "left", x) \in Ptr
    BY <1>1, <1>2, Fields
  <2> QED BY <2>1 DEF MinRound, Kid
<1>4. m \in Ptr /\ P(m)
  <2>1. m \in Ptr /\ m \in Sub(u, m)
    BY <1>1 DEF NodeFacts
  <2>2. ASSUME NEW a \in Sub(u, m), m \in Sub(u, a), a # m PROVE FALSE
    <3>1. a \in All(t, u)
      BY <1>1 DEF NodeFacts
    <3>2. Count(u, m) < Count(u, a)
      <4>1. \E s \in Side : m \in Sub(u, Kid(t, s, a))
        BY <1>1, <1>2, <2>2, <3>1 DEF Parts
      <4>2. PICK s \in Side : m \in Sub(u, Kid(t, s, a))
        BY <4>1
      <4>3. Kid(t, s, a) \in All(t, u) /\ a \in Sub(u, Kid(t, s, a))
        BY <1>1, <2>2, <3>1, <4>2 DEF Down, Nested
      <4> QED BY <1>1, <3>1, <4>3 DEF Parts
    <3>3. Count(u, a) <= Count(u, m)
      <4>1. a \in Ptr /\ \A c \in Sub(u, a) : c \in Sub(u, m)
        BY <1>1, <3>1 DEF Nested, NodeFacts
      <4> QED BY <1>1, <2>1, <2>2, <3>1, <4>1, CountFacts DEF Parts, Nested, Down, NodeFacts
    <3> QED BY <1>1, <2>1, <3>1, <3>2, <3>3, CountFacts DEF NodeFacts
  <2> QED BY <2>1, <2>2 DEF IsFirst
<1> HIDE DEF round
<1>5. ASSUME NEW x \in Ptr, P(x) PROVE x \in All(t, u) /\ x \in Sub(u, x) /\ Count(u, x) \in 1 .. Size
  <2>1. x \in All(t, u)
    BY <1>1, <1>5 DEF IsFirst, NodeFacts
  <2>2. x \in Sub(u, x)
    BY <1>1, <2>1 DEF NodeFacts
  <2> QED BY <1>1, <2>1, <2>2, CountFacts, SizeType
<1>6. ASSUME NEW x \in Ptr, P(x), Kid(t, "left", x) # Sentinel
      PROVE  P(Kid(t, "left", x)) /\ Count(u, Kid(t, "left", x)) < Count(u, x) /\ Kid(t, "left", x) \in Ptr
  <2> DEFINE l == Kid(t, "left", x)
  <2>1. x \in All(t, u) /\ l \in All(t, u) /\ l \in Sub(u, l) /\ l \in Sub(u, x) /\ Dad(t, l) = x /\ l \in Ptr /\ x \in Sub(u, x)
    BY <1>1, <1>2, <1>5, <1>6 DEF Down, NodeFacts
  <2>2. l \in Sub(u, m)
    BY <1>1, <1>6, <2>1 DEF IsFirst, Nested
  <2>3. Apart(d, "left", l, x) /\ \A b \in Sub(u, Kid(t, "right", x)) : Apart(d, "left", x, b)
    <3>1. \A b \in Sub(u, Kid(t, "right", x)) : Apart(d, "right", b, x) /\ b \in Ptr
      BY <1>1, <1>2, <2>1 DEF Order, NodeFacts
    <3>2. Apart(d, "left", l, x)
      BY <1>2, <2>1 DEF Order
    <3> QED BY <1>2, <2>1, <3>1, <3>2, ApartFacts
  <2>4. ASSUME NEW b \in Sub(u, m) PROVE b \in Sub(u, l) \/ Apart(d, "left", l, b)
    <3>1. b \in Ptr /\ x \in Ptr /\ l \in Ptr
      BY <1>1, <2>1 DEF NodeFacts
    <3>2. b \in Sub(u, l) \/ b = x \/ b \in Sub(u, Kid(t, "right", x)) \/ Apart(d, "left", x, b)
      BY <1>1, <1>2, <1>6, <2>1 DEF IsFirst, Parts
    <3>3. b = x => Apart(d, "left", l, b)
      BY <2>3
    <3>4. Apart(d, "left", x, b) => Apart(d, "left", l, b)
      BY <1>2, <2>3, <3>1, ApartFacts
    <3> QED BY <2>3, <3>2, <3>3, <3>4
  <2>5. ASSUME NEW a \in Sub(u, m), l \in Sub(u, a), a # l PROVE l \in Sub(u, Kid(t, "left", a))
    <3>1. a \in All(t, u)
      BY <1>1 DEF NodeFacts
    <3>2. x \in Sub(u, a)
      BY <1>1, <2>1, <2>5, <3>1 DEF Nested
    <3>3. CASE a = x
      BY <2>1, <3>3
    <3>4. CASE a # x
      <4>1. x \in Sub(u, Kid(t, "left", a))
        BY <1>6, <3>2, <3>4 DEF IsFirst
      <4>2. Kid(t, "left", a) \in All(t, u)
        BY <1>1, <1>2, <3>1, <4>1 DEF Down
      <4> QED BY <1>1, <2>1, <4>1, <4>2 DEF Nested
    <3> QED BY <3>3, <3>4
  <2>6. P(l)
    BY <2>2, <2>4, <2>5 DEF IsFirst
  <2>7. Count(u, l) < Count(u, x)
    <3>1. (\A c \in Sub(u, l) : c \in Sub(u, x)) /\ x \notin Sub(u, l)
      BY <1>1, <1>2, <2>1 DEF Parts
    <3> QED BY <1>1, <2>1, <3>1, CountFacts
  <2> QED BY <2>1, <2>6, <2>7
<1> HIDE DEF P
<1>7. ASSUME NEW x \in Ptr, NEW k \in 1 .. Size, <<x, k>> \in G
      PROVE  round[x] \in F \/ \E j \in 1 .. Size : j > k /\ <<round[x], j>> \in G
  <2>1. P(x) /\ k = Size - Count(u, x) + 1
    BY <1>7
  <2>2. CASE Kid(t, "left", x) = Sentinel
    BY <1>3, <2>1, <2>2
  <2>3. CASE Kid(t, "left", x) # Sentinel
    <3> DEFINE l == Kid(t, "left", x)
               j == Size - Count(u, l) + 1
    <3>1. P(l) /\ l \in Ptr /\ Count(u, l) < Count(u, x) /\ round[x] = l
      BY <1>3, <1>6, <2>1, <2>3
    <3> HIDE DEF l
    <3>2. Count(u, l) \in 1 .. Size /\ Count(u, x) \in 1 .. Size
      BY <1>5, <2>1, <3>1
    <3>3. j \in 1 .. Size /\ j > k
      BY <2>1, <3>1, <3>2, SizeType
    <3>4. <<l, j>> \in G
      BY <3>1, <3>3
    <3> QED BY <3>1, <3>3, <3>4
  <2> QED BY <2>2, <2>3
<1>8. Size - Count(u, m) + 1 \in 1 .. Size
  BY <1>4, <1>5, SizeType
<1>9. <<m, Size - Count(u, m) + 1>> \in G
  BY <1>4, <1>8
<1>10. \A x \in F : round[x] = x
  BY <1>3
<1>11. F \in SUBSET Ptr /\ G \in SUBSET (Ptr \X (1 .. Size))
  OBVIOUS
<1> HIDE DEF F, G
<1>12. Loop(round, m) \in F
  <2> DEFINE first == Size - Count(u, m) + 1
  <2>1. first \in 1 .. Size /\ <<m, first>> \in G
    BY <1>8, <1>9
  <2>2. \A x \in Ptr : \A k \in 1 .. Size : <<x, k>> \in G => round[x] \in F \/ \E j \in 1 .. Size : j > k /\ <<round[x], j>> \in G
    BY <1>7
  <2>3. Ends(Ptr, round, F, G)
    BY <1>3, <1>10, <1>11, <2>2 DEF Ends
  <2> HIDE DEF first
  <2> QED BY <1>4, <2>1, <2>3, LoopEnds
<1>13. P(r) /\ Kid(t, "left", r) = Sentinel /\ r \in Ptr
  BY <1>12 DEF F, MinFrom, round
<1>14. r \in All(t, u)
  BY <1>5, <1>13
<1>15. ASSUME NEW b \in Sub(u, m), b \in Sub(u, r) PROVE Apart(d, "left", r, b)
  <2>1. b = r \/ b \in Sub(u, Kid(t, "right", r))
    BY <1>1, <1>2, <1>13, <1>14, <1>15 DEF Parts
  <2>2. b \in Ptr
    BY <1>1, <1>14, <1>15, ShapeFacts DEF NodeFacts
  <2>3. b \in Sub(u, Kid(t, "right", r)) => Apart(d, "right", b, r)
    BY <1>2, <1>14 DEF Order
  <2> QED BY <1>2, <1>13, <2>1, <2>2, <2>3, ApartFacts
<1> QED BY <1>13, <1>15 DEF P, IsFirst

-------------------------------------------------------------------------------
(* Witnesses.                                                              *)
LvlPut(k, h, n, m) == k \in Levels /\ Lvl(k, n) = m /\ \A a \in Ptr : a # n => Lvl(k, a) = Lvl(h, a)

LEMMA LvlPuts ==
  ASSUME NEW h \in Levels, NEW n \in Ptr, NEW m \in Nat
  PROVE  \E k : LvlPut(k, h, n, m)
<1>1. LvlPut([h EXCEPT ![n] = m], h, n, m)
  BY DEF Levels, Lvl, LvlPut
<1> QED BY <1>1

LvlSwap(k, h, n, y) == k \in Levels /\ Lvl(k, y) = Lvl(h, n) /\ Lvl(k, n) = Lvl(h, y) /\ \A a \in Ptr : a # n /\ a # y => Lvl(k, a) = Lvl(h, a)

LEMMA LvlSwaps ==
  ASSUME NEW h \in Levels, NEW n \in Ptr, NEW y \in Ptr, n # y
  PROVE  \E k : LvlSwap(k, h, n, y)
<1>1. LvlSwap([h EXCEPT ![n] = h[y], ![y] = h[n]], h, n, y)
  BY DEF Levels, Lvl, LvlSwap
<1> QED BY <1>1

(* Below n, without what comes with y to its other side.                   *)
LEMMA Turns ==
  ASSUME NEW t, NEW u, Shape(t, u), NEW s \in Side, NEW n \in All(t, u), Kid(t, Other(s), n) # Sentinel
  PROVE  \E w, low : /\ TurnIs(w, u, n, Kid(t, Other(s), n), low)
                     /\ \A b : b \in low <=> b = n \/ b \in Sub(u, Kid(t, s, n)) \/ b \in Sub(u, Kid(t, s, Kid(t, Other(s), n)))
<1> DEFINE y == Kid(t, Other(s), n)
           low == {n} \cup Sub(u, Kid(t, s, n)) \cup Sub(u, Kid(t, s, y))
<1>1. u \in Subs /\ n \in Ptr /\ n \in Node /\ y \in Ptr /\ n # y /\ Kid(t, s, n) \in Ptr /\ Kid(t, s, y) \in Ptr
  <2>1. t \in Tree /\ u \in Subs /\ NodeFacts(t, u, n) /\ Other(s) \in Side
    BY ShapeFacts, Sides
  <2> QED BY <2>1, Fields DEF NodeFacts
<1>2. low \in SUBSET Node
  BY <1>1, SubIsNodes
<1> HIDE DEF y
<1>3. TurnIs(TurnU(u, n, y, low), u, n, y, low)
  <2> HIDE DEF low
  <2> QED BY <1>1, <1>2, TurnedU
<1>4. \A b : b \in low <=> b = n \/ b \in Sub(u, Kid(t, s, n)) \/ b \in Sub(u, Kid(t, s, y))
  OBVIOUS
<1> HIDE DEF low
<1> QED BY <1>3, <1>4 DEF y

LEMMA NoGap ==
  \A s, a, hs : a # Sentinel => Gap(s, a, hs, Sentinel) = 0
BY DEF Gap

(* A rotation may be made where there is a child to raise.                 *)
LEMMA RotatesIn ==
  ASSUME NEW t, NEW u, Shape(t, u), NEW s \in Side, NEW n \in All(t, u), Kid(t, Other(s), n) # Sentinel
  PROVE  RotateIs(Rotate(t, s, n), t, s, n)
<1>1. t \in Tree /\ n \in Ptr /\ NodeFacts(t, u, n) /\ Other(s) \in Side
  BY ShapeFacts, Sides DEF NodeFacts
<1>2. n # Kid(t, Other(s), n) /\ Kid(t, Other(s), n) \in Sub(u, n)
  BY <1>1 DEF NodeFacts
<1>3. n # Top(t) => Dad(t, n) # n /\ Dad(t, n) # Kid(t, Other(s), n)
  BY <1>1, <1>2 DEF NodeFacts
<1> QED BY <1>1, <1>2, <1>3, Rotated

(* A rotation, with what is below each node after it.                      *)
Rotation(v, w, t, u, s, n) ==
  /\ Shape(t, u) /\ s \in Side /\ n \in All(t, u) /\ Kid(t, Other(s), n) # Sentinel /\ RotateIs(v, t, s, n)
  /\ \E low : /\ TurnIs(w, u, n, Kid(t, Other(s), n), low)
              /\ \A b : b \in low <=> b = n \/ b \in Sub(u, Kid(t, s, n)) \/ b \in Sub(u, Kid(t, s, Kid(t, Other(s), n)))

LEMMA Rotations ==
  ASSUME NEW t, NEW u, Shape(t, u), NEW s \in Side, NEW n \in All(t, u), Kid(t, Other(s), n) # Sentinel
  PROVE  \E w : Rotation(Rotate(t, s, n), w, t, u, s, n)
BY RotatesIn, Turns DEF Rotation

LEMMA RotationFacts ==
  ASSUME NEW v, NEW w, NEW t, NEW u, NEW s, NEW n, Rotation(v, w, t, u, s, n)
  PROVE  /\ Shape(v, w) /\ All(v, w) = All(t, u) /\ RotateIs(v, t, s, n)
         /\ \A d \in Ranks : Order(t, u, d) => Order(v, w, d)
<1>1. PICK low : /\ TurnIs(w, u, n, Kid(t, Other(s), n), low)
                 /\ \A b : b \in low <=> b = n \/ b \in Sub(u, Kid(t, s, n)) \/ b \in Sub(u, Kid(t, s, Kid(t, Other(s), n)))
  BY DEF Rotation
<1>2. Shape(t, u) /\ s \in Side /\ n \in All(t, u) /\ Kid(t, Other(s), n) # Sentinel /\ RotateIs(v, t, s, n)
  BY DEF Rotation
<1>3. Shape(v, w) /\ All(v, w) = All(t, u)
  BY <1>1, <1>2, RotateShape
<1>4. ASSUME NEW d \in Ranks, Order(t, u, d) PROVE Order(v, w, d)
  BY <1>1, <1>2, <1>4, RotateOrder
<1> QED BY <1>2, <1>3, <1>4

(* The other nodes keep their children, but for the parent of n.           *)
KidsKept(v, t, u, s, n) ==
  \A a \in All(t, u), z \in Side : a # n /\ a # Kid(t, Other(s), n) =>
    \/ Kid(v, z, a) = Kid(t, z, a) /\ Kid(t, z, a) # n /\ Kid(t, z, a) # Kid(t, Other(s), n)
    \/ Kid(v, z, a) = Kid(t, Other(s), n) /\ Kid(t, z, a) = n

LEMMA RotationKids ==
  ASSUME NEW v, NEW w, NEW t, NEW u, NEW s, NEW n, Rotation(v, w, t, u, s, n)
  PROVE  KidsKept(v, t, u, s, n)
BY RotateKids DEF Rotation, KidsKept

(* n and y, its child that comes up, with the heights k in place of h.     *)
LevelTurn(t, h, k, s, n, y, hs, hp) ==
  /\ y = Kid(t, Other(s), n) /\ Lvl(k, y) = Lvl(h, n) /\ \A a \in Ptr : a # n /\ a # y => Lvl(k, a) = Lvl(h, a)
  /\ Lvl(k, n) = Lvl(h, Kid(t, s, n)) + Weight(t, n) + Gap(s, n, hs, hp)
  /\ Lvl(k, n) = Lvl(h, Kid(t, s, y)) + Weight(t, n) + Gap(Other(s), n, hs, hp)
  /\ Lvl(h, n) = Lvl(k, n) + Weight(t, y) + Gap(s, y, hs, hp)
  /\ Lvl(h, n) = Lvl(h, Kid(t, Other(s), y)) + Weight(t, y) + Gap(Other(s), y, hs, hp)

LEMMA RotationLevels ==
  ASSUME NEW v, NEW w, NEW t, NEW u, NEW s, NEW n, Rotation(v, w, t, u, s, n),
         NEW h, NEW k, NEW y, NEW hs, NEW hp, LevelTurn(t, h, k, s, n, y, hs, hp),
         \A a \in All(t, u) : a # n /\ a # y => LevelAt(t, h, hs, hp, a)
  PROVE  \A a \in All(v, w) : LevelAt(v, k, hs, hp, a)
<1>1. All(v, w) = All(t, u)
  BY RotationFacts
<1>2. Shape(t, u) /\ s \in Side /\ n \in All(t, u) /\ y = Kid(t, Other(s), n) /\ y # Sentinel /\ RotateIs(v, t, s, n)
  BY DEF Rotation, LevelTurn
<1>3. /\ Lvl(k, y) = Lvl(h, n) /\ \A a \in Ptr : a # n /\ a # y => Lvl(k, a) = Lvl(h, a)
      /\ Lvl(k, n) = Lvl(h, Kid(t, s, n)) + Weight(t, n) + Gap(s, n, hs, hp)
      /\ Lvl(k, n) = Lvl(h, Kid(t, s, y)) + Weight(t, n) + Gap(Other(s), n, hs, hp)
      /\ Lvl(h, n) = Lvl(k, n) + Weight(t, y) + Gap(s, y, hs, hp)
      /\ Lvl(h, n) = Lvl(h, Kid(t, Other(s), y)) + Weight(t, y) + Gap(Other(s), y, hs, hp)
  BY DEF LevelTurn
<1>4. \A a \in All(t, u) : LevelAt(v, k, hs, hp, a)
  BY <1>2, <1>3, RotateLevels
<1> QED BY <1>1, <1>4

-------------------------------------------------------------------------------
(* The loop of ngx_rbtree_insert(): only n may be the red child of a red   *)
(* node.                                                                   *)
Rising(t, u, h, n) ==
  /\ Shape(t, u) /\ Level(t, u, h, "left", Sentinel) /\ n \in All(t, u) /\ Weight(t, n) = 0
  /\ RedRule(t, u, n, Sentinel) /\ (Weight(t, Top(t)) = 1 \/ n = Top(t))

(* Where it goes on.                                                       *)
RisingOn(t, u, n, p, g, s) ==
  /\ p \in All(t, u) /\ g \in All(t, u) /\ s \in Side /\ Kid(t, s, g) = p /\ p # Top(t)
  /\ Weight(t, p) = 0 /\ Weight(t, g) = 1 /\ Weight(t, Top(t)) = 1 /\ g # p /\ n # p /\ n # g
  /\ n = Kid(t, s, p) \/ n = Kid(t, Other(s), p)
  /\ n \in Sub(u, g) /\ Count(u, n) < Count(u, g) /\ Dad(t, n) = p /\ Dad(t, p) = g

LEMMA RisingParents ==
  ASSUME NEW t, NEW u, NEW h, NEW n, Rising(t, u, h, n), n # Top(t), Weight(t, Dad(t, n)) = 0
  PROVE  RisingOn(t, u, n, Dad(t, n), Dad(t, Dad(t, n)), SideOf(t, Dad(t, n)))
<1> DEFINE p == Dad(t, n)
           g == Dad(t, p)
           s == SideOf(t, p)
           T == All(t, u)
<1>1. /\ t \in Tree /\ Top(t) \in Ptr /\ u \in Subs /\ Down(t, u) /\ Parts(t, u) /\ Nested(t, u) /\ Upward(t, u)
      /\ \A a \in T : NodeFacts(t, u, a)
  BY ShapeFacts DEF Shape, Rising
<1>2. n \in T /\ Weight(t, n) = 0 /\ Weight(t, Top(t)) = 1 /\ RedRule(t, u, n, Sentinel)
  BY DEF Rising
<1>3. p \in T /\ Kid(t, SideOf(t, n), p) = n /\ SideOf(t, n) \in Side /\ p # n /\ n \in Sub(u, p) /\ p \notin Sub(u, n) /\ n \in Sub(u, n)
  BY <1>1, <1>2, Sides DEF Upward, NodeFacts
<1>4. p # Top(t)
  BY <1>2
<1> HIDE DEF p
<1>5. g \in T /\ Kid(t, s, g) = p /\ s \in Side /\ g # p /\ p \in Sub(u, g) /\ g \notin Sub(u, p) /\ p \in Sub(u, p)
  BY <1>1, <1>3, <1>4, Sides DEF Upward, NodeFacts
<1>6. Weight(t, p) = 0
  BY DEF p
<1> HIDE DEF g, s
<1>7. Weight(t, g) = 1
  <2>1. Weight(t, g) \in {0, 1}
    BY <1>1, <1>5, Fields DEF NodeFacts
  <2>2. g # Sentinel
    BY <1>1, <1>5 DEF NodeFacts
  <2> QED BY <1>2, <1>3, <1>5, <1>6, <2>1, <2>2 DEF RedRule
<1>8. n = Kid(t, s, p) \/ n = Kid(t, Other(s), p)
  BY <1>3, <1>5, Sides
<1>9. n # g /\ n \in Sub(u, g)
  BY <1>1, <1>3, <1>5 DEF Nested
<1>10. Count(u, n) < Count(u, g)
  <2>1. \A c \in Sub(u, n) : c \in Sub(u, g)
    BY <1>1, <1>5, <1>9 DEF Nested
  <2>2. g \notin Sub(u, n)
    BY <1>1, <1>3, <1>5 DEF Nested
  <2>3. g \in Sub(u, g) /\ g \in Ptr /\ n \in Ptr
    BY <1>1, <1>2, <1>5 DEF NodeFacts
  <2> QED BY <1>1, <2>1, <2>2, <2>3, CountFacts
<1> QED BY <1>2, <1>3, <1>4, <1>5, <1>6, <1>7, <1>8, <1>9, <1>10 DEF RisingOn, p, g, s

(* n, the outer child of q, and q, the child of g on the same side, are    *)
(* red.                                                                    *)
Outer(t, u, h, s, n, q, g) ==
  /\ Shape(t, u) /\ Level(t, u, h, "left", Sentinel) /\ n \in All(t, u) /\ q \in All(t, u) /\ g \in All(t, u)
  /\ s \in Side /\ Kid(t, s, q) = n /\ Kid(t, s, g) = q /\ Weight(t, n) = 0 /\ Weight(t, q) = 0 /\ Weight(t, g) = 1
  /\ Weight(t, Kid(t, Other(s), g)) = 1 /\ RedRule(t, u, n, Sentinel) /\ Weight(t, Top(t)) = 1

LEMMA InsertTurns ==
  ASSUME NEW t, NEW u, NEW h, NEW n, Rising(t, u, h, n), NEW d \in Ranks, Order(t, u, d),
         NEW p, NEW g, NEW s, RisingOn(t, u, n, p, g, s), n = Kid(t, Other(s), p), Weight(t, Kid(t, Other(s), g)) = 1,
         NEW v, v = Rotate(t, s, p)
  PROVE  \E w, k : /\ Outer(v, w, k, s, p, n, g) /\ Order(v, w, d) /\ All(v, w) = All(t, u)
                   /\ Keys(v) = Keys(t) /\ Top(v) = Top(t) /\ v \in Tree /\ Dad(v, p) = n
<1> DEFINE o == Other(s)
           x == Kid(t, s, n)
           A == Kid(t, s, p)
           C == Kid(t, o, n)
           T == All(t, u)
<1> USE DEF RisingOn, Rising
<1>1. /\ t \in Tree /\ Top(t) \in Ptr /\ u \in Subs /\ Down(t, u) /\ Parts(t, u) /\ Nested(t, u) /\ Upward(t, u)
      /\ \A a \in T : NodeFacts(t, u, a)
  BY ShapeFacts DEF Shape
<1>2. o \in Side /\ o # s /\ Other(o) = s /\ s \in Side /\ (\A z \in Side : z = s \/ z = o)
  BY Sides
<1>3. n \in T /\ p \in T /\ g \in T /\ n # Sentinel /\ p # Sentinel /\ g # Sentinel /\ n \in Ptr /\ p \in Ptr /\ g \in Ptr
      /\ x \in Ptr /\ A \in Ptr /\ C \in Ptr /\ p # n
  BY <1>1, <1>2, Fields DEF NodeFacts
<1>4. RotateIs(v, t, s, p)
  BY <1>2, <1>3, RotatesIn
<1>5. PICK w, low : /\ TurnIs(w, u, p, n, low)
                    /\ \A b : b \in low <=> b = p \/ b \in Sub(u, A) \/ b \in Sub(u, x)
  BY <1>2, <1>3, Turns
<1>6. Shape(v, w) /\ All(v, w) = T
  BY <1>2, <1>3, <1>4, <1>5, RotateShape
<1>7. Order(v, w, d)
  BY <1>2, <1>3, <1>4, <1>5, RotateOrder
<1>8. PICK k : LvlSwap(k, h, p, n)
  BY <1>3, LvlSwaps DEF Level
<1>9. h \in Levels /\ Lvl(h, Sentinel) = 0 /\ \A a \in T : LevelAt(t, h, "left", Sentinel, a)
  BY DEF Level
<1>10. Lvl(h, p) = Lvl(h, A) /\ Lvl(h, p) = Lvl(h, n) /\ Lvl(h, n) = Lvl(h, x) /\ Lvl(h, n) = Lvl(h, C)
  <2>1. \A a \in Ptr : Lvl(h, a) \in Nat
    BY <1>9, LevelFacts
  <2>2. Lvl(h, p) = Lvl(h, A) + 0 + 0 /\ Lvl(h, p) = Lvl(h, n) + 0 + 0 /\ Lvl(h, n) = Lvl(h, x) + 0 + 0 /\ Lvl(h, n) = Lvl(h, C) + 0 + 0
    BY <1>2, <1>3, <1>9, NoGap DEF LevelAt
  <2> QED BY <1>3, <2>1, <2>2
<1>11. \A a \in T : LevelAt(v, k, "left", Sentinel, a)
  <2>1. Lvl(k, n) = Lvl(h, p) /\ Lvl(k, p) = Lvl(h, n) /\ \A a \in Ptr : a # p /\ a # n => Lvl(k, a) = Lvl(h, a)
    BY <1>8 DEF LvlSwap
  <2>2. \A a \in Ptr : Lvl(h, a) \in Nat
    BY <1>9, LevelFacts
  <2>3. /\ Lvl(k, p) = Lvl(h, A) + Weight(t, p) + Gap(s, p, "left", Sentinel)
        /\ Lvl(k, p) = Lvl(h, x) + Weight(t, p) + Gap(o, p, "left", Sentinel)
        /\ Lvl(h, p) = Lvl(k, p) + Weight(t, n) + Gap(s, n, "left", Sentinel)
        /\ Lvl(h, p) = Lvl(h, C) + Weight(t, n) + Gap(o, n, "left", Sentinel)
    <3>1. Gap(s, p, "left", Sentinel) = 0 /\ Gap(o, p, "left", Sentinel) = 0 /\ Gap(s, n, "left", Sentinel) = 0 /\ Gap(o, n, "left", Sentinel) = 0
      BY <1>3, NoGap
    <3> HIDE DEF x, A, C, o
    <3> QED BY <1>3, <1>10, <2>1, <2>2, <3>1
  <2> QED BY <1>2, <1>3, <1>4, <1>9, <2>1, <2>3, RotateLevels
<1>12. Level(v, w, k, "left", Sentinel)
  <2>1. Lvl(k, Sentinel) = Lvl(h, Sentinel) /\ k \in Levels
    BY <1>3, <1>8 DEF LvlSwap, Ptr
  <2> QED BY <1>6, <1>9, <1>11, <2>1 DEF Level
<1>13. /\ v \in Tree /\ Top(v) = Top(t) /\ Keys(v) = Keys(t) /\ (\A a \in Ptr : Weight(v, a) = Weight(t, a)) /\ Kid(v, s, n) = p
       /\ Kid(v, o, n) = C /\ Kid(v, s, p) = A /\ Kid(v, o, p) = x /\ Dad(v, p) = n
  <2>1. x # p
    BY <1>1, <1>2, <1>3 DEF Parts, Down, NodeFacts
  <2> QED BY <1>4, <2>1 DEF RotateIs
<1>14. Weight(t, x) = 1 /\ Weight(t, C) = 1 /\ Weight(t, A) = 1
  <2>0. \A a \in Ptr : Weight(t, a) \in {0, 1}
    BY <1>1, Fields
  <2>1. n # x /\ n # C /\ n # A
    BY <1>1, <1>2, <1>3 DEF NodeFacts
  <2>2. Weight(t, x) = 0 => x = n
    BY <1>2, <1>3 DEF RedRule
  <2>3. Weight(t, C) = 0 => C = n
    BY <1>2, <1>3 DEF RedRule
  <2>4. Weight(t, A) = 0 => A = n
    BY <1>2, <1>3 DEF RedRule
  <2> QED BY <1>3, <2>0, <2>1, <2>2, <2>3, <2>4
<1>15. \A a \in T, z \in Side : a # p /\ a # n => (Kid(v, z, a) = Kid(t, z, a) /\ Kid(t, z, a) # p /\ Kid(t, z, a) # n) \/ (Kid(v, z, a) = n /\ Kid(t, z, a) = p)
  BY <1>2, <1>3, <1>4, RotateKids
<1>16. RedRule(v, w, p, Sentinel)
  <2>1. Weight(v, Sentinel) = 1
    BY <1>13 DEF RedRule, Ptr
  <2>2. ASSUME NEW a \in T, NEW z \in Side, Weight(v, a) = 0, Weight(v, Kid(v, z, a)) = 0 PROVE Kid(v, z, a) = p
    <3>1. CASE a = p
      BY <1>2, <1>3, <1>13, <1>14, <2>2, <3>1
    <3>2. CASE a = n
      BY <1>2, <1>3, <1>13, <1>14, <2>2, <3>2
    <3>3. CASE a # p /\ a # n
      <4>1. Kid(t, z, a) # p
        BY <1>1, <1>3, <1>13, <2>2, <3>3 DEF Down
      <4>2. Kid(v, z, a) = Kid(t, z, a) /\ Kid(t, z, a) # n /\ Kid(t, z, a) \in Ptr /\ a \in Ptr
        BY <1>1, <1>15, <3>3, <4>1, Fields DEF NodeFacts
      <4>3. a # Sentinel
        BY <1>1 DEF NodeFacts
      <4> QED BY <1>13, <2>2, <4>2, <4>3 DEF RedRule
    <3> QED BY <3>1, <3>2, <3>3
  <2> QED BY <1>6, <2>1, <2>2 DEF RedRule
<1>17. Kid(v, s, g) = n /\ Kid(v, o, g) = Kid(t, o, g) /\ Kid(t, o, g) \in Ptr
  <2>1. Kid(t, o, g) # p
    BY <1>1, <1>2, <1>3 DEF NodeFacts
  <2> QED BY <1>1, <1>2, <1>3, <1>15, <2>1, Fields
<1>18. Outer(v, w, k, s, p, n, g)
  <2>1. Weight(v, p) = 0 /\ Weight(v, n) = 0 /\ Weight(v, g) = 1 /\ Weight(v, Kid(v, o, g)) = 1 /\ Weight(v, Top(v)) = 1
    BY <1>1, <1>3, <1>13, <1>17
  <2> QED BY <1>2, <1>3, <1>6, <1>12, <1>13, <1>16, <1>17, <2>1 DEF Outer
<1> QED BY <1>6, <1>7, <1>13, <1>18

-------------------------------------------------------------------------------
(* The second step of Raised: q comes up in the place of g.                *)
LEMMA InsertLifts ==
  ASSUME NEW t, NEW u, NEW h, NEW n, NEW q, NEW g, NEW s, Outer(t, u, h, s, n, q, g), NEW d \in Ranks, Order(t, u, d),
         NEW v, v = Rotate(Reddened(Blackened(t, q), g), Other(s), g)
  PROVE  \E w, k : /\ Rising(v, w, k, n) /\ Order(v, w, d) /\ All(v, w) = All(t, u) /\ Keys(v) = Keys(t)
                   /\ Dad(v, n) = q /\ Weight(v, q) = 1
<1> DEFINE o == Other(s)
           x == Kid(t, o, q)
           y == Kid(t, o, g)
           T == All(t, u)
           a1 == Blackened(t, q)
           a2 == Reddened(a1, g)
<1> USE DEF Outer
<1>1. /\ t \in Tree /\ Top(t) \in Ptr /\ u \in Subs /\ Down(t, u) /\ Parts(t, u) /\ Nested(t, u) /\ Upward(t, u)
      /\ \A a \in T : NodeFacts(t, u, a)
  BY ShapeFacts DEF Shape
<1>2. o \in Side /\ o # s /\ Other(o) = s /\ s \in Side /\ (\A z \in Side : z = s \/ z = o)
  BY Sides
<1>3. n \in T /\ q \in T /\ g \in T /\ n # Sentinel /\ q # Sentinel /\ g # Sentinel /\ n \in Ptr /\ q \in Ptr /\ g \in Ptr
      /\ x \in Ptr /\ y \in Ptr /\ g # q /\ n # q /\ n # x /\ y # q
  BY <1>1, <1>2, Fields DEF NodeFacts
<1>4. n # g /\ x # g /\ y # g /\ x # q /\ Dad(t, n) = q /\ Dad(t, q) = g
  <2>1. Dad(t, n) = q /\ Dad(t, q) = g
    BY <1>1, <1>2, <1>3 DEF Down
  <2>2. n # g
    BY <1>1, <1>2, <1>3 DEF Parts, NodeFacts
  <2>3. x # g
    BY <1>1, <1>2, <1>3 DEF Parts, NodeFacts
  <2>4. y # g /\ x # q
    BY <1>1, <1>2, <1>3 DEF NodeFacts
  <2> QED BY <2>1, <2>2, <2>3, <2>4
<1>0. /\ Level(t, u, h, "left", Sentinel) /\ Shape(t, u) /\ Kid(t, s, q) = n /\ Kid(t, s, g) = q /\ Weight(t, n) = 0 /\ Weight(t, q) = 0
      /\ Weight(t, g) = 1 /\ Weight(t, y) = 1 /\ RedRule(t, u, n, Sentinel) /\ Weight(t, Top(t)) = 1 /\ Kid(t, o, q) = x /\ Kid(t, o, g) = y
  OBVIOUS
<1> HIDE DEF a1, a2, o, x, y, Outer
<1>5. WeightIs(a1, t, q, 1) /\ WeightIs(a2, a1, g, 0)
  <2>1. WeightIs(a1, t, q, 1)
    BY <1>1, <1>3, WeightPut DEF a1
  <2>2. a1 \in Tree
    BY <2>1 DEF WeightIs
  <2> QED BY <1>3, <2>1, <2>2, WeightPut DEF a2
<1>6. /\ a2 \in Tree /\ Top(a2) = Top(t) /\ Keys(a2) = Keys(t) /\ Weight(a2, q) = 1 /\ Weight(a2, g) = 0
      /\ \A z \in Side, a \in Ptr : Kid(a2, z, a) = Kid(t, z, a)
      /\ \A a \in Ptr : Dad(a2, a) = Dad(t, a) /\ (a # q /\ a # g => Weight(a2, a) = Weight(t, a))
  BY <1>3, <1>5 DEF WeightIs
<1>7. LinksKept(a2, t, u)
  BY <1>0, <1>1, <1>6 DEF LinksKept, NodeFacts
<1>8. Shape(a2, u) /\ All(a2, u) = T /\ Order(a2, u, d)
  BY <1>0, <1>7, LinksShape, LinksOrder
<1>9. Kid(a2, s, g) = q /\ Kid(a2, o, g) = y /\ Kid(a2, o, q) = x /\ Kid(a2, s, q) = n
  BY <1>0, <1>2, <1>3, <1>6
<1>10. v = Rotate(a2, o, g)
  BY DEF a1, a2, o
<1>11. PICK w : Rotation(v, w, a2, u, o, g)
  BY <1>2, <1>3, <1>8, <1>9, <1>10, Rotations
<1>12. Shape(v, w) /\ All(v, w) = All(a2, u) /\ RotateIs(v, a2, o, g) /\ Order(v, w, d)
  BY <1>8, <1>11, RotationFacts
<1>13. Shape(v, w) /\ All(v, w) = T /\ Order(v, w, d)
  BY <1>8, <1>12
<1>14. PICK k : LvlSwap(k, h, g, q)
  BY <1>0, <1>3, LvlSwaps DEF Level
<1>15. h \in Levels /\ Lvl(h, Sentinel) = 0 /\ (\A a \in T : LevelAt(t, h, "left", Sentinel, a)) /\ \A a \in Ptr : Lvl(h, a) \in Nat
  BY <1>0, LevelFacts DEF Level
<1>16. Lvl(h, g) = Lvl(h, q) + 1 /\ Lvl(h, g) = Lvl(h, y) + 1 /\ Lvl(h, q) = Lvl(h, n) /\ Lvl(h, q) = Lvl(h, x)
  <2>1. /\ Lvl(h, g) = Lvl(h, q) + 1 + 0 /\ Lvl(h, g) = Lvl(h, y) + 1 + 0
        /\ Lvl(h, q) = Lvl(h, n) + 0 + 0 /\ Lvl(h, q) = Lvl(h, x) + 0 + 0
    BY <1>0, <1>2, <1>3, <1>15, NoGap DEF LevelAt
  <2> QED BY <1>3, <1>15, <2>1
<1>17. \A a \in T : LevelAt(v, k, "left", Sentinel, a)
  <2>1. Lvl(k, q) = Lvl(h, g) /\ Lvl(k, g) = Lvl(h, q) /\ \A a \in Ptr : a # g /\ a # q => Lvl(k, a) = Lvl(h, a)
    BY <1>14 DEF LvlSwap
  <2>2. LevelTurn(a2, h, k, o, g, q, "left", Sentinel)
    <3>1. Gap(s, g, "left", Sentinel) = 0 /\ Gap(o, g, "left", Sentinel) = 0 /\ Gap(s, q, "left", Sentinel) = 0 /\ Gap(o, q, "left", Sentinel) = 0
      BY <1>3, NoGap
    <3>2. Lvl(h, x) = Lvl(h, q) /\ Lvl(h, y) = Lvl(h, q) /\ Lvl(h, n) = Lvl(h, q) /\ Lvl(h, g) = Lvl(h, q) + 1 /\ Lvl(h, q) \in Nat
      BY <1>3, <1>15, <1>16
    <3>3. Lvl(k, g) = Lvl(h, y) + 0 + 0 /\ Lvl(k, g) = Lvl(h, x) + 0 + 0 /\ Lvl(h, g) = Lvl(k, g) + 1 + 0 /\ Lvl(h, g) = Lvl(h, n) + 1 + 0
      BY <2>1, <3>2
    <3> QED BY <1>2, <1>6, <1>9, <2>1, <3>1, <3>3 DEF LevelTurn
  <2>3. \A a \in All(a2, u) : a # g /\ a # q => LevelAt(a2, h, "left", Sentinel, a)
    BY <1>1, <1>6, <1>8, <1>15 DEF LevelAt, NodeFacts
  <2>4. \A a \in All(v, w) : LevelAt(v, k, "left", Sentinel, a)
    BY <1>11, <2>2, <2>3, RotationLevels
  <2> QED BY <1>13, <2>4
<1>18. Level(v, w, k, "left", Sentinel)
  <2>1. Lvl(k, Sentinel) = Lvl(h, Sentinel) /\ k \in Levels
    BY <1>3, <1>14 DEF LvlSwap, Ptr
  <2> QED BY <1>13, <1>15, <1>17, <2>1 DEF Level
<1>19. /\ v \in Tree /\ Keys(v) = Keys(t) /\ (\A a \in Ptr : Weight(v, a) = Weight(a2, a))
       /\ Kid(v, o, q) = g /\ Kid(v, s, q) = n /\ Kid(v, o, g) = y /\ Kid(v, s, g) = x
       /\ Top(v) = (IF g = Top(t) THEN q ELSE Top(t)) /\ Dad(v, n) = q
  <2>1. n # x \/ x = Sentinel
    BY <1>3
  <2>2. RotateIs(v, a2, o, g) /\ Other(o) = s /\ Kid(a2, s, g) = q /\ Kid(a2, o, q) = x /\ Kid(a2, o, g) = y /\ Kid(a2, s, q) = n
    BY <1>2, <1>9, <1>12
  <2>3. Kid(v, s, g) = x /\ Kid(v, o, g) = y /\ Kid(v, o, q) = g /\ Kid(v, s, q) = n
    BY <2>2 DEF RotateIs
  <2>4. Dad(a2, n) = q
    BY <1>3, <1>4, <1>6
  <2>5. Dad(v, n) = Dad(a2, n)
    BY <1>3, <1>4, <2>1, <2>2 DEF RotateIs
  <2>6. v \in Tree /\ Keys(v) = Keys(a2) /\ (\A a \in Ptr : Weight(v, a) = Weight(a2, a)) /\ Top(v) = IF g = Top(a2) THEN q ELSE Top(a2)
    BY <2>2 DEF RotateIs
  <2> QED BY <1>6, <2>3, <2>4, <2>5, <2>6
<1>20. Weight(t, x) = 1
  <2>1. Weight(t, x) \in {0, 1}
    BY <1>1, <1>3, Fields
  <2> QED BY <1>0, <1>2, <1>3, <2>1 DEF RedRule
<1>21. RedRule(v, w, n, Sentinel)
  <2>1. Weight(v, Sentinel) = 1
    BY <1>0, <1>3, <1>6, <1>19 DEF RedRule, Ptr
  <2>2. ASSUME NEW a \in T, NEW z \in Side, Weight(v, a) = 0, Weight(v, Kid(v, z, a)) = 0 PROVE Kid(v, z, a) = n
    <3>1. CASE a = g
      <4>1. Weight(v, x) = 1 /\ Weight(v, y) = 1
        BY <1>0, <1>3, <1>4, <1>6, <1>19, <1>20
      <4> QED BY <1>2, <1>19, <2>2, <3>1, <4>1
    <3>2. CASE a = q
      BY <1>3, <1>6, <1>19, <2>2, <3>2
    <3>3. CASE a # g /\ a # q
      <4>1. \/ Kid(v, z, a) = Kid(a2, z, a) /\ Kid(a2, z, a) # g /\ Kid(a2, z, a) # q
            \/ Kid(v, z, a) = q /\ Kid(a2, z, a) = g
        <5>1. KidsKept(v, a2, u, o, g)
          BY <1>11, RotationKids
        <5>2. a \in All(a2, u)
          BY <1>8
        <5> QED BY <1>2, <1>9, <3>3, <5>1, <5>2 DEF KidsKept
      <4>2. a \in Ptr /\ a # Sentinel
        BY <1>1 DEF NodeFacts
      <4>3. Kid(v, z, a) # q
        BY <1>3, <1>6, <1>19, <2>2
      <4>4. Kid(v, z, a) = Kid(t, z, a) /\ Kid(t, z, a) # g /\ Kid(t, z, a) # q /\ Kid(t, z, a) \in Ptr
        BY <1>1, <1>6, <4>1, <4>2, <4>3, Fields
      <4>5. Weight(t, a) = 0 /\ Weight(t, Kid(t, z, a)) = 0
        BY <1>6, <1>19, <2>2, <3>3, <4>2, <4>4
      <4> QED BY <1>0, <4>2, <4>4, <4>5 DEF RedRule
    <3> QED BY <3>1, <3>2, <3>3
  <2> QED BY <1>13, <2>1, <2>2 DEF RedRule
<1>22. Weight(v, n) = 0 /\ Weight(v, q) = 1 /\ Weight(v, Top(v)) = 1
  <2>1. Weight(v, n) = 0 /\ Weight(v, q) = 1
    BY <1>0, <1>3, <1>4, <1>6, <1>19
  <2>2. Top(t) # q
    BY <1>0
  <2>3. Top(t) # g => Weight(v, Top(t)) = 1
    BY <1>0, <1>1, <1>6, <1>19, <2>2
  <2> QED BY <1>19, <2>1, <2>3
<1>23. Rising(v, w, k, n)
  BY <1>3, <1>13, <1>18, <1>21, <1>22 DEF Rising
<1> QED BY <1>13, <1>19, <1>22, <1>23

(* Recoloured: the red parent and its red sibling become black, and the    *)
(* node above both red.                                                    *)
LEMMA InsertRecolours ==
  ASSUME NEW t, NEW u, NEW h, NEW n, Rising(t, u, h, n), NEW d \in Ranks, Order(t, u, d),
         NEW p, NEW g, NEW s, RisingOn(t, u, n, p, g, s), NEW y, y = Kid(t, Other(s), g), Weight(t, y) = 0,
         NEW v, v = Reddened(Blackened(Blackened(t, p), y), g)
  PROVE  \E k : Rising(v, u, k, g) /\ Order(v, u, d) /\ All(v, u) = All(t, u) /\ Keys(v) = Keys(t)
<1> DEFINE o == Other(s)
           T == All(t, u)
           a1 == Blackened(t, p)
           a2 == Blackened(a1, y)
<1> USE DEF Rising, RisingOn
<1>1. /\ t \in Tree /\ Top(t) \in Ptr /\ u \in Subs /\ Down(t, u) /\ Parts(t, u) /\ Nested(t, u) /\ Upward(t, u)
      /\ \A a \in T : NodeFacts(t, u, a)
  BY ShapeFacts DEF Shape
<1>2. o \in Side /\ o # s /\ Other(o) = s /\ s \in Side /\ (\A z \in Side : z = s \/ z = o)
  BY Sides
<1>3. n \in T /\ p \in T /\ g \in T /\ y \in T /\ p # Sentinel /\ g # Sentinel /\ y # Sentinel /\ y # p /\ y # g /\ p # g
      /\ p \in Ptr /\ y \in Ptr /\ g \in Ptr /\ Dad(t, y) = g /\ Dad(t, p) = g
  <2>1. y # Sentinel
    BY DEF RedRule
  <2> QED BY <1>1, <1>2, <2>1 DEF NodeFacts, Down
<1>4. /\ Level(t, u, h, "left", Sentinel) /\ Shape(t, u) /\ RedRule(t, u, n, Sentinel) /\ Weight(t, Top(t)) = 1
      /\ Weight(t, p) = 0 /\ Weight(t, g) = 1 /\ Kid(t, s, g) = p /\ Kid(t, o, g) = y /\ Dad(t, n) = p
  OBVIOUS
<1> HIDE DEF a1, a2, Rising, RisingOn, o
<1>5. WeightIs(a1, t, p, 1) /\ WeightIs(a2, a1, y, 1) /\ WeightIs(v, a2, g, 0)
  <2>1. WeightIs(a1, t, p, 1)
    BY <1>1, <1>3, WeightPut DEF a1
  <2>2. a1 \in Tree
    BY <2>1 DEF WeightIs
  <2>3. WeightIs(a2, a1, y, 1)
    BY <1>3, <2>1, <2>2, WeightPut DEF a2
  <2>4. a2 \in Tree
    BY <2>3 DEF WeightIs
  <2>5. v = Reddened(a2, g)
    BY DEF a1, a2
  <2> QED BY <1>3, <2>1, <2>3, <2>4, <2>5, WeightPut
<1>6. /\ v \in Tree /\ Top(v) = Top(t) /\ Keys(v) = Keys(t) /\ Weight(v, p) = 1 /\ Weight(v, y) = 1 /\ Weight(v, g) = 0
      /\ \A z \in Side, a \in Ptr : Kid(v, z, a) = Kid(t, z, a)
      /\ \A a \in Ptr : Dad(v, a) = Dad(t, a) /\ (a # p /\ a # y /\ a # g => Weight(v, a) = Weight(t, a))
  <2>1. /\ a2 \in Tree /\ Top(a2) = Top(t) /\ Keys(a2) = Keys(t) /\ Weight(a2, p) = 1 /\ Weight(a2, y) = 1
        /\ \A z \in Side, a \in Ptr : Kid(a2, z, a) = Kid(t, z, a)
        /\ \A a \in Ptr : Dad(a2, a) = Dad(t, a) /\ (a # p /\ a # y => Weight(a2, a) = Weight(t, a))
    BY <1>3, <1>5 DEF WeightIs
  <2> QED BY <1>3, <1>5, <2>1 DEF WeightIs
<1>7. LinksKept(v, t, u)
  BY <1>4, <1>1, <1>6 DEF LinksKept, NodeFacts
<1>8. Shape(v, u) /\ All(v, u) = T /\ Order(v, u, d)
  BY <1>4, <1>7, LinksShape, LinksOrder
<1>9. h \in Levels /\ Lvl(h, Sentinel) = 0 /\ (\A a \in T : LevelAt(t, h, "left", Sentinel, a)) /\ \A a \in Ptr : Lvl(h, a) \in Nat
  BY <1>4, LevelFacts DEF Level
<1>10. PICK i : LvlPut(i, h, p, Lvl(h, p) + 1)
  BY <1>3, <1>9, LvlPuts
<1>11. PICK k : LvlPut(k, i, y, Lvl(h, y) + 1)
  <2>1. i \in Levels
    BY <1>10 DEF LvlPut
  <2> QED BY <1>3, <1>9, <2>1, LvlPuts
<1>12. /\ k \in Levels /\ Lvl(k, p) = Lvl(h, p) + 1 /\ Lvl(k, y) = Lvl(h, y) + 1 /\ Lvl(k, Sentinel) = 0
       /\ \A a \in Ptr : a # p /\ a # y => Lvl(k, a) = Lvl(h, a)
  BY <1>3, <1>9, <1>10, <1>11 DEF LvlPut, Ptr
<1>13. ASSUME NEW a \in T PROVE LevelAt(v, k, "left", Sentinel, a)
  <2> SUFFICES ASSUME NEW z \in Side PROVE Lvl(k, a) = Lvl(k, Kid(v, z, a)) + Weight(v, a) + Gap(z, a, "left", Sentinel)
    BY DEF LevelAt
  <2> DEFINE c == Kid(t, z, a)
  <2>1. a \in Ptr /\ a # Sentinel /\ c \in Ptr /\ Kid(v, z, a) = c
    BY <1>1, <1>6, Fields DEF NodeFacts
  <2>2. Gap(z, a, "left", Sentinel) = 0 /\ Lvl(h, a) = Lvl(h, c) + Weight(t, a) + 0
    BY <1>9, <2>1, NoGap DEF LevelAt
  <2>3. a # g => c # p /\ c # y
    BY <1>1, <1>3 DEF Down
  <2>4. a = g => c = p \/ c = y
    BY <1>2, <1>4
  <2>5. Lvl(h, a) \in Nat /\ Lvl(h, c) \in Nat /\ Weight(t, a) \in {0, 1}
    BY <1>1, <1>9, <2>1, Fields
  <2> HIDE DEF c
  <2>6. CASE a = g
    <3>1. Lvl(k, c) = Lvl(h, c) + 1 /\ Lvl(k, a) = Lvl(h, a) /\ Weight(v, a) = 0 /\ Weight(t, a) = 1
      BY <1>3, <1>4, <1>6, <1>12, <2>4, <2>6
    <3> QED BY <2>1, <2>2, <2>5, <3>1
  <2>7. CASE a = p \/ a = y
    <3>1. c # p /\ c # y
      BY <1>3, <2>3, <2>7
    <3>2. Lvl(k, c) = Lvl(h, c) /\ Lvl(k, a) = Lvl(h, a) + 1 /\ Weight(v, a) = 1 /\ Weight(t, a) = 0
      BY <1>4, <1>6, <1>12, <2>1, <2>7, <3>1
    <3> QED BY <2>1, <2>2, <2>5, <3>2
  <2>8. CASE a # g /\ a # p /\ a # y
    BY <1>6, <1>12, <2>1, <2>2, <2>3, <2>5, <2>8
  <2> QED BY <2>6, <2>7, <2>8
<1>14. Level(v, u, k, "left", Sentinel)
  BY <1>8, <1>12, <1>13 DEF Level
<1>15. RedRule(v, u, g, Sentinel)
  <2>1. Weight(v, Sentinel) = 1
    BY <1>3, <1>4, <1>6 DEF RedRule, Ptr
  <2>2. ASSUME NEW a \in T, NEW z \in Side, Weight(v, a) = 0, Weight(v, Kid(v, z, a)) = 0 PROVE Kid(v, z, a) = g
    <3> DEFINE c == Kid(t, z, a)
    <3>1. a \in Ptr /\ a # Sentinel /\ c \in Ptr /\ Kid(v, z, a) = c
      BY <1>1, <1>6, Fields DEF NodeFacts
    <3>2. SUFFICES ASSUME c # g PROVE FALSE
      BY <3>1
    <3>3. a # p /\ a # y /\ c # p /\ c # y
      BY <1>6, <2>2, <3>1
    <3>4. a # g
      BY <1>2, <1>4, <3>3
    <3>5. Weight(t, a) = 0 /\ Weight(t, c) = 0
      BY <1>6, <2>2, <3>1, <3>2, <3>3, <3>4
    <3>6. c = n
      BY <1>4, <3>1, <3>5 DEF RedRule
    <3>7. Dad(t, c) = a
      BY <1>1, <1>3, <3>6 DEF Down, NodeFacts
    <3> QED BY <1>4, <3>3, <3>6, <3>7
  <2> QED BY <1>8, <2>1, <2>2 DEF RedRule
<1>16. Weight(v, Top(v)) = 1 \/ g = Top(v)
  BY <1>1, <1>4, <1>6, <1>3
<1>17. Rising(v, u, k, g)
  BY <1>3, <1>6, <1>8, <1>14, <1>15, <1>16 DEF Rising
<1> QED BY <1>6, <1>8, <1>17

-------------------------------------------------------------------------------
(* Trees stay trees, whatever is rotated.                                  *)
LEMMA RotateType ==
  ASSUME NEW t \in Tree, NEW s \in Side, NEW n \in Ptr
  PROVE  Rotate(t, s, n) \in Tree
<1> DEFINE o == Other(s)
           y == Kid(t, Other(s), n)
           x == Kid(t, s, y)
           b == Hang(t, n, y)
           c1 == PutChild(b, o, n, x)
           c2 == PutChild(c1, s, y, n)
           c3 == PutParent(c2, y, Dad(t, n))
           c4 == PutParent(c3, n, y)
<1>1. o \in Side /\ y \in Ptr /\ x \in Ptr /\ Dad(t, n) \in Ptr
  BY Fields, Sides
<1>2. Rotate(t, s, n) = Adopt(c4, x, n)
  BY SMTT(60) DEF Rotate, PutChild, PutParent, Kid, Dad
<1> HIDE DEF o, b, c1, c2, c3, c4, y, x
<1>3. b \in Tree
  BY <1>1, Hung DEF b, HungIs
<1>4. c1 \in Tree
  BY <1>1, <1>3, ChildPut DEF c1, ChildIs
<1>5. c2 \in Tree
  BY <1>1, <1>4, ChildPut DEF c2, ChildIs
<1>6. c3 \in Tree
  BY <1>1, <1>5, ParentPut DEF c3, ParentIs
<1>7. c4 \in Tree
  BY <1>1, <1>6, ParentPut DEF c4, ParentIs
<1> QED BY <1>1, <1>2, <1>7, Adopted DEF AdoptIs

LEMMA WeightType ==
  ASSUME NEW t \in Tree, NEW n \in Ptr
  PROVE  Blackened(t, n) \in Tree /\ Reddened(t, n) \in Tree
BY WeightPut DEF WeightIs

TreeOf(b) == b.tree
AtOf(b) == b.at

LEMMA Cursors ==
  /\ \A b \in Cursor : TreeOf(b) \in Tree /\ AtOf(b) \in Ptr
  /\ \A t \in Tree, n \in Ptr : At(t, n) \in Cursor
  /\ \A t, n : TreeOf(At(t, n)) = t /\ AtOf(At(t, n)) = n
BY DEF Cursor, At, TreeOf, AtOf

LEMMA IsBlack ==
  ASSUME NEW t \in Tree, NEW a \in Ptr
  PROVE  t.red[a] \in BOOLEAN /\ (t.red[a] <=> Weight(t, a) = 0)
BY DEF Tree, Weight

(* What the loop of ngx_rbtree_insert() does in one round.                 *)
LiftOf(t, s, q, g, low) == At(Rotate(Reddened(Blackened(t, q), g), Other(s), g), low)
RaisedOf(t, s, n, p, g) ==
  IF n = Kid(t, Other(s), p) THEN LiftOf(Rotate(t, s, p), s, Dad(Rotate(t, s, p), p), g, p) ELSE LiftOf(t, s, p, g, n)
RecolouredOf(t, p, y, g) == At(Reddened(Blackened(Blackened(t, p), y), g), g)

LEMMA RaisedIs ==
  ASSUME NEW t, NEW s, NEW n
  PROVE  Raised(t, s, n) = RaisedOf(t, s, n, Dad(t, n), Dad(t, Dad(t, n)))
<1> DEFINE p == Dad(t, n)
           g == Dad(t, p)
           Lift(v, q, low) == At(Rotate([v EXCEPT !.red[q] = FALSE, !.red[g] = TRUE], Other(s), g), low)
           turned == IF n = Kid(t, Other(s), p) THEN Rotate(t, s, p) ELSE t
           low == IF n = Kid(t, Other(s), p) THEN p ELSE n
<1>1. Raised(t, s, n) = Lift(turned, Dad(turned, low), low)
  BY Zenon DEF Raised, Kid, Dad
<1>2. \A v, q, m : Lift(v, q, m) = LiftOf(v, s, q, g, m)
  BY DEF LiftOf, Blackened, Reddened, Painted
<1> HIDE DEF Lift, g, p
<1>3. Raised(t, s, n) = LiftOf(turned, s, Dad(turned, low), g, low)
  BY <1>1, <1>2
<1>4. CASE n = Kid(t, Other(s), p)
  BY <1>3, <1>4 DEF RaisedOf, p, g
<1>5. CASE n # Kid(t, Other(s), p)
  BY <1>3, <1>5 DEF RaisedOf, p, g
<1> QED BY <1>4, <1>5

LEMMA RecolouredIs ==
  ASSUME NEW t, NEW p, NEW y, NEW g
  PROVE  Recoloured(t, p, y, g) = RecolouredOf(t, p, y, g)
BY DEF Recoloured, RecolouredOf, Blackened, Reddened, Painted

InsertRoundIs(b, t, n, p, g, s, y) ==
  /\ InsertEnds(b) => InsertRound[b] = b
  /\ ~InsertEnds(b) /\ Weight(t, y) = 0 => InsertRound[b] = RecolouredOf(t, p, y, g)
  /\ ~InsertEnds(b) /\ Weight(t, y) # 0 => InsertRound[b] = RaisedOf(t, s, n, p, g)
  /\ InsertEnds(b) <=> n = Top(t) \/ Weight(t, p) = 1

LEMMA InsertRounds ==
  ASSUME NEW b \in Cursor, NEW t, t = TreeOf(b), NEW n, n = AtOf(b)
  PROVE  InsertRoundIs(b, t, n, Dad(t, n), Dad(t, Dad(t, n)), SideOf(t, Dad(t, n)), Kid(t, Other(SideOf(t, Dad(t, n))), Dad(t, Dad(t, n))))
<1> DEFINE p == Dad(t, n)
           g == Dad(t, p)
           s == SideOf(t, p)
           y == Kid(t, Other(s), g)
<1>1. t \in Tree /\ n \in Ptr
  BY Cursors
<1>2. p \in Ptr /\ g \in Ptr /\ s \in Side /\ y \in Ptr
  BY <1>1, Fields, Sides
<1>3. InsertRound[b] = IF InsertEnds(b) THEN b ELSE IF t.red[y] THEN Recoloured(t, p, y, g) ELSE Raised(t, s, n)
  BY DEF InsertRound, TreeOf, AtOf, Kid, Dad
<1>4. InsertEnds(b) <=> n = Top(t) \/ ~t.red[p]
  BY DEF InsertEnds, TreeOf, AtOf, Top, Dad
<1> HIDE DEF p, g, s, y
<1>5. Weight(t, p) \in {0, 1} /\ Weight(t, y) \in {0, 1}
  BY <1>1, <1>2, Fields
<1>6. (t.red[p] <=> Weight(t, p) = 0) /\ (t.red[y] <=> Weight(t, y) = 0)
  BY <1>1, <1>2, IsBlack
<1>7. Raised(t, s, n) = RaisedOf(t, s, n, p, g)
  BY RaisedIs DEF p, g
<1>8. Recoloured(t, p, y, g) = RecolouredOf(t, p, y, g)
  BY RecolouredIs
<1>9. InsertEnds(b) <=> n = Top(t) \/ Weight(t, p) = 1
  BY <1>4, <1>5, <1>6
<1>10. InsertRoundIs(b, t, n, p, g, s, y)
  BY <1>3, <1>6, <1>7, <1>8, <1>9 DEF InsertRoundIs
<1> QED BY <1>10 DEF p, g, s, y

LEMMA InsertRoundType == InsertRound \in [Cursor -> Cursor]
<1> SUFFICES ASSUME NEW b \in Cursor PROVE InsertRound[b] \in Cursor
  <2>1. ASSUME \A b \in Cursor : InsertRound[b] \in Cursor PROVE InsertRound \in [Cursor -> Cursor]
    BY <2>1 DEF InsertRound
  <2> QED BY <2>1
<1> DEFINE t == TreeOf(b)
           n == AtOf(b)
           p == Dad(t, n)
           g == Dad(t, p)
           s == SideOf(t, p)
           y == Kid(t, Other(s), g)
<1>1. t \in Tree /\ n \in Ptr
  BY Cursors
<1>2. p \in Ptr /\ g \in Ptr /\ s \in Side /\ Other(s) \in Side /\ y \in Ptr
  BY <1>1, Fields, Sides
<1>3. InsertRoundIs(b, t, n, p, g, s, y)
  BY InsertRounds
<1> HIDE DEF t, n, p, g, s, y
<1>4. RecolouredOf(t, p, y, g) \in Cursor
  <2>1. Blackened(t, p) \in Tree
    BY <1>1, <1>2, WeightType
  <2>2. Blackened(Blackened(t, p), y) \in Tree
    BY <1>2, <2>1, WeightType
  <2>3. Reddened(Blackened(Blackened(t, p), y), g) \in Tree
    BY <1>2, <2>2, WeightType
  <2> QED BY <1>2, <2>3, Cursors DEF RecolouredOf
<1>5. ASSUME NEW q \in Ptr, NEW low \in Ptr, NEW v \in Tree PROVE LiftOf(v, s, q, g, low) \in Cursor
  <2>1. Blackened(v, q) \in Tree
    BY WeightType
  <2>2. Reddened(Blackened(v, q), g) \in Tree
    BY <1>2, <2>1, WeightType
  <2>3. Rotate(Reddened(Blackened(v, q), g), Other(s), g) \in Tree
    BY <1>2, <2>2, RotateType
  <2> QED BY <1>2, <2>3, Cursors DEF LiftOf
<1>6. RaisedOf(t, s, n, p, g) \in Cursor
  <2>1. Rotate(t, s, p) \in Tree
    BY <1>1, <1>2, RotateType
  <2>2. Dad(Rotate(t, s, p), p) \in Ptr
    BY <1>2, <2>1, Fields
  <2>3. LiftOf(Rotate(t, s, p), s, Dad(Rotate(t, s, p), p), g, p) \in Cursor
    BY <1>2, <1>5, <2>1, <2>2
  <2>4. LiftOf(t, s, p, g, n) \in Cursor
    BY <1>1, <1>2, <1>5
  <2> QED BY <2>3, <2>4 DEF RaisedOf
<1> QED BY <1>3, <1>4, <1>6 DEF InsertRoundIs

(* What the loop keeps: the nodes T, in the order d, with the keys kk.     *)
Climbs(b, u, h, d, T, kk) ==
  /\ Rising(TreeOf(b), u, h, AtOf(b)) /\ Order(TreeOf(b), u, d) /\ All(TreeOf(b), u) = T /\ Keys(TreeOf(b)) = kk

LEMMA InsertClimbs ==
  ASSUME NEW b \in Cursor, NEW u, NEW h, NEW d \in Ranks, NEW T, NEW kk, Climbs(b, u, h, d, T, kk), ~InsertEnds(b)
  PROVE  \E w, k : /\ Climbs(InsertRound[b], w, k, d, T, kk)
                   /\ InsertEnds(InsertRound[b]) \/ Count(w, AtOf(InsertRound[b])) > Count(u, AtOf(b))
<1> DEFINE t == TreeOf(b)
           n == AtOf(b)
           p == Dad(t, n)
           g == Dad(t, p)
           s == SideOf(t, p)
           y == Kid(t, Other(s), g)
           next == InsertRound[b]
<1>1. t \in Tree /\ n \in Ptr /\ next \in Cursor
  BY Cursors, InsertRoundType
<1>2. p \in Ptr /\ g \in Ptr /\ s \in Side /\ Other(s) \in Side /\ y \in Ptr
  BY <1>1, Fields, Sides
<1>3. InsertRoundIs(b, t, n, p, g, s, y)
  BY InsertRounds
<1>4. Rising(t, u, h, n) /\ Order(t, u, d) /\ All(t, u) = T /\ Keys(t) = kk
  BY DEF Climbs
<1>5. n # Top(t) /\ Weight(t, p) = 0
  <2>1. Weight(t, p) \in {0, 1}
    BY <1>1, <1>2, Fields
  <2> QED BY <1>3, <2>1 DEF InsertRoundIs
<1>6. RisingOn(t, u, n, p, g, s)
  BY <1>4, <1>5, RisingParents
<1>x. InsertRoundIs(next, TreeOf(next), AtOf(next), Dad(TreeOf(next), AtOf(next)), Dad(TreeOf(next), Dad(TreeOf(next), AtOf(next))),
                    SideOf(TreeOf(next), Dad(TreeOf(next), AtOf(next))),
                    Kid(TreeOf(next), Other(SideOf(TreeOf(next), Dad(TreeOf(next), AtOf(next)))), Dad(TreeOf(next), Dad(TreeOf(next), AtOf(next)))))
  BY <1>1, InsertRounds
<1>z. InsertEnds(next) <=> AtOf(next) = Top(TreeOf(next)) \/ Weight(TreeOf(next), Dad(TreeOf(next), AtOf(next))) = 1
  BY <1>x DEF InsertRoundIs
<1> HIDE DEF t, n, p, g, s, y, next
<1>7. Weight(t, y) \in {0, 1}
  BY <1>1, <1>2, Fields
<1>8. CASE Weight(t, y) = 0
  <2> DEFINE v == Reddened(Blackened(Blackened(t, p), y), g)
  <2>1. next = At(v, g)
    BY <1>3, <1>8 DEF InsertRoundIs, RecolouredOf, next
  <2> HIDE DEF v
  <2>2. TreeOf(next) = v /\ AtOf(next) = g
    BY <2>1, Cursors
  <2>3. \E k : Rising(v, u, k, g) /\ Order(v, u, d) /\ All(v, u) = All(t, u) /\ Keys(v) = Keys(t)
    BY <1>4, <1>6, <1>8, InsertRecolours DEF v, y
  <2>4. Count(u, g) > Count(u, n)
    <3>1. u \in Subs /\ n \in Ptr /\ g \in Ptr
      BY <1>1, <1>2, <1>4 DEF Rising, Shape
    <3>2. Count(u, g) \in 0 .. Size /\ Count(u, n) \in 0 .. Size
      BY <3>1, CountFacts
    <3> QED BY <1>6, <3>2, SizeType DEF RisingOn
  <2> QED BY <1>4, <2>2, <2>3, <2>4 DEF Climbs, next, n
<1>9. CASE Weight(t, y) = 1
  <2>1. next = RaisedOf(t, s, n, p, g)
    BY <1>3, <1>9 DEF InsertRoundIs, next
  <2>2. ASSUME NEW v, NEW w, NEW k, NEW low, NEW q, Outer(v, w, k, s, low, q, g), Order(v, w, d), All(v, w) = T, Keys(v) = kk,
               next = LiftOf(v, s, q, g, low)
        PROVE  \E x, i : Climbs(next, x, i, d, T, kk) /\ InsertEnds(next)
    <3> DEFINE m == Rotate(Reddened(Blackened(v, q), g), Other(s), g)
    <3>1. TreeOf(next) = m /\ AtOf(next) = low
      BY <2>2, Cursors DEF LiftOf
    <3> HIDE DEF m
    <3>2. \E x, i : /\ Rising(m, x, i, low) /\ Order(m, x, d) /\ All(m, x) = All(v, w) /\ Keys(m) = Keys(v)
                    /\ Dad(m, low) = q /\ Weight(m, q) = 1
      BY <2>2, InsertLifts DEF m
    <3> QED BY <1>z, <2>2, <3>1, <3>2 DEF Climbs
  <2>3. CASE n = Kid(t, Other(s), p)
    <3> DEFINE v == Rotate(t, s, p)
    <3>1. PICK w, k : /\ Outer(v, w, k, s, p, n, g) /\ Order(v, w, d) /\ All(v, w) = All(t, u)
                      /\ Keys(v) = Keys(t) /\ Top(v) = Top(t) /\ v \in Tree /\ Dad(v, p) = n
      BY <1>4, <1>6, <1>9, <2>3, InsertTurns DEF y
    <3>2. next = LiftOf(v, s, n, g, p)
      BY <2>1, <2>3, <3>1 DEF RaisedOf
    <3> HIDE DEF v
    <3> QED BY <1>4, <2>2, <3>1, <3>2 DEF next
  <2>4. CASE n # Kid(t, Other(s), p)
    <3>1. Outer(t, u, h, s, n, p, g)
      BY <1>4, <1>6, <1>9, <2>4 DEF Outer, Rising, RisingOn, y
    <3>2. next = LiftOf(t, s, p, g, n)
      BY <2>1, <2>4 DEF RaisedOf
    <3> QED BY <1>4, <2>2, <3>1, <3>2 DEF next
  <2> QED BY <2>3, <2>4
<1> QED BY <1>7, <1>8, <1>9

LEMMA InsertLoop ==
  ASSUME NEW t, NEW u, NEW h, NEW n, Rising(t, u, h, n), NEW d \in Ranks, Order(t, u, d), NEW b, b = Loop(InsertRound, At(t, n))
  PROVE  b \in Cursor /\ InsertEnds(b) /\ \E w, k : Climbs(b, w, k, d, All(t, u), Keys(t))
<1> DEFINE T == All(t, u)
           kk == Keys(t)
           F == {c \in Cursor : InsertEnds(c) /\ \E w, k : Climbs(c, w, k, d, T, kk)}
           G == {e \in Cursor \X (1 .. Size) : \E w, k : Climbs(e[1], w, k, d, T, kk) /\ e[2] = Count(w, AtOf(e[1]))}
<1>1. t \in Tree /\ u \in Subs /\ n \in Ptr /\ n \in Sub(u, n) /\ At(t, n) \in Cursor /\ Climbs(At(t, n), u, h, d, T, kk)
  <2>1. t \in Tree /\ u \in Subs /\ n \in Ptr /\ n \in Sub(u, n)
    BY ShapeFacts DEF Rising, NodeFacts
  <2> QED BY <2>1, Cursors DEF Climbs
<1> HIDE DEF T, kk
<1>2. ASSUME NEW c \in Cursor, NEW w, NEW k, Climbs(c, w, k, d, T, kk) PROVE Count(w, AtOf(c)) \in 1 .. Size
  <2>1. w \in Subs /\ AtOf(c) \in Ptr /\ AtOf(c) \in Sub(w, AtOf(c))
    BY <1>2, ShapeFacts DEF Rising, NodeFacts, Climbs
  <2> QED BY <2>1, CountFacts, SizeType
<1>3. ASSUME NEW c \in Cursor, NEW m \in 1 .. Size, <<c, m>> \in G
      PROVE  InsertRound[c] \in F \/ \E j \in 1 .. Size : j > m /\ <<InsertRound[c], j>> \in G
  <2>1. PICK w, k : Climbs(c, w, k, d, T, kk) /\ m = Count(w, AtOf(c))
    BY <1>3
  <2>2. CASE InsertEnds(c)
    <3>1. InsertRound[c] = c
      BY <2>2, InsertRounds DEF InsertRoundIs
    <3> QED BY <2>1, <2>2, <3>1
  <2>3. CASE ~InsertEnds(c)
    <3>0. InsertRound[c] \in Cursor
      BY InsertRoundType
    <3>1. PICK x, i : /\ Climbs(InsertRound[c], x, i, d, T, kk)
                      /\ InsertEnds(InsertRound[c]) \/ Count(x, AtOf(InsertRound[c])) > m
      BY <2>1, <2>3, InsertClimbs
    <3> DEFINE j == Count(x, AtOf(InsertRound[c]))
    <3>2. j \in 1 .. Size
      BY <1>2, <3>0, <3>1
    <3>3. <<InsertRound[c], j>> \in G
      BY <3>0, <3>1, <3>2
    <3> QED BY <3>0, <3>1, <3>2, <3>3
  <2> QED BY <2>2, <2>3
<1>4. \A c \in F : InsertRound[c] = c
  BY InsertRounds DEF InsertRoundIs
<1>5. F \in SUBSET Cursor
  OBVIOUS
<1>6. Count(u, n) \in 1 .. Size /\ <<At(t, n), Count(u, n)>> \in G
  <2>1. AtOf(At(t, n)) = n
    BY Cursors
  <2>2. Count(u, n) \in 1 .. Size
    BY <1>1, <1>2, <2>1
  <2> QED BY <1>1, <2>1, <2>2
<1> HIDE DEF F, G
<1>7. Ends(Cursor, InsertRound, F, G)
  BY <1>3, <1>4, <1>5, InsertRoundType DEF Ends
<1>8. b \in F
  BY <1>1, <1>6, <1>7, LoopEnds
<1> QED BY <1>8 DEF F, T, kk

-------------------------------------------------------------------------------
(* A loop that stays in P and makes f grow ends where a round changes      *)
(* nothing.                                                                *)
Grows(P, f, round) ==
  /\ f \in [P -> 1 .. Size]
  /\ \A x \in P : round[x] = x \/ (round[x] \in P /\ f[round[x]] > f[x])

LEMMA GrowingEnds ==
  ASSUME NEW S, NEW round \in [S -> S], NEW P \in SUBSET S, NEW f, Grows(P, f, round), NEW m \in P
  PROVE  Loop(round, m) \in P /\ round[Loop(round, m)] = Loop(round, m)
<1> DEFINE F == {x \in P : round[x] = x}
           G == {e \in S \X (1 .. Size) : e[1] \in P /\ e[2] = f[e[1]]}
<1>1. F \in SUBSET S /\ \A x \in F : round[x] = x
  OBVIOUS
<1>2. ASSUME NEW x \in S, NEW k \in 1 .. Size, <<x, k>> \in G
      PROVE  round[x] \in F \/ \E j \in 1 .. Size : j > k /\ <<round[x], j>> \in G
  <2>1. x \in P /\ k = f[x]
    BY <1>2
  <2>2. CASE round[x] = x
    BY <2>1, <2>2
  <2>3. CASE round[x] # x
    <3>1. round[x] \in P /\ f[round[x]] > f[x]
      BY <2>1, <2>3 DEF Grows
    <3>2. f[round[x]] \in 1 .. Size
      BY <3>1 DEF Grows
    <3>3. <<round[x], f[round[x]]>> \in G
      BY <3>1, <3>2
    <3> QED BY <2>1, <3>1, <3>2, <3>3
  <2> QED BY <2>2, <2>3
<1>3. f[m] \in 1 .. Size
  BY DEF Grows
<1>4. <<m, f[m]>> \in G /\ m \in S
  BY <1>3
<1> HIDE DEF F, G
<1>5. Ends(S, round, F, G)
  BY <1>1, <1>2 DEF Ends
<1>6. Loop(round, m) \in F
  BY <1>3, <1>4, <1>5, LoopEnds
<1> QED BY <1>6 DEF F

(* Down: there is less and less below.                                     *)
Descends(t, u, P, round) ==
  /\ round \in [Ptr -> Ptr] /\ \A x \in P : x \in All(t, u)
  /\ \A x \in P : round[x] = x \/ (round[x] \in P /\ Count(u, round[x]) < Count(u, x))

LEMMA DescentEnds ==
  ASSUME NEW t, NEW u, Shape(t, u), NEW round, NEW P, Descends(t, u, P, round), NEW m \in P
  PROVE  Loop(round, m) \in P /\ round[Loop(round, m)] = Loop(round, m)
<1> DEFINE f == [x \in P |-> Size - Count(u, x) + 1]
<1>1. \A x \in P : x \in Ptr /\ Count(u, x) \in 1 .. Size
  <2>1. u \in Subs /\ \A x \in P : x \in Ptr /\ x \in Sub(u, x)
    BY ShapeFacts DEF Descends, NodeFacts
  <2>2. \A x \in P : Count(u, x) \in 0 .. Size /\ Count(u, x) >= 1
    BY <2>1, CountFacts
  <2> QED BY <2>1, <2>2, SizeType
<1>2. \A x \in P : f[x] = Size - Count(u, x) + 1 /\ f[x] \in 1 .. Size
  BY <1>1, SizeType
<1>3. f \in [P -> 1 .. Size]
  BY <1>2
<1> HIDE DEF f
<1>4. ASSUME NEW x \in P PROVE round[x] = x \/ (round[x] \in P /\ f[round[x]] > f[x])
  <2>1. round[x] = x \/ (round[x] \in P /\ Count(u, round[x]) < Count(u, x))
    BY DEF Descends
  <2>2. round[x] \in P => f[round[x]] = Size - Count(u, round[x]) + 1 /\ Count(u, round[x]) \in 1 .. Size
    BY <1>1, <1>2
  <2>3. f[x] = Size - Count(u, x) + 1 /\ Count(u, x) \in 1 .. Size
    BY <1>1, <1>2
  <2> QED BY <2>1, <2>2, <2>3, SizeType
<1>5. Grows(P, f, round)
  BY <1>3, <1>4 DEF Grows
<1>6. P \in SUBSET Ptr /\ round \in [Ptr -> Ptr]
  BY <1>1 DEF Descends
<1> QED BY <1>5, <1>6, GrowingEnds

-------------------------------------------------------------------------------
(* ngx_rbtree_insert_timer_value(): where n may be in the order.           *)
FitsAt(t, u, d, n, a) ==
  a \in All(t, u) /\ \A b \in All(t, u), z \in Side : a \in Sub(u, Kid(t, z, b)) => Apart(d, z, n, b)

(* The keys have the order of the ranks.                                   *)
KeysRank(t, u, d, n) ==
  \A a \in All(t, u) : GoesLeft(Keys(t)[n], Keys(t)[a]) <=> Rank(d, n) < Rank(d, a)

LEMMA SideApart ==
  ASSUME NEW t, NEW u, Shape(t, u), NEW d \in Ranks, NEW n \in Node, KeysRank(t, u, d, n), NEW a \in All(t, u)
  PROVE  SideFor(t, a, n) \in Side /\ Apart(d, SideFor(t, a, n), n, a)
<1>1. SideFor(t, a, n) = IF GoesLeft(Keys(t)[n], Keys(t)[a]) THEN "left" ELSE "right"
  BY DEF SideFor, Keys
<1>2. a \in Ptr /\ n \in Ptr
  BY ShapeFacts DEF NodeFacts, Ptr
<1>3. Rank(d, n) \in Int /\ Rank(d, a) \in Int
  BY <1>2, ApartFacts, Sides
<1>4. GoesLeft(Keys(t)[n], Keys(t)[a]) <=> Rank(d, n) < Rank(d, a)
  BY DEF KeysRank
<1>5. "left" \in Side /\ "right" \in Side /\ "left" # "right"
  BY Sides
<1> QED BY <1>1, <1>3, <1>4, <1>5 DEF Apart

LEMMA PlaceFound ==
  ASSUME NEW t, NEW u, Shape(t, u), NEW d \in Ranks, NEW n \in Node, KeysRank(t, u, d, n), Top(t) # Sentinel,
         NEW r, r = Loop(PlaceRound(t, n), Top(t))
  PROVE  FitsAt(t, u, d, n, r) /\ Kid(t, SideFor(t, r, n), r) = Sentinel
<1> DEFINE P == {a \in Ptr : FitsAt(t, u, d, n, a)}
           round == PlaceRound(t, n)
<1>1. t \in Tree /\ Top(t) \in All(t, u) /\ \A a \in All(t, u) : NodeFacts(t, u, a)
  BY ShapeFacts DEF Shape
<1>2. \A x \in Ptr : round[x] = IF Kid(t, SideFor(t, x, n), x) = Sentinel THEN x ELSE Kid(t, SideFor(t, x, n), x)
  BY DEF PlaceRound, Kid
<1>3. round \in [Ptr -> Ptr]
  <2>1. \A x \in Ptr : SideFor(t, x, n) \in Side
    BY Sides DEF SideFor
  <2>2. \A x \in Ptr : Kid(t, SideFor(t, x, n), x) \in Ptr
    BY <1>1, <2>1, Fields
  <2> QED BY <2>2 DEF PlaceRound, Kid
<1> HIDE DEF round
<1>4. Top(t) \in P
  <2>1. ASSUME NEW b \in All(t, u), NEW z \in Side, Top(t) \in Sub(u, Kid(t, z, b)) PROVE FALSE
    <3>1. Top(t) \in Sub(u, b) /\ NodeFacts(t, u, b)
      BY <1>1, <2>1 DEF NodeFacts
    <3>2. b = Top(t)
      BY <3>1 DEF NodeFacts
    <3> QED BY <2>1, <3>2 DEF Shape, Parts
  <2>2. FitsAt(t, u, d, n, Top(t))
    BY <1>1, <2>1 DEF FitsAt
  <2> QED BY <1>1, <2>2 DEF NodeFacts
<1>5. ASSUME NEW x \in P, NEW s, s = SideFor(t, x, n), NEW c, c = Kid(t, s, x), c # Sentinel
      PROVE  c \in P /\ Count(u, c) < Count(u, x)
  <2>1. x \in All(t, u) /\ x \in Ptr /\ FitsAt(t, u, d, n, x) /\ s \in Side /\ Apart(d, s, n, x)
    <3>1. x \in All(t, u) /\ x \in Ptr /\ FitsAt(t, u, d, n, x)
      BY DEF FitsAt
    <3> QED BY <1>5, <3>1, SideApart
  <2>2. c \in All(t, u) /\ Dad(t, c) = x /\ c \in Sub(u, c) /\ c \in Ptr /\ NodeFacts(t, u, x)
    BY <1>1, <1>5, <2>1 DEF Shape, Down, NodeFacts
  <2>3. ASSUME NEW b \in All(t, u), NEW z \in Side, c \in Sub(u, Kid(t, z, b)) PROVE Apart(d, z, n, b)
    <3>1. CASE b = x
      <4>1. z = s
        <5>1. z = s \/ z = Other(s)
          BY <2>1, Sides
        <5> QED BY <1>5, <2>1, <2>2, <2>3, <3>1, <5>1 DEF Shape, Parts
      <4> QED BY <2>1, <3>1, <4>1
    <3>2. CASE b # x
      <4> DEFINE e == Kid(t, z, b)
      <4>1. e # Sentinel
        BY <2>3 DEF Shape
      <4>2. e \in All(t, u) /\ Dad(t, e) = b
        BY <4>1 DEF Shape, Down
      <4>3. e # c
        BY <2>2, <3>2, <4>2
      <4>4. x \in Sub(u, e)
        BY <2>2, <2>3, <4>2, <4>3 DEF Shape, Nested
      <4> QED BY <2>1, <4>4 DEF FitsAt
    <3> QED BY <3>1, <3>2
  <2>4. c \in P
    BY <2>2, <2>3 DEF FitsAt
  <2>5. Count(u, c) < Count(u, x)
    <3>1. (\A e \in Sub(u, c) : e \in Sub(u, x)) /\ x \notin Sub(u, c) /\ x \in Sub(u, x)
      BY <1>5, <2>1, <2>2 DEF Shape, Parts, NodeFacts
    <3> QED BY <2>1, <2>2, <3>1, CountFacts DEF Shape
  <2> QED BY <2>4, <2>5
<1>6. Descends(t, u, P, round)
  <2>1. \A x \in P : x \in All(t, u) /\ x \in Ptr
    BY DEF FitsAt
  <2>2. ASSUME NEW x \in P PROVE round[x] = x \/ (round[x] \in P /\ Count(u, round[x]) < Count(u, x))
    BY <1>2, <1>5, <2>1
  <2> HIDE DEF P
  <2> QED BY <1>3, <2>1, <2>2 DEF Descends
<1> HIDE DEF P
<1>7. r \in P /\ round[r] = r
  BY <1>4, <1>6, DescentEnds DEF round
<1>8. FitsAt(t, u, d, n, r) /\ r \in Ptr
  BY <1>7 DEF P
<1>9. Kid(t, SideFor(t, r, n), r) = Sentinel
  <2>1. SUFFICES ASSUME Kid(t, SideFor(t, r, n), r) # Sentinel PROVE FALSE
    OBVIOUS
  <2>2. Kid(t, SideFor(t, r, n), r) = r
    BY <1>2, <1>7, <1>8, <2>1
  <2>3. r \in All(t, u) /\ SideFor(t, r, n) \in Side
    BY <1>8, SideApart DEF FitsAt
  <2> QED BY <1>1, <2>1, <2>2, <2>3 DEF NodeFacts
<1> QED BY <1>8, <1>9

-------------------------------------------------------------------------------
(* A red leaf n below p.                                                   *)
PlacedIs(v, t, s, p, n) ==
  /\ v \in Tree /\ Top(v) = Top(t) /\ Keys(v) = Keys(t)
  /\ Kid(v, s, p) = n /\ \A z \in Side : Kid(v, z, n) = Sentinel
  /\ \A z \in Side, a \in Ptr : a # n /\ (z # s \/ a # p) => Kid(v, z, a) = Kid(t, z, a)
  /\ Dad(v, n) = p /\ Weight(v, n) = 0
  /\ \A a \in Ptr : a # n => Dad(v, a) = Dad(t, a) /\ Weight(v, a) = Weight(t, a)

LEMMA Placed ==
  ASSUME NEW t \in Tree, NEW s \in Side, NEW p \in Ptr, NEW n \in Ptr, p # n
  PROVE  PlacedIs([t EXCEPT !.child[s][p] = n, !.child["left"][n] = Sentinel, !.child["right"][n] = Sentinel,
                            !.parent[n] = p, !.red[n] = TRUE], t, s, p, n)
<1> DEFINE c1 == PutChild(t, s, p, n)
           c2 == PutChild(c1, "left", n, Sentinel)
           c3 == PutChild(c2, "right", n, Sentinel)
           c4 == PutParent(c3, n, p)
           c5 == Reddened(c4, n)
<1>1. [t EXCEPT !.child[s][p] = n, !.child["left"][n] = Sentinel, !.child["right"][n] = Sentinel,
                            !.parent[n] = p, !.red[n] = TRUE] = c5
  BY DEF PutChild, PutParent, Reddened, Painted
<1>2. Sentinel \in Ptr /\ "left" \in Side /\ "right" \in Side /\ "left" # "right" /\ \A z \in Side : z = "left" \/ z = "right"
  BY Sides DEF Ptr
<1> HIDE DEF c1, c2, c3, c4, c5
<1>3. ChildIs(c1, t, s, p, n) /\ c1 \in Tree
  BY <1>2, ChildPut DEF c1, ChildIs
<1>4. ChildIs(c2, c1, "left", n, Sentinel) /\ c2 \in Tree
  <2>1. ChildIs(c2, c1, "left", n, Sentinel)
    BY <1>2, <1>3, ChildPut DEF c2
  <2> QED BY <2>1 DEF ChildIs
<1>5. ChildIs(c3, c2, "right", n, Sentinel) /\ c3 \in Tree
  <2>1. ChildIs(c3, c2, "right", n, Sentinel)
    BY <1>2, <1>4, ChildPut DEF c3
  <2> QED BY <2>1 DEF ChildIs
<1>6. ParentIs(c4, c3, n, p) /\ c4 \in Tree
  BY <1>2, <1>5, ParentPut DEF c4, ParentIs
<1>7. WeightIs(c5, c4, n, 0)
  BY <1>2, <1>6, WeightPut DEF c5
<1>8. c5 \in Tree /\ Top(c5) = Top(t) /\ Keys(c5) = Keys(t)
  BY <1>3, <1>4, <1>5, <1>6, <1>7 DEF ChildIs, ParentIs, WeightIs
<1>9. Kid(c5, s, p) = n
  <2>1. Kid(c1, s, p) = n
    BY <1>3 DEF ChildIs
  <2>2. Kid(c2, s, p) = n
    BY <1>4, <2>1 DEF ChildIs
  <2>3. Kid(c3, s, p) = n
    BY <1>5, <2>2 DEF ChildIs
  <2> QED BY <1>6, <1>7, <2>3 DEF ParentIs, WeightIs
<1>10. \A z \in Side : Kid(c5, z, n) = Sentinel
  <2>1. Kid(c2, "left", n) = Sentinel
    BY <1>4 DEF ChildIs
  <2>2. Kid(c3, "left", n) = Sentinel /\ Kid(c3, "right", n) = Sentinel
    BY <1>2, <1>5, <2>1 DEF ChildIs
  <2> QED BY <1>2, <1>6, <1>7, <2>2 DEF ParentIs, WeightIs
<1>11. ASSUME NEW z \in Side, NEW a \in Ptr, a # n, z # s \/ a # p PROVE Kid(c5, z, a) = Kid(t, z, a)
  <2>1. Kid(c1, z, a) = Kid(t, z, a)
    BY <1>3, <1>11 DEF ChildIs
  <2>2. Kid(c3, z, a) = Kid(c1, z, a)
    BY <1>4, <1>5, <1>11 DEF ChildIs
  <2> QED BY <1>6, <1>7, <2>1, <2>2 DEF ParentIs, WeightIs
<1>12. Dad(c5, n) = p /\ Weight(c5, n) = 0
  BY <1>6, <1>7 DEF ParentIs, WeightIs
<1>13. ASSUME NEW a \in Ptr, a # n PROVE Dad(c5, a) = Dad(t, a) /\ Weight(c5, a) = Weight(t, a)
  <2>1. Dad(c3, a) = Dad(t, a) /\ Weight(c3, a) = Weight(t, a)
    BY <1>3, <1>4, <1>5 DEF ChildIs
  <2> QED BY <1>6, <1>7, <1>13, <2>1 DEF ParentIs, WeightIs
<1> QED BY <1>1, <1>8, <1>9, <1>10, <1>11, <1>12, <1>13 DEF PlacedIs

(* What is below each node then.                                           *)
GrownIs(w, u, p, n) ==
  /\ w \in Subs /\ \A b : b \in Sub(w, n) <=> b = n
  /\ \A a \in Ptr : a # n => \A b : b \in Sub(w, a) <=> b \in Sub(u, a) \/ (b = n /\ p \in Sub(u, a))

LEMMA Grown ==
  ASSUME NEW u \in Subs, NEW p \in Node, NEW n \in Node
  PROVE  \E w : GrownIs(w, u, p, n)
<1> DEFINE w == [a \in Ptr |-> IF a = n THEN {n} ELSE IF p \in u[a] THEN u[a] \cup {n} ELSE u[a]]
<1>1. \A a \in Ptr : u[a] \in SUBSET Node
  BY DEF Subs
<1>2. \A a \in Ptr : w[a] \in SUBSET Node
  BY <1>1
<1>3. w \in Subs
  BY <1>2 DEF Subs
<1>4. n \in Ptr
  BY DEF Ptr
<1>5. \A b : b \in w[n] <=> b = n
  BY <1>4
<1>6. ASSUME NEW a \in Ptr, a # n, NEW b PROVE b \in w[a] <=> b \in u[a] \/ (b = n /\ p \in u[a])
  BY <1>6
<1> HIDE DEF w
<1>7. GrownIs(w, u, p, n)
  BY <1>3, <1>5, <1>6 DEF GrownIs, Sub
<1> QED BY <1>7

LEMMA PlacedShape ==
  ASSUME NEW t, NEW u, Shape(t, u), NEW s \in Side, NEW p \in All(t, u), Kid(t, s, p) = Sentinel,
         NEW n \in Node, n \notin All(t, u), NEW v, PlacedIs(v, t, s, p, n), NEW w, GrownIs(w, u, p, n)
  PROVE  Shape(v, w) /\ \A b : b \in All(v, w) <=> b \in All(t, u) \/ b = n
<1>1. t \in Tree /\ Top(t) \in Ptr /\ (\A a \in All(t, u) : NodeFacts(t, u, a)) /\ p \in Ptr /\ n \in Ptr /\ n # Sentinel /\ p # n
      /\ (\A b : b \notin Sub(u, Sentinel)) /\ Top(t) \in All(t, u) /\ Top(t) # n /\ Sentinel \in Ptr /\ p \in Sub(u, p)
  <2>1. p \in Ptr /\ n \in Ptr /\ n # Sentinel /\ Sentinel \in Ptr
    BY ShapeFacts, RbTreeAssumption DEF NodeFacts, Ptr
  <2>2. Top(t) # Sentinel
    BY DEF All, Shape
  <2> QED BY <2>1, <2>2, ShapeFacts DEF Shape, NodeFacts
<1>2. Other(s) \in Side /\ Other(Other(s)) = s /\ Other(s) # s /\ \A z \in Side : z = s \/ z = Other(s)
  BY Sides
<1>3. Down(t, u) /\ Parts(t, u) /\ Nested(t, u) /\ Upward(t, u)
  BY DEF Shape
<1>4. /\ v \in Tree /\ Top(v) = Top(t) /\ Kid(v, s, p) = n /\ Dad(v, n) = p
      /\ \A z \in Side : Kid(v, z, n) = Sentinel
      /\ \A z \in Side, a \in Ptr : a # n /\ (z # s \/ a # p) => Kid(v, z, a) = Kid(t, z, a)
      /\ \A a \in Ptr : a # n => Dad(v, a) = Dad(t, a)
  BY DEF PlacedIs
<1>5. /\ w \in Subs /\ \A b : b \in Sub(w, n) <=> b = n
      /\ \A a \in Ptr : a # n => \A b : b \in Sub(w, a) <=> b \in Sub(u, a) \/ (b = n /\ p \in Sub(u, a))
      /\ \A b : b \notin Sub(w, Sentinel)
  BY <1>1 DEF GrownIs
<1>6. \A b : b \in All(v, w) <=> b \in All(t, u) \/ b = n
  BY <1>1, <1>4, <1>5 DEF All
<1>7. \A a \in All(t, u) : a \in Ptr /\ a # n /\ a # Sentinel /\ a \in Sub(u, a) /\ a \in Sub(w, a)
  BY <1>1, <1>5 DEF NodeFacts
<1>8. \A a \in All(t, u), z \in Side : Kid(t, z, a) \in Ptr /\ Kid(t, z, a) # n /\ (Kid(t, z, a) # Sentinel => Kid(t, z, a) \in All(t, u))
  <2>1. \A a \in All(t, u), z \in Side : Kid(t, z, a) \in Ptr
    BY <1>1, <1>7, Fields
  <2> QED BY <1>1, <1>3, <2>1 DEF Down
<1>9. Down(v, w)
  <2>1. ASSUME NEW a \in All(v, w), NEW z \in Side, Kid(v, z, a) # Sentinel
        PROVE  Kid(v, z, a) \in All(v, w) /\ Dad(v, Kid(v, z, a)) = a /\ Kid(v, z, a) \in Sub(w, Kid(v, z, a))
    <3>1. a \in All(t, u)
      BY <1>4, <1>6, <2>1
    <3>2. CASE z = s /\ a = p
      BY <1>4, <1>5, <1>6, <3>2
    <3>3. CASE ~(z = s /\ a = p)
      <4>1. Kid(v, z, a) = Kid(t, z, a)
        BY <1>4, <1>7, <3>1, <3>3
      <4>2. Kid(t, z, a) \in All(t, u) /\ Dad(t, Kid(t, z, a)) = a
        BY <1>3, <2>1, <3>1, <4>1 DEF Down
      <4> QED BY <1>4, <1>6, <1>7, <4>1, <4>2
    <3> QED BY <3>2, <3>3
  <2> QED BY <2>1 DEF Down
<1>10. Parts(v, w)
  <2>1. ASSUME NEW a \in All(v, w), NEW z \in Side
        PROVE  /\ \A b : b \in Sub(w, a) <=> b = a \/ b \in Sub(w, Kid(v, z, a)) \/ b \in Sub(w, Kid(v, Other(z), a))
               /\ a \notin Sub(w, Kid(v, z, a))
               /\ \A b \in Sub(w, Kid(v, z, a)) : b \notin Sub(w, Kid(v, Other(z), a))
    <3>0. Other(z) \in Side /\ Other(z) # z /\ Other(Other(z)) = z
      BY Sides
    <3>1. CASE a = n
      BY <1>4, <1>5, <3>0, <3>1
    <3>2. CASE a # n
      <4>1. a \in All(t, u) /\ a \in Ptr
        BY <1>6, <1>7, <3>2
      <4>2. /\ \A b : b \in Sub(u, a) <=> b = a \/ b \in Sub(u, Kid(t, z, a)) \/ b \in Sub(u, Kid(t, Other(z), a))
            /\ a \notin Sub(u, Kid(t, z, a)) /\ a \notin Sub(u, Kid(t, Other(z), a))
            /\ \A b \in Sub(u, Kid(t, z, a)) : b \notin Sub(u, Kid(t, Other(z), a))
        BY <1>3, <3>0, <4>1 DEF Parts
      <4>3. \A y \in Side : n \notin Sub(u, Kid(t, y, a))
        BY <1>1, <4>1 DEF NodeFacts
      <4>4. \A y \in Side : \A b : y # s \/ a # p => (b \in Sub(w, Kid(v, y, a)) <=> b \in Sub(u, Kid(t, y, a)) \/ (b = n /\ p \in Sub(u, Kid(t, y, a))))
        BY <1>4, <1>5, <1>8, <3>2, <4>1
      <4>5. \A b : b \in Sub(w, a) <=> b \in Sub(u, a) \/ (b = n /\ p \in Sub(u, a))
        BY <1>5, <3>2, <4>1
      <4>6. CASE a # p
        BY <3>0, <3>2, <4>2, <4>3, <4>4, <4>5, <4>6
      <4>7. CASE a = p
        <5>1. \A b : b \in Sub(w, Kid(v, s, a)) <=> b = n
          BY <1>4, <1>5, <4>7
        <5>2. \A b : b \in Sub(w, Kid(v, Other(s), a)) <=> b \in Sub(u, Kid(t, Other(s), a))
          BY <1>2, <4>2, <4>4, <4>7, <3>0
        <5>3. \A b : b \notin Sub(u, Kid(t, s, a))
          BY <1>1, <4>7
        <5>4. CASE z = s
          BY <1>1, <1>2, <3>2, <4>2, <4>3, <4>5, <4>7, <5>1, <5>2, <5>3, <5>4
        <5>5. CASE z = Other(s)
          BY <1>1, <1>2, <3>2, <4>2, <4>3, <4>5, <4>7, <5>1, <5>2, <5>3, <5>5
        <5> QED BY <1>2, <5>4, <5>5
      <4> QED BY <4>6, <4>7
    <3> QED BY <3>1, <3>2
  <2> QED BY <2>1 DEF Parts
<1>11. Nested(v, w)
  <2>1. ASSUME NEW a \in All(v, w), NEW b \in Sub(w, a)
        PROVE  (\A c \in Sub(w, b) : c \in Sub(w, a)) /\ (b # a => Dad(v, b) \in Sub(w, a))
    <3>1. CASE a = n
      BY <1>5, <2>1, <3>1
    <3>2. CASE a # n
      <4>1. a \in All(t, u) /\ a \in Ptr
        BY <1>6, <1>7, <3>2
      <4>2. \A c : c \in Sub(w, a) <=> c \in Sub(u, a) \/ (c = n /\ p \in Sub(u, a))
        BY <1>5, <3>2, <4>1
      <4>3. CASE b = n
        BY <1>1, <1>4, <1>5, <4>1, <4>2, <4>3 DEF NodeFacts
      <4>4. CASE b # n
        <5>1. b \in Sub(u, a) /\ b \in All(t, u) /\ b \in Ptr
          BY <1>1, <1>7, <4>1, <4>2, <4>4 DEF NodeFacts
        <5>2. (\A c \in Sub(u, b) : c \in Sub(u, a)) /\ (b # a => Dad(t, b) \in Sub(u, a))
          BY <1>3, <4>1, <5>1 DEF Nested
        <5>3. \A c : c \in Sub(w, b) <=> c \in Sub(u, b) \/ (c = n /\ p \in Sub(u, b))
          BY <1>5, <4>4, <5>1
        <5>4. \A c \in Sub(w, b) : c \in Sub(w, a)
          BY <4>2, <5>2, <5>3
        <5> QED BY <1>4, <4>2, <4>4, <5>1, <5>2, <5>4
      <4> QED BY <4>3, <4>4
    <3> QED BY <3>1, <3>2
  <2> QED BY <2>1 DEF Nested
<1>12. Upward(v, w)
  <2>1. ASSUME NEW a \in All(v, w), a # Top(v) PROVE Dad(v, a) \in All(v, w) /\ Kid(v, SideOf(v, a), Dad(v, a)) = a
    <3>0. a \in Ptr /\ \A z \in Side : Kid(v, z, Dad(v, a)) = a => Kid(v, SideOf(v, a), Dad(v, a)) = a
      BY <1>1, <1>4, <1>6, <1>7, Fields
    <3>1. CASE a = n
      BY <1>4, <1>6, <3>0, <3>1
    <3>2. CASE a # n
      <4>1. a \in All(t, u) /\ Dad(v, a) = Dad(t, a)
        BY <1>4, <1>6, <3>0, <3>2
      <4>2. Dad(t, a) \in All(t, u) /\ Kid(t, SideOf(t, a), Dad(t, a)) = a /\ SideOf(t, a) \in Side
        BY <1>3, <1>4, <2>1, <4>1, Sides DEF Upward
      <4>3. ~(SideOf(t, a) = s /\ Dad(t, a) = p)
        BY <1>7, <4>1, <4>2
      <4>4. Kid(v, SideOf(t, a), Dad(v, a)) = a
        BY <1>4, <1>7, <4>1, <4>2, <4>3
      <4> QED BY <1>6, <3>0, <4>1, <4>2, <4>4
    <3> QED BY <3>1, <3>2
  <2> QED BY <2>1 DEF Upward
<1> QED BY <1>1, <1>4, <1>5, <1>6, <1>9, <1>10, <1>11, <1>12 DEF Shape

-------------------------------------------------------------------------------
(* A red-black tree of the nodes T in the order d.                         *)
Sound(t, u, h) ==
  /\ Shape(t, u) /\ Level(t, u, h, "left", Sentinel) /\ RedRule(t, u, Sentinel, Sentinel) /\ Weight(t, Top(t)) = 1

TreeWith(t, u, h, d, T, kk) == Sound(t, u, h) /\ Order(t, u, d) /\ All(t, u) = T /\ Keys(t) = kk

IsTree(t, d, T, kk) == \E u, h : TreeWith(t, u, h, d, T, kk)

LEMMA PlacedOrder ==
  ASSUME NEW t, NEW u, Shape(t, u), NEW s \in Side, NEW p \in All(t, u), Kid(t, s, p) = Sentinel,
         NEW n \in Node, n \notin All(t, u), NEW v, PlacedIs(v, t, s, p, n), NEW w, GrownIs(w, u, p, n),
         NEW d, Order(t, u, d), FitsAt(t, u, d, n, p), Apart(d, s, n, p)
  PROVE  Order(v, w, d)
<1>1. \A b : b \in All(v, w) <=> b \in All(t, u) \/ b = n
  BY PlacedShape
<1>2. t \in Tree /\ p \in Ptr /\ n \in Ptr /\ p # n /\ Sentinel \in Ptr /\ n # Sentinel /\ \A b : b \notin Sub(u, Sentinel)
  BY ShapeFacts, RbTreeAssumption DEF NodeFacts, Ptr, Shape
<1>3. /\ Kid(v, s, p) = n /\ \A z \in Side : Kid(v, z, n) = Sentinel
      /\ \A z \in Side, a \in Ptr : a # n /\ (z # s \/ a # p) => Kid(v, z, a) = Kid(t, z, a)
  BY DEF PlacedIs
<1>4. /\ \A b : b \in Sub(w, n) <=> b = n
      /\ \A a \in Ptr : a # n => \A b : b \in Sub(w, a) <=> b \in Sub(u, a) \/ (b = n /\ p \in Sub(u, a))
  BY DEF GrownIs
<1>5. ASSUME NEW a \in All(v, w), NEW z \in Side, NEW b \in Sub(w, Kid(v, z, a)) PROVE Apart(d, z, b, a)
  <2>1. a # n
    BY <1>2, <1>3, <1>4, <1>5
  <2>2. a \in All(t, u) /\ a \in Ptr /\ Kid(t, z, a) \in Ptr
    BY <1>1, <1>2, <2>1, ShapeFacts, Fields DEF NodeFacts
  <2>3. Kid(t, z, a) # n
    <3>1. Kid(t, z, a) # Sentinel => Kid(t, z, a) \in All(t, u)
      BY <2>2 DEF Shape, Down
    <3> QED BY <1>2, <3>1
  <2>4. CASE z = s /\ a = p
    BY <1>3, <1>4, <1>5, <2>4
  <2>5. CASE ~(z = s /\ a = p)
    <3>1. Kid(v, z, a) = Kid(t, z, a)
      BY <1>3, <2>1, <2>2, <2>5
    <3>2. b \in Sub(u, Kid(t, z, a)) \/ (b = n /\ p \in Sub(u, Kid(t, z, a)))
      BY <1>4, <1>5, <2>2, <2>3, <3>1
    <3> QED BY <2>2, <3>2 DEF Order, FitsAt
  <2> QED BY <2>4, <2>5
<1> QED BY <1>5 DEF Order

LEMMA PlacedRises ==
  ASSUME NEW t, NEW u, NEW h, Sound(t, u, h), NEW s \in Side, NEW p \in All(t, u), Kid(t, s, p) = Sentinel,
         NEW n \in Node, n \notin All(t, u), NEW v, PlacedIs(v, t, s, p, n), NEW w, GrownIs(w, u, p, n)
  PROVE  \E k : Rising(v, w, k, n)
<1>1. Shape(t, u) /\ h \in Levels /\ Lvl(h, Sentinel) = 0 /\ \A a \in All(t, u) : LevelAt(t, h, "left", Sentinel, a)
  BY DEF Sound, Level
<1>2. t \in Tree /\ p \in Ptr /\ n \in Ptr /\ p # n /\ Sentinel \in Ptr /\ n # Sentinel /\ Top(t) \in All(t, u) /\ Top(t) \in Ptr
  <2>1. Top(t) # Sentinel
    BY <1>1 DEF Shape, All
  <2> QED BY <1>1, <2>1, ShapeFacts, RbTreeAssumption DEF NodeFacts, Ptr, Shape
<1>3. PICK k : LvlPut(k, h, n, 0)
  BY <1>1, <1>2, LvlPuts
<1>4. k \in Levels /\ Lvl(k, n) = 0 /\ \A a \in Ptr : a # n => Lvl(k, a) = Lvl(h, a)
  BY <1>3 DEF LvlPut
<1>5. /\ Kid(v, s, p) = n /\ \A z \in Side : Kid(v, z, n) = Sentinel
      /\ \A z \in Side, a \in Ptr : a # n /\ (z # s \/ a # p) => Kid(v, z, a) = Kid(t, z, a)
      /\ Top(v) = Top(t) /\ Weight(v, n) = 0 /\ \A a \in Ptr : a # n => Weight(v, a) = Weight(t, a)
  BY DEF PlacedIs
<1>6. Shape(v, w) /\ \A b : b \in All(v, w) <=> b \in All(t, u) \/ b = n
  BY <1>1, PlacedShape
<1>7. \A a \in All(t, u) : a \in Ptr /\ a # n /\ \A z \in Side : Kid(t, z, a) \in Ptr /\ Kid(t, z, a) # n
  <2>1. ASSUME NEW a \in All(t, u), NEW z \in Side PROVE a \in Ptr /\ Kid(t, z, a) \in Ptr /\ Kid(t, z, a) # n
    <3>1. a \in Ptr
      BY <1>1, ShapeFacts DEF NodeFacts
    <3>2. Kid(t, z, a) # Sentinel => Kid(t, z, a) \in All(t, u)
      BY <1>1 DEF Shape, Down
    <3> QED BY <1>2, <3>1, <3>2, Fields
  <2>2. "left" \in Side
    BY Sides
  <2> QED BY <2>1, <2>2
<1>8. ASSUME NEW a \in All(v, w), NEW z \in Side PROVE Lvl(k, a) = Lvl(k, Kid(v, z, a)) + Weight(v, a) + Gap(z, a, "left", Sentinel)
  <2>1. CASE a = n
    BY <1>1, <1>2, <1>4, <1>5, <2>1 DEF Gap
  <2>2. CASE a # n
    <3>1. a \in All(t, u)
      BY <1>6, <2>2
    <3>2. Lvl(h, a) = Lvl(h, Kid(t, z, a)) + Weight(t, a) + Gap(z, a, "left", Sentinel)
      BY <1>1, <3>1 DEF LevelAt
    <3>3. Lvl(k, a) = Lvl(h, a) /\ Weight(v, a) = Weight(t, a)
      BY <1>4, <1>5, <1>7, <3>1
    <3>4. Lvl(k, Kid(v, z, a)) = Lvl(h, Kid(t, z, a))
      <4>1. CASE z = s /\ a = p
        BY <1>1, <1>4, <1>5, <4>1
      <4>2. CASE ~(z = s /\ a = p)
        BY <1>4, <1>5, <1>7, <3>1, <4>2
      <4> QED BY <4>1, <4>2
    <3> QED BY <3>2, <3>3, <3>4
  <2> QED BY <2>1, <2>2
<1>9. Level(v, w, k, "left", Sentinel)
  <2>1. Lvl(k, Sentinel) = 0
    BY <1>1, <1>2, <1>4
  <2> QED BY <1>4, <1>8, <2>1 DEF Level, LevelAt
<1>10. RedRule(v, w, n, Sentinel)
  <2>1. Weight(v, Sentinel) = 1
    BY <1>2, <1>5 DEF Sound, RedRule
  <2>2. ASSUME NEW a \in All(v, w), NEW z \in Side, Weight(v, a) = 0, Weight(v, Kid(v, z, a)) = 0, Kid(v, z, a) # n PROVE FALSE
    <3>1. a # n /\ ~(z = s /\ a = p)
      BY <1>5, <2>1, <2>2
    <3>2. a \in All(t, u)
      BY <1>6, <3>1
    <3>3. Kid(v, z, a) = Kid(t, z, a)
      BY <1>5, <1>7, <3>1, <3>2
    <3>4. Weight(t, a) = 0 /\ Weight(t, Kid(t, z, a)) = 0
      BY <1>5, <1>7, <2>2, <3>2, <3>3
    <3>5. Kid(t, z, a) = Sentinel \/ a = Sentinel
      BY <3>2, <3>4 DEF Sound, RedRule
    <3>6. a # Sentinel
      BY <1>1, <3>2 DEF Shape, ShapeFacts, All, Nested, Parts
    <3> QED BY <2>1, <2>2, <3>3, <3>5, <3>6
  <2> QED BY <2>1, <2>2 DEF RedRule
<1>11. n \in All(v, w) /\ Weight(v, n) = 0
  BY <1>5, <1>6
<1>12. Weight(v, Top(v)) = 1
  <2>1. Top(t) # n
    BY <1>2
  <2> QED BY <1>2, <1>5, <2>1 DEF Sound
<1> QED BY <1>6, <1>9, <1>10, <1>11, <1>12 DEF Rising

(* The root is made black in the end.                                      *)
LEMMA Crowned ==
  ASSUME NEW t, NEW u, NEW h, Shape(t, u), Level(t, u, h, "left", Sentinel), RedRule(t, u, Top(t), Top(t)),
         Top(t) # Sentinel, NEW d, Order(t, u, d), NEW v, v = Blackened(t, Top(t))
  PROVE  \E k : TreeWith(v, u, k, d, All(t, u), Keys(t))
<1>1. t \in Tree /\ Top(t) \in Ptr /\ h \in Levels /\ \A a \in All(t, u) : NodeFacts(t, u, a)
  BY ShapeFacts DEF Level
<1>2. WeightIs(v, t, Top(t), 1)
  BY <1>1, WeightPut
<1>3. LinksKept(v, t, u) /\ Keys(v) = Keys(t) /\ Top(v) = Top(t)
  BY <1>1, <1>2, PaintedLinks DEF WeightIs
<1>4. Shape(v, u) /\ All(v, u) = All(t, u) /\ Order(v, u, d)
  BY <1>3, LinksShape, LinksOrder
<1>5. /\ Weight(v, Top(t)) = 1 /\ \A a \in Ptr : a # Top(t) => Weight(v, a) = Weight(t, a)
      /\ \A z \in Side, a \in Ptr : Kid(v, z, a) = Kid(t, z, a)
  BY <1>2 DEF WeightIs
<1> DEFINE m == Lvl(h, Top(t)) + 1 - Weight(t, Top(t))
<1>6. m \in Nat /\ m = Lvl(h, Top(t)) + 1 - Weight(t, Top(t))
  BY <1>1, LevelFacts, Fields
<1> HIDE DEF m
<1>7. PICK k : LvlPut(k, h, Top(t), m)
  BY <1>1, <1>6, LvlPuts
<1>8. k \in Levels /\ Lvl(k, Top(t)) = m /\ \A a \in Ptr : a # Top(t) => Lvl(k, a) = Lvl(h, a)
  BY <1>7 DEF LvlPut
<1>9. ASSUME NEW a \in All(t, u), NEW z \in Side
      PROVE  a \in Ptr /\ a # Sentinel /\ Kid(t, z, a) \in Ptr /\ Kid(t, z, a) # Top(t)
  BY <1>1, <1>9, Fields DEF NodeFacts
<1>10. ASSUME NEW a \in All(t, u), NEW z \in Side PROVE Lvl(k, a) = Lvl(k, Kid(v, z, a)) + Weight(v, a) + Gap(z, a, "left", Sentinel)
  <2>1. Lvl(h, a) = Lvl(h, Kid(t, z, a)) + Weight(t, a) + Gap(z, a, "left", Sentinel)
    BY DEF Level, LevelAt
  <2>2. Kid(v, z, a) = Kid(t, z, a) /\ Lvl(k, Kid(t, z, a)) = Lvl(h, Kid(t, z, a))
    BY <1>5, <1>8, <1>9
  <2>3. Lvl(h, Kid(t, z, a)) \in Nat /\ Weight(t, a) \in {0, 1} /\ Gap(z, a, "left", Sentinel) = 0
    BY <1>1, <1>9, LevelFacts, Fields, NoGap
  <2>4. CASE a = Top(t)
    BY <1>5, <1>6, <1>8, <2>1, <2>2, <2>3, <2>4
  <2>5. CASE a # Top(t)
    BY <1>5, <1>8, <1>9, <2>1, <2>2, <2>3, <2>5
  <2> QED BY <2>4, <2>5
<1>11. Level(v, u, k, "left", Sentinel)
  <2>1. Lvl(k, Sentinel) = 0
    BY <1>8, RbTreeAssumption DEF Level, Ptr
  <2> QED BY <1>4, <1>8, <1>10, <2>1 DEF Level, LevelAt
<1>12. RedRule(v, u, Sentinel, Sentinel)
  <2>1. Weight(v, Sentinel) = 1
    BY <1>5 DEF RedRule, Ptr
  <2>2. ASSUME NEW a \in All(t, u), NEW z \in Side, Weight(v, a) = 0, Weight(v, Kid(v, z, a)) = 0 PROVE FALSE
    BY <1>5, <1>9, <2>2 DEF RedRule
  <2> QED BY <1>4, <2>1, <2>2 DEF RedRule
<1>13. TreeWith(v, u, k, d, All(t, u), Keys(t))
  BY <1>3, <1>4, <1>5, <1>11, <1>12 DEF TreeWith, Sound
<1> QED BY <1>13

-------------------------------------------------------------------------------
(* Where the loop ends, nothing is red below a red node but for the root.  *)
LEMMA RisenRule ==
  ASSUME NEW b \in Cursor, InsertEnds(b), NEW u, NEW h, Rising(TreeOf(b), u, h, AtOf(b))
  PROVE  RedRule(TreeOf(b), u, Top(TreeOf(b)), Top(TreeOf(b))) /\ Top(TreeOf(b)) # Sentinel
<1> DEFINE t == TreeOf(b)
           n == AtOf(b)
<1>1. n = Top(t) \/ Weight(t, Dad(t, n)) = 1
  BY InsertRounds DEF InsertRoundIs
<1>2. Rising(t, u, h, n)
  OBVIOUS
<1> HIDE DEF t, n
<1>3. Shape(t, u) /\ n \in All(t, u) /\ RedRule(t, u, n, Sentinel)
  BY <1>2 DEF Rising
<1>4. Top(t) # Sentinel
  BY <1>3 DEF Shape, All
<1>5. ASSUME NEW a \in All(t, u), NEW s \in Side, Weight(t, a) = 0, Weight(t, Kid(t, s, a)) = 0
      PROVE  Kid(t, s, a) = Top(t) \/ a = Top(t)
  <2>1. a # Sentinel /\ n # Sentinel
    BY <1>3, ShapeFacts DEF NodeFacts
  <2>2. Kid(t, s, a) = n
    BY <1>3, <1>5, <2>1 DEF RedRule
  <2>3. Dad(t, n) = a
    BY <1>3, <2>1, <2>2 DEF Shape, Down
  <2> QED BY <1>1, <1>5, <2>2, <2>3
<1>6. RedRule(t, u, Top(t), Top(t))
  BY <1>3, <1>5 DEF RedRule
<1> QED BY <1>4, <1>6 DEF t

(* ngx_rbtree_insert() where there are others.                             *)
LEMMA InsertAmong ==
  ASSUME NEW t, NEW d \in Ranks, NEW T, NEW kk, IsTree(t, d, T, kk), NEW n \in Node, n \notin T,
         \A a \in T : GoesLeft(kk[n], kk[a]) <=> Rank(d, n) < Rank(d, a), Top(t) # Sentinel
  PROVE  IsTree(Insert(t, n), d, T \cup {n}, kk)
<1>1. PICK u, h : TreeWith(t, u, h, d, T, kk)
  BY DEF IsTree
<1>2. Sound(t, u, h) /\ Order(t, u, d) /\ All(t, u) = T /\ Keys(t) = kk
  BY <1>1 DEF TreeWith
<1>3. Shape(t, u) /\ t \in Tree /\ u \in Subs
  BY <1>2, ShapeFacts DEF Sound
<1> DEFINE p == Loop(PlaceRound(t, n), Top(t))
           s == SideFor(t, p, n)
           v == [t EXCEPT !.child[s][p] = n, !.child["left"][n] = Sentinel, !.child["right"][n] = Sentinel,
                          !.parent[n] = p, !.red[n] = TRUE]
           b == Loop(InsertRound, At(v, n))
           r == Blackened(TreeOf(b), Top(TreeOf(b)))
<1>4. KeysRank(t, u, d, n)
  BY <1>2 DEF KeysRank
<1>5. FitsAt(t, u, d, n, p) /\ Kid(t, s, p) = Sentinel
  BY <1>3, <1>4, PlaceFound
<1>6. Insert(t, n) = r
  <2>1. t.root # Sentinel /\ PlaceBelow(t, t.root, n) = v
    BY DEF PlaceBelow, Top
  <2> HIDE DEF v
  <2> QED BY <2>1 DEF Insert, Blackened, TreeOf, Top
<1> HIDE DEF p
<1>7. p \in All(t, u) /\ p \in Ptr /\ n \in Ptr /\ p # n /\ p \in Node
  <2>1. p \in All(t, u)
    BY <1>5 DEF FitsAt
  <2> QED BY <1>2, <1>3, <2>1, ShapeFacts DEF NodeFacts, Ptr
<1>8. s \in Side /\ Apart(d, s, n, p)
  BY <1>3, <1>4, <1>7, SideApart
<1>9. PlacedIs(v, t, s, p, n)
  BY <1>3, <1>7, <1>8, Placed
<1> HIDE DEF v, s
<1>10. PICK w : GrownIs(w, u, p, n)
  BY <1>3, <1>7, Grown
<1>11. PICK k : Rising(v, w, k, n)
  BY <1>2, <1>5, <1>7, <1>8, <1>9, <1>10, PlacedRises
<1>12. Order(v, w, d) /\ \A x : x \in All(v, w) <=> x \in T \/ x = n
  BY <1>2, <1>3, <1>5, <1>7, <1>8, <1>9, <1>10, PlacedOrder, PlacedShape
<1>13. Keys(v) = kk
  BY <1>2, <1>9 DEF PlacedIs
<1>14. b \in Cursor /\ InsertEnds(b) /\ \E x, i : Climbs(b, x, i, d, All(v, w), Keys(v))
  BY <1>11, <1>12, InsertLoop
<1> HIDE DEF b
<1>15. PICK x, i : Climbs(b, x, i, d, All(v, w), Keys(v))
  BY <1>14
<1>16. /\ Rising(TreeOf(b), x, i, AtOf(b)) /\ Order(TreeOf(b), x, d) /\ All(TreeOf(b), x) = All(v, w) /\ Keys(TreeOf(b)) = kk
  BY <1>13, <1>15 DEF Climbs
<1>17. RedRule(TreeOf(b), x, Top(TreeOf(b)), Top(TreeOf(b))) /\ Top(TreeOf(b)) # Sentinel
  BY <1>14, <1>16, RisenRule
<1>18. Shape(TreeOf(b), x) /\ Level(TreeOf(b), x, i, "left", Sentinel)
  BY <1>16 DEF Rising
<1>19. \E j : TreeWith(r, x, j, d, All(TreeOf(b), x), Keys(TreeOf(b)))
  BY <1>16, <1>17, <1>18, Crowned
<1>20. All(v, w) = T \cup {n}
  BY <1>12
<1>21. IsTree(r, d, T \cup {n}, kk)
  BY <1>16, <1>19, <1>20 DEF IsTree
<1> QED BY <1>6, <1>21

(* ngx_rbtree_insert() of the first.                                       *)
LEMMA InsertFirst ==
  ASSUME NEW t, NEW d \in Ranks, NEW T, NEW kk, IsTree(t, d, T, kk), NEW n \in Node, Top(t) = Sentinel
  PROVE  IsTree(Insert(t, n), d, T \cup {n}, kk)
<1>1. PICK u, h : TreeWith(t, u, h, d, T, kk)
  BY DEF IsTree
<1>2. Sound(t, u, h) /\ All(t, u) = T /\ Keys(t) = kk
  BY <1>1 DEF TreeWith
<1>3. Shape(t, u) /\ t \in Tree /\ u \in Subs /\ h \in Levels /\ Lvl(h, Sentinel) = 0 /\ Weight(t, Sentinel) = 1
  BY <1>2, ShapeFacts DEF Sound, Level, RedRule
<1>4. T = {}
  <2>1. \A b : b \notin T
    BY <1>2, <1>3 DEF Shape, All
  <2> QED BY <1>2, <1>3, <2>1
<1> DEFINE c0 == PutRoot(t, n)
           c1 == PutChild(c0, "left", n, Sentinel)
           c2 == PutChild(c1, "right", n, Sentinel)
           v == Blackened(c2, n)
           w == [a \in Ptr |-> IF a = n THEN {n} ELSE {}]
<1>5. Insert(t, n) = v
  <2>1. t.root = Sentinel
    BY DEF Top
  <2> QED BY <2>1 DEF Insert, PutRoot, PutChild, Blackened, Painted
<1>6. n \in Ptr /\ Sentinel \in Ptr /\ n # Sentinel /\ "left" \in Side /\ "right" \in Side /\ "left" # "right" /\ \A z \in Side : z = "left" \/ z = "right"
  BY Sides, RbTreeAssumption DEF Ptr
<1> HIDE DEF c0, c1, c2, v
<1>7. RootIs(c0, t, n) /\ c0 \in Tree
  BY <1>3, <1>6, RootPut DEF c0, RootIs
<1>8. ChildIs(c1, c0, "left", n, Sentinel) /\ c1 \in Tree
  BY <1>6, <1>7, ChildPut DEF c1, ChildIs
<1>9. ChildIs(c2, c1, "right", n, Sentinel) /\ c2 \in Tree
  BY <1>6, <1>8, ChildPut DEF c2, ChildIs
<1>10. WeightIs(v, c2, n, 1)
  BY <1>6, <1>9, WeightPut DEF v
<1>11. v \in Tree /\ Top(v) = n /\ Keys(v) = kk /\ Weight(v, n) = 1
  BY <1>2, <1>7, <1>8, <1>9, <1>10 DEF RootIs, ChildIs, WeightIs
<1>12. Weight(v, Sentinel) = 1
  BY <1>3, <1>6, <1>7, <1>8, <1>9, <1>10 DEF RootIs, ChildIs, WeightIs
<1>13. \A z \in Side : Kid(v, z, n) = Sentinel
  <2>1. Kid(c1, "left", n) = Sentinel
    BY <1>8 DEF ChildIs
  <2>2. Kid(c2, "left", n) = Sentinel /\ Kid(c2, "right", n) = Sentinel
    BY <1>6, <1>9, <2>1 DEF ChildIs
  <2> QED BY <1>6, <1>10, <2>2 DEF WeightIs
<1>14. w \in Subs /\ (\A b : b \in Sub(w, n) <=> b = n) /\ \A b : b \notin Sub(w, Sentinel)
  <2>1. \A a \in Ptr : w[a] \in SUBSET Node
    OBVIOUS
  <2>2. w \in Subs
    BY <2>1 DEF Subs
  <2>3. w[n] = {n} /\ w[Sentinel] = {}
    BY <1>6
  <2> HIDE DEF w
  <2> QED BY <2>2, <2>3 DEF Sub
<1> HIDE DEF w
<1>15. \A b : b \in All(v, w) <=> b = n
  BY <1>11, <1>14 DEF All
<1>16. Shape(v, w)
  <2>1. Down(v, w) /\ Upward(v, w)
    BY <1>11, <1>13, <1>15 DEF Down, Upward
  <2>2. Parts(v, w)
    BY <1>13, <1>14, <1>15, Sides DEF Parts
  <2>3. Nested(v, w)
    BY <1>14, <1>15 DEF Nested
  <2> QED BY <1>11, <1>14, <1>15, <2>1, <2>2, <2>3 DEF Shape
<1>17. Order(v, w, d)
  BY <1>13, <1>14, <1>15 DEF Order
<1>18. PICK k : LvlPut(k, h, n, 1)
  BY <1>3, <1>6, LvlPuts
<1>19. Level(v, w, k, "left", Sentinel)
  <2>1. k \in Levels /\ Lvl(k, n) = 1 /\ Lvl(k, Sentinel) = 0
    BY <1>3, <1>6, <1>18 DEF LvlPut
  <2> QED BY <1>6, <1>11, <1>13, <1>15, <2>1, NoGap DEF Level, LevelAt
<1>20. RedRule(v, w, Sentinel, Sentinel)
  BY <1>11, <1>12, <1>15 DEF RedRule
<1>21. Sound(v, w, k)
  BY <1>11, <1>16, <1>19, <1>20 DEF Sound
<1>22. All(v, w) = T \cup {n}
  BY <1>4, <1>15
<1> QED BY <1>5, <1>11, <1>17, <1>21, <1>22 DEF IsTree, TreeWith

LEMMA Inserted ==
  ASSUME NEW t, NEW d \in Ranks, NEW T, NEW kk, IsTree(t, d, T, kk), NEW n \in Node, n \notin T,
         \A a \in T : GoesLeft(kk[n], kk[a]) <=> Rank(d, n) < Rank(d, a)
  PROVE  IsTree(Insert(t, n), d, T \cup {n}, kk)
BY InsertAmong, InsertFirst

-------------------------------------------------------------------------------
(* Nodes are painted and then one is turned: n goes down on the side s, y  *)
(* comes up.                                                               *)
Repaints(a, t) ==
  /\ a \in Tree /\ Top(a) = Top(t) /\ Keys(a) = Keys(t)
  /\ \A z \in Side, b \in Ptr : Kid(a, z, b) = Kid(t, z, b)
  /\ \A b \in Ptr : Dad(a, b) = Dad(t, b)

(* The new colours.                                                        *)
TurnColours(a, u, s, n, y) ==
  /\ Weight(a, Sentinel) = 1
  /\ \A b \in All(a, u), z \in Side : b # n /\ b # y /\ Weight(a, b) = 0 =>
       IF Kid(a, z, b) = n THEN Weight(a, y) = 1 ELSE Weight(a, Kid(a, z, b)) = 1
  /\ Weight(a, n) = 0 => Weight(a, Kid(a, s, n)) = 1 /\ Weight(a, Kid(a, s, y)) = 1
  /\ Weight(a, y) = 0 => Weight(a, n) = 1 /\ Weight(a, Kid(a, Other(s), y)) = 1
  /\ IF Top(a) = n THEN Weight(a, y) = 1 ELSE Weight(a, Top(a)) = 1

(* The new heights.                                                        *)
TurnHeights(a, u, h, k, s, n, y, hs, hp) ==
  /\ LevelTurn(a, h, k, s, n, y, hs, hp) /\ k \in Levels /\ Lvl(k, Sentinel) = 0
  /\ \A b \in All(a, u) : b # n /\ b # y => LevelAt(a, h, hs, hp, b)

TurnDone(v, w, a, u, s, n, y) ==
  /\ Kid(v, s, y) = n /\ Kid(v, Other(s), y) = Kid(a, Other(s), y)
  /\ Kid(v, s, n) = Kid(a, s, n) /\ Kid(v, Other(s), n) = Kid(a, s, y) /\ Dad(v, n) = y
  /\ \A b \in Ptr : Weight(v, b) = Weight(a, b)
  /\ \A b \in Ptr : b # n /\ b # y => Sub(w, b) = Sub(u, b)
  /\ \A b \in Ptr : b # n /\ b # y /\ (b = Sentinel \/ b # Kid(a, s, y)) => Dad(v, b) = Dad(a, b)
  /\ KidsKept(v, a, u, s, n)

(* Red has black below it, the heights are right but for the gap.          *)
Balanced(t, u, h, hs, hp) ==
  Shape(t, u) /\ Level(t, u, h, hs, hp) /\ RedRule(t, u, Sentinel, Sentinel) /\ Weight(t, Top(t)) = 1

LEMMA RepaintsLinks ==
  ASSUME NEW t, NEW u, Shape(t, u), NEW a, Repaints(a, t)
  PROVE  Shape(a, u) /\ All(a, u) = All(t, u) /\ \A d : Order(t, u, d) => Order(a, u, d)
<1>1. \A b \in All(t, u) : b \in Ptr
  BY ShapeFacts DEF NodeFacts
<1>2. LinksKept(a, t, u)
  BY <1>1 DEF Repaints, LinksKept
<1> QED BY <1>2, LinksShape, LinksOrder

LEMMA PaintedTurn ==
  ASSUME NEW a, NEW u, Shape(a, u), NEW s \in Side, NEW n \in All(a, u), NEW y, y = Kid(a, Other(s), n), y # Sentinel,
         NEW h, NEW k, NEW hs, NEW hp, TurnHeights(a, u, h, k, s, n, y, hs, hp), TurnColours(a, u, s, n, y),
         NEW v, v = Rotate(a, s, n)
  PROVE  \E w : /\ Balanced(v, w, k, hs, hp) /\ All(v, w) = All(a, u) /\ Keys(v) = Keys(a) /\ TurnDone(v, w, a, u, s, n, y)
                /\ \A d \in Ranks : Order(a, u, d) => Order(v, w, d)
<1>1. PICK w : Rotation(v, w, a, u, s, n)
  BY Rotations
<1>2. /\ Shape(v, w) /\ All(v, w) = All(a, u) /\ RotateIs(v, a, s, n)
      /\ \A d \in Ranks : Order(a, u, d) => Order(v, w, d)
  BY <1>1, RotationFacts
<1>3. KidsKept(v, a, u, s, n)
  BY <1>1, RotationKids
<1>4. \A b \in All(v, w) : LevelAt(v, k, hs, hp, b)
  BY <1>1, RotationLevels DEF TurnHeights
<1>5. Level(v, w, k, hs, hp)
  BY <1>4 DEF Level, TurnHeights
<1>6. /\ a \in Tree /\ n \in Ptr /\ n # Sentinel /\ y \in All(a, u) /\ y \in Ptr /\ n # y /\ Other(s) \in Side /\ Other(Other(s)) = s
      /\ \A b \in All(a, u) : b \in Ptr /\ b # Sentinel /\ NodeFacts(a, u, b)
  <2>1. y \in All(a, u)
    BY Sides DEF Shape, Down
  <2> QED BY <2>1, ShapeFacts, Sides DEF NodeFacts
<1>7. Kid(a, s, y) # n
  <2>1. SUFFICES ASSUME Kid(a, s, y) = n PROVE FALSE
    OBVIOUS
  <2>2. n \in Sub(u, Kid(a, Other(s), n))
    BY <1>6, <2>1 DEF NodeFacts
  <2> QED BY <1>6, <2>2 DEF Shape, Parts
<1>8. /\ Kid(v, s, y) = n /\ Kid(v, Other(s), y) = Kid(a, Other(s), y)
      /\ Kid(v, s, n) = Kid(a, s, n) /\ Kid(v, Other(s), n) = Kid(a, s, y) /\ Dad(v, n) = y
      /\ \A b \in Ptr : Weight(v, b) = Weight(a, b)
      /\ \A b \in Ptr : b # n /\ b # y /\ (b = Sentinel \/ b # Kid(a, s, y)) => Dad(v, b) = Dad(a, b)
      /\ Keys(v) = Keys(a) /\ Top(v) = IF n = Top(a) THEN y ELSE Top(a)
  BY <1>2, <1>7 DEF RotateIs
<1>9. \A b \in Ptr : b # n /\ b # y => Sub(w, b) = Sub(u, b)
  BY <1>1 DEF Rotation, TurnIs
<1>10. RedRule(v, w, Sentinel, Sentinel)
  <2>1. Weight(v, Sentinel) = 1
    BY <1>8 DEF TurnColours, Ptr
  <2>2. ASSUME NEW b \in All(a, u), NEW z \in Side, Weight(v, b) = 0, Weight(v, Kid(v, z, b)) = 0 PROVE FALSE
    <3>0. z = s \/ z = Other(s)
      BY Sides
    <3>a. Kid(a, s, n) \in Ptr /\ Kid(a, s, y) \in Ptr /\ Kid(a, Other(s), y) \in Ptr
      BY <1>6, Fields
    <3>1. CASE b = n
      BY <1>6, <1>8, <2>2, <3>0, <3>1, <3>a DEF TurnColours
    <3>2. CASE b = y
      BY <1>6, <1>8, <2>2, <3>0, <3>2, <3>a DEF TurnColours
    <3>3. CASE b # n /\ b # y
      <4>1. \/ Kid(v, z, b) = Kid(a, z, b) /\ Kid(a, z, b) # n
            \/ Kid(v, z, b) = y /\ Kid(a, z, b) = n
        BY <1>3, <3>3 DEF KidsKept
      <4>2. Weight(a, b) = 0 /\ Kid(a, z, b) \in Ptr
        BY <1>6, <1>8, <2>2, Fields
      <4> QED BY <1>6, <1>8, <2>2, <3>3, <4>1, <4>2 DEF TurnColours
    <3> QED BY <3>1, <3>2, <3>3
  <2> QED BY <1>2, <2>1, <2>2 DEF RedRule
<1>11. Weight(v, Top(v)) = 1
  <2>1. Top(a) \in Ptr
    BY <1>6, Fields
  <2> QED BY <1>6, <1>8, <2>1 DEF TurnColours
<1>12. Balanced(v, w, k, hs, hp)
  BY <1>2, <1>5, <1>10, <1>11 DEF Balanced
<1>13. TurnDone(v, w, a, u, s, n, y)
  BY <1>3, <1>8, <1>9 DEF TurnDone
<1> QED BY <1>2, <1>8, <1>12, <1>13

-------------------------------------------------------------------------------
(* ngx_rbtree_delete() where x, black, lacks a black node: it is the child *)
(* of p on the side s.                                                     *)
Sags(t, u, h, s, p, x) ==
  /\ Balanced(t, u, h, s, p) /\ s \in Side /\ p \in All(t, u) /\ Kid(t, s, p) = x /\ Dad(t, x) = p /\ Weight(t, x) = 1

(* w is the sibling of x.                                                  *)
SagFacts(t, u, h, s, p, x, w) ==
  /\ t \in Tree /\ h \in Levels /\ Lvl(h, Sentinel) = 0
  /\ p \in Ptr /\ p # Sentinel /\ w \in Ptr /\ w # Sentinel /\ x \in Ptr /\ w \in All(t, u)
  /\ p # w /\ x # p /\ x # w /\ Dad(t, w) = p
  /\ \A z \in Side : /\ Kid(t, z, w) \in Ptr /\ Kid(t, z, w) # p /\ Kid(t, z, w) # w
                     /\ Kid(t, z, w) # Sentinel => Kid(t, z, w) # x /\ Kid(t, Other(z), w) # Kid(t, z, w) /\ Kid(t, z, w) \in All(t, u)
                     /\ Lvl(h, w) = Lvl(h, Kid(t, z, w)) + Weight(t, w) /\ Lvl(h, Kid(t, z, w)) \in Nat
                     /\ Weight(t, w) = 0 => Weight(t, Kid(t, z, w)) = 1
                     /\ Weight(t, Kid(t, z, w)) \in {0, 1}
  /\ Lvl(h, x) \in Nat /\ Lvl(h, w) = Lvl(h, x) + 1 /\ Lvl(h, p) = Lvl(h, w) + Weight(t, p)
  /\ Weight(t, p) = 1 \/ Weight(t, w) = 1
  /\ Weight(t, p) \in {0, 1} /\ Weight(t, w) \in {0, 1} /\ Weight(t, Sentinel) = 1 /\ Weight(t, x) = 1

LEMMA Sagging ==
  ASSUME NEW t, NEW u, NEW h, NEW s, NEW p, NEW x, Sags(t, u, h, s, p, x)
  PROVE  SagFacts(t, u, h, s, p, x, Kid(t, Other(s), p))
<1> DEFINE w == Kid(t, Other(s), p)
<1>1. /\ Shape(t, u) /\ h \in Levels /\ Lvl(h, Sentinel) = 0 /\ (\A a \in All(t, u) : LevelAt(t, h, s, p, a))
      /\ RedRule(t, u, Sentinel, Sentinel) /\ s \in Side /\ p \in All(t, u) /\ Kid(t, s, p) = x /\ Weight(t, x) = 1
  BY DEF Sags, Balanced, Level
<1>2. t \in Tree /\ (\A a \in All(t, u) : NodeFacts(t, u, a)) /\ Down(t, u) /\ Parts(t, u) /\ Nested(t, u)
  BY <1>1, ShapeFacts DEF Shape
<1>3. Other(s) \in Side /\ Other(Other(s)) = s /\ Other(s) # s
  BY <1>1, Sides
<1>4. p \in Ptr /\ p # Sentinel /\ w \in Ptr /\ x \in Ptr
  BY <1>1, <1>2, <1>3, Fields DEF NodeFacts
<1>5. \A a \in Ptr : Lvl(h, a) \in Nat /\ Weight(t, a) \in {0, 1}
  BY <1>1, <1>2, LevelFacts, Fields
<1>6. Lvl(h, p) = Lvl(h, x) + Weight(t, p) + 1 /\ Lvl(h, p) = Lvl(h, w) + Weight(t, p) + 0
  BY <1>1, <1>3 DEF LevelAt, Gap
<1>7. Lvl(h, w) = Lvl(h, x) + 1
  BY <1>4, <1>5, <1>6
<1>8. w # Sentinel
  BY <1>1, <1>4, <1>5, <1>7
<1>9. w \in All(t, u) /\ Dad(t, w) = p /\ p # w /\ w \in Sub(u, w)
  BY <1>1, <1>2, <1>3, <1>8 DEF Down, NodeFacts
<1>10. x # p /\ x # w
  BY <1>1, <1>2, <1>3, <1>4, <1>8 DEF NodeFacts
<1>11. Weight(t, p) = 1 \/ Weight(t, w) = 1
  BY <1>1, <1>3, <1>4, <1>5, <1>8 DEF RedRule
<1>12. p \notin Sub(u, w) /\ x \notin Sub(u, w)
  <2>1. x # Sentinel => x \in Sub(u, x)
    BY <1>1, <1>2 DEF Down
  <2>2. x = Sentinel => x \notin Sub(u, w)
    BY <1>2, <1>9 DEF NodeFacts
  <2> QED BY <1>1, <1>2, <1>3, <2>1, <2>2 DEF Parts
<1> HIDE DEF w
<1>13. ASSUME NEW z \in Side
       PROVE  /\ Kid(t, z, w) \in Ptr /\ Kid(t, z, w) # p /\ Kid(t, z, w) # w
              /\ Kid(t, z, w) # Sentinel => Kid(t, z, w) # x /\ Kid(t, Other(z), w) # Kid(t, z, w) /\ Kid(t, z, w) \in All(t, u)
              /\ Lvl(h, w) = Lvl(h, Kid(t, z, w)) + Weight(t, w) /\ Lvl(h, Kid(t, z, w)) \in Nat
              /\ Weight(t, w) = 0 => Weight(t, Kid(t, z, w)) = 1
              /\ Weight(t, Kid(t, z, w)) \in {0, 1}
  <2> DEFINE c == Kid(t, z, w)
  <2>1. c \in Ptr
    BY <1>2, <1>4, Fields
  <2>2. c # Sentinel => c \in Sub(u, w) /\ c # w /\ Kid(t, Other(z), w) # c /\ c \in All(t, u)
    BY <1>2, <1>9 DEF NodeFacts, Down
  <2>3. Lvl(h, w) = Lvl(h, c) + Weight(t, w) + 0
    BY <1>1, <1>9 DEF LevelAt, Gap
  <2>4. Weight(t, w) = 0 => Weight(t, c) # 0 \/ c = Sentinel
    BY <1>1, <1>8, <1>9 DEF RedRule
  <2>5. Weight(t, Sentinel) = 1
    BY <1>1 DEF RedRule
  <2> HIDE DEF c
  <2>6. Lvl(h, w) = Lvl(h, c) + Weight(t, w)
    BY <1>4, <1>5, <2>1, <2>3
  <2>7. Weight(t, w) = 0 => Weight(t, c) = 1
    BY <1>5, <2>1, <2>4, <2>5
  <2> QED BY <1>4, <1>5, <1>8, <1>12, <2>1, <2>2, <2>6, <2>7 DEF c
<1>14. Lvl(h, p) = Lvl(h, w) + Weight(t, p) /\ Weight(t, Sentinel) = 1
  BY <1>1, <1>4, <1>5, <1>6 DEF RedRule
<1>15. SagFacts(t, u, h, s, p, x, w)
  BY <1>1, <1>2, <1>4, <1>5, <1>7, <1>8, <1>9, <1>10, <1>11, <1>13, <1>14 DEF SagFacts
<1> QED BY <1>15 DEF w

(* What other nodes say of their children.                                 *)
LEMMA SagRule ==
  ASSUME NEW t, NEW u, NEW h, NEW s, NEW p, NEW x, Sags(t, u, h, s, p, x)
  PROVE  \A b \in All(t, u), z \in Side :
           /\ b \in Ptr /\ b # Sentinel /\ Kid(t, z, b) \in Ptr
           /\ Weight(t, b) = 0 => Weight(t, Kid(t, z, b)) = 1
           /\ Weight(t, Kid(t, z, b)) \in {0, 1} /\ Weight(t, b) \in {0, 1}
           /\ Kid(t, z, b) # Sentinel => Dad(t, Kid(t, z, b)) = b /\ Kid(t, z, b) # Top(t)
<1>1. Shape(t, u) /\ RedRule(t, u, Sentinel, Sentinel)
  BY DEF Sags, Balanced
<1>2. t \in Tree /\ \A a \in All(t, u) : NodeFacts(t, u, a)
  BY <1>1, ShapeFacts
<1> TAKE b \in All(t, u), z \in Side
<1>3. b \in Ptr /\ b # Sentinel /\ Kid(t, z, b) \in Ptr
  BY <1>2, Fields DEF NodeFacts
<1>4. Weight(t, Kid(t, z, b)) \in {0, 1} /\ Weight(t, b) \in {0, 1}
  BY <1>2, <1>3, Fields
<1>5. Weight(t, b) = 0 => Weight(t, Kid(t, z, b)) = 1
  BY <1>1, <1>3, <1>4 DEF RedRule
<1>6. Kid(t, z, b) # Sentinel => Dad(t, Kid(t, z, b)) = b /\ Kid(t, z, b) # Top(t)
  BY <1>1, <1>2 DEF Shape, Down, NodeFacts
<1> QED BY <1>3, <1>4, <1>5, <1>6

(* The sibling is red: Siblinged.                                          *)
LEMMA SiblingTurns ==
  ASSUME NEW t, NEW u, NEW h, NEW s, NEW p, NEW x, Sags(t, u, h, s, p, x), NEW y, y = Kid(t, Other(s), p), Weight(t, y) = 0,
         NEW v, v = Rotate(Reddened(Blackened(t, y), p), s, p)
  PROVE  \E w, k : /\ Sags(v, w, k, s, p, x) /\ Weight(v, Kid(v, Other(s), p)) = 1
                   /\ All(v, w) = All(t, u) /\ Keys(v) = Keys(t) /\ Sub(w, x) = Sub(u, x)
                   /\ \A d \in Ranks : Order(t, u, d) => Order(v, w, d)
<1> DEFINE o == Other(s)
           a1 == Blackened(t, y)
           a == Reddened(a1, p)
<1>1. SagFacts(t, u, h, s, p, x, y)
  BY Sagging
<1>2. o \in Side /\ o # s /\ Other(o) = s /\ s \in Side /\ (\A z \in Side : z = s \/ z = o)
  BY Sides DEF Sags
<1>3. /\ Shape(t, u) /\ p \in All(t, u) /\ Kid(t, s, p) = x /\ Dad(t, x) = p /\ Weight(t, Top(t)) = 1
      /\ (\A b \in All(t, u) : LevelAt(t, h, s, p, b)) /\ Kid(t, o, p) = y
  BY DEF Sags, Balanced, Level
<1>4. /\ t \in Tree /\ h \in Levels /\ Lvl(h, Sentinel) = 0 /\ p \in Ptr /\ p # Sentinel /\ y \in Ptr /\ y # Sentinel /\ x \in Ptr /\ y \in All(t, u)
      /\ p # y /\ x # p /\ x # y /\ Dad(t, y) = p /\ Weight(t, p) = 1 /\ Weight(t, x) = 1 /\ Weight(t, Sentinel) = 1
      /\ Lvl(h, x) \in Nat /\ Lvl(h, y) = Lvl(h, x) + 1 /\ Lvl(h, p) = Lvl(h, y) + 1
  BY <1>1 DEF SagFacts
<1>5. \A z \in Side : /\ Kid(t, z, y) \in Ptr /\ Kid(t, z, y) # p /\ Kid(t, z, y) # y /\ Weight(t, Kid(t, z, y)) = 1
                      /\ Kid(t, z, y) # Sentinel => Kid(t, z, y) # x
                      /\ Lvl(h, y) = Lvl(h, Kid(t, z, y))
  BY <1>1 DEF SagFacts
<1> HIDE DEF a, a1, o
<1>6. WeightIs(a1, t, y, 1) /\ a1 \in Tree
  BY <1>4, WeightPut DEF a1, WeightIs
<1>7. WeightIs(a, a1, p, 0)
  BY <1>4, <1>6, WeightPut DEF a
<1>8. /\ Repaints(a, t) /\ Weight(a, y) = 1 /\ Weight(a, p) = 0 /\ \A b \in Ptr : b # y /\ b # p => Weight(a, b) = Weight(t, b)
  BY <1>4, <1>6, <1>7 DEF WeightIs, Repaints
<1>9. Shape(a, u) /\ All(a, u) = All(t, u) /\ \A d : Order(t, u, d) => Order(a, u, d)
  BY <1>3, <1>8, RepaintsLinks
<1>10. /\ a \in Tree /\ Top(a) = Top(t) /\ Keys(a) = Keys(t)
       /\ \A z \in Side, b \in Ptr : Kid(a, z, b) = Kid(t, z, b)
       /\ \A b \in Ptr : Dad(a, b) = Dad(t, b)
  BY <1>8 DEF Repaints
<1>11. /\ Kid(a, s, p) = x /\ Kid(a, o, p) = y /\ \A z \in Side : Kid(a, z, y) = Kid(t, z, y)
  BY <1>2, <1>3, <1>4, <1>10
<1>12. TurnColours(a, u, s, p, y)
  <2>1. Weight(a, x) = 1 /\ \A z \in Side : Weight(a, Kid(a, z, y)) = 1
    BY <1>4, <1>5, <1>8, <1>11
  <2>2. ASSUME NEW b \in All(a, u), NEW z \in Side, b # p, b # y, Weight(a, b) = 0
        PROVE  IF Kid(a, z, b) = p THEN Weight(a, y) = 1 ELSE Weight(a, Kid(a, z, b)) = 1
    BY <1>8, <1>9, <1>10, <2>2, SagRule
  <2>3. IF Top(a) = p THEN Weight(a, y) = 1 ELSE Weight(a, Top(a)) = 1
    BY <1>3, <1>4, <1>8, <1>10, Fields
  <2>4. Weight(a, Sentinel) = 1
    BY <1>4, <1>8 DEF Ptr
  <2> QED BY <1>2, <1>8, <1>11, <2>1, <2>2, <2>3, <2>4 DEF TurnColours
<1>13. PICK k : LvlSwap(k, h, p, y)
  BY <1>4, LvlSwaps
<1>14. k \in Levels /\ Lvl(k, y) = Lvl(h, p) /\ Lvl(k, p) = Lvl(h, y) /\ \A b \in Ptr : b # p /\ b # y => Lvl(k, b) = Lvl(h, b)
  BY <1>13 DEF LvlSwap
<1>15. TurnHeights(a, u, h, k, s, p, y, s, p)
  <2>1. Gap(s, p, s, p) = 1 /\ Gap(o, p, s, p) = 0 /\ Gap(s, y, s, p) = 0 /\ Gap(o, y, s, p) = 0
    BY <1>2, <1>4 DEF Gap
  <2>2. /\ Lvl(k, p) = Lvl(h, x) + 0 + 1 /\ Lvl(k, p) = Lvl(h, Kid(t, s, y)) + 0 + 0
        /\ Lvl(h, p) = Lvl(k, p) + 1 + 0 /\ Lvl(h, p) = Lvl(h, Kid(t, o, y)) + 1 + 0
    BY <1>2, <1>4, <1>5, <1>14
  <2>3. LevelTurn(a, h, k, s, p, y, s, p)
    BY <1>2, <1>8, <1>11, <1>14, <2>1, <2>2 DEF LevelTurn, o
  <2>4. \A b \in All(a, u) : b # p /\ b # y => LevelAt(a, h, s, p, b)
    <3>1. \A b \in All(t, u) : b \in Ptr
      BY <1>3, ShapeFacts DEF NodeFacts
    <3> QED BY <1>3, <1>8, <1>9, <1>10, <3>1 DEF LevelAt
  <2>5. Lvl(k, Sentinel) = 0
    BY <1>4, <1>14 DEF Ptr
  <2> QED BY <1>14, <2>3, <2>4, <2>5 DEF TurnHeights
<1>16. v = Rotate(a, s, p)
  BY DEF a, a1
<1>17. PICK w : /\ Balanced(v, w, k, s, p) /\ All(v, w) = All(a, u) /\ Keys(v) = Keys(a) /\ TurnDone(v, w, a, u, s, p, y)
                /\ \A d \in Ranks : Order(a, u, d) => Order(v, w, d)
  BY <1>2, <1>3, <1>4, <1>9, <1>11, <1>12, <1>15, <1>16, PaintedTurn DEF o
<1>18. /\ Kid(v, s, p) = x /\ Kid(v, o, p) = Kid(t, s, y) /\ (\A b \in Ptr : Weight(v, b) = Weight(a, b))
       /\ Sub(w, x) = Sub(u, x) /\ Dad(v, x) = p
  <2>1. Kid(a, s, y) = Kid(t, s, y) /\ (x = Sentinel \/ x # Kid(t, s, y))
    BY <1>2, <1>5, <1>11
  <2> QED BY <1>3, <1>4, <1>10, <1>11, <1>17, <2>1 DEF TurnDone, o
<1>19. Weight(v, x) = 1 /\ Weight(v, Kid(v, o, p)) = 1
  BY <1>2, <1>4, <1>5, <1>8, <1>18
<1>20. Sags(v, w, k, s, p, x)
  BY <1>2, <1>3, <1>9, <1>17, <1>18, <1>19 DEF Sags
<1> QED BY <1>9, <1>10, <1>17, <1>18, <1>19, <1>20 DEF o

-------------------------------------------------------------------------------
(* Before each round: x lacks a black node, if it is not the root; it may  *)
(* be red.                                                                 *)
Holed(t, u, h, s, p, x) ==
  /\ Shape(t, u) /\ Level(t, u, h, s, p) /\ RedRule(t, u, x, x) /\ Top(t) # Sentinel /\ s \in Side
  /\ \/ p = Sentinel /\ x = Top(t)
     \/ p \in All(t, u) /\ Kid(t, s, p) = x /\ Dad(t, x) = p /\ Weight(t, Top(t)) = 1

LEMMA SideIs ==
  ASSUME NEW t, NEW n
  PROVE  SideOf(t, n) = IF n = Kid(t, "left", Dad(t, n)) THEN "left" ELSE "right"
BY DEF SideOf, Kid, Dad

LEMMA HoledSags ==
  ASSUME NEW t, NEW u, NEW h, NEW s, NEW p, NEW x, Holed(t, u, h, s, p, x), x # Top(t), Weight(t, x) = 1
  PROVE  Sags(t, u, h, s, p, x) /\ SideOf(t, x) = s
<1>1. /\ Shape(t, u) /\ Level(t, u, h, s, p) /\ RedRule(t, u, x, x) /\ s \in Side
      /\ p \in All(t, u) /\ Kid(t, s, p) = x /\ Dad(t, x) = p /\ Weight(t, Top(t)) = 1
  BY DEF Holed
<1>2. RedRule(t, u, Sentinel, Sentinel)
  BY <1>1 DEF RedRule
<1>3. Sags(t, u, h, s, p, x)
  BY <1>1, <1>2 DEF Sags, Balanced
<1>4. Kid(t, Other(s), p) # x
  BY <1>3, Sagging DEF SagFacts
<1>5. s = "left" \/ (s = "right" /\ Other(s) = "left")
  BY <1>1, Sides
<1> QED BY <1>1, <1>3, <1>4, <1>5, SideIs

(* The sibling y and its children are black: y is made red.                *)
LEMMA SagRises ==
  ASSUME NEW t, NEW u, NEW h, NEW s, NEW p, NEW x, Sags(t, u, h, s, p, x), NEW y, y = Kid(t, Other(s), p),
         Weight(t, y) = 1, \A z \in Side : Weight(t, Kid(t, z, y)) = 1,
         NEW v, v = Reddened(t, y)
  PROVE  \E k, r, g : /\ Holed(v, u, k, r, g, p) /\ All(v, u) = All(t, u) /\ Keys(v) = Keys(t)
                      /\ \A d \in Ranks : Order(t, u, d) => Order(v, u, d)
<1>1. SagFacts(t, u, h, s, p, x, y)
  BY Sagging
<1>2. /\ Shape(t, u) /\ p \in All(t, u) /\ Kid(t, s, p) = x /\ Dad(t, x) = p /\ Weight(t, Top(t)) = 1 /\ s \in Side
      /\ (\A b \in All(t, u) : LevelAt(t, h, s, p, b)) /\ RedRule(t, u, Sentinel, Sentinel)
  BY DEF Sags, Balanced, Level
<1>3. /\ t \in Tree /\ h \in Levels /\ Lvl(h, Sentinel) = 0 /\ p \in Ptr /\ p # Sentinel /\ y \in Ptr /\ y # Sentinel /\ x \in Ptr /\ y \in All(t, u)
      /\ p # y /\ x # p /\ x # y /\ Dad(t, y) = p /\ Weight(t, Sentinel) = 1 /\ Weight(t, p) \in {0, 1}
      /\ Lvl(h, x) \in Nat /\ Lvl(h, y) = Lvl(h, x) + 1 /\ Lvl(h, p) = Lvl(h, x) + 1 + Weight(t, p)
  BY <1>1 DEF SagFacts
<1>4. \A z \in Side : /\ Kid(t, z, y) \in Ptr /\ Kid(t, z, y) # p /\ Kid(t, z, y) # y
                      /\ Lvl(h, y) = Lvl(h, Kid(t, z, y)) + 1 /\ Lvl(h, Kid(t, z, y)) \in Nat
  BY <1>1 DEF SagFacts
<1>5. Top(t) # Sentinel /\ Top(t) \in Ptr /\ (\A b \in All(t, u) : NodeFacts(t, u, b)) /\ Sentinel \in Ptr
  BY <1>2, ShapeFacts DEF Shape, All, Ptr
<1>6. WeightIs(v, t, y, 0)
  BY <1>3, WeightPut
<1>7. /\ LinksKept(v, t, u) /\ v \in Tree /\ Top(v) = Top(t) /\ Keys(v) = Keys(t) /\ Weight(v, y) = 0
      /\ \A z \in Side, a \in Ptr : Kid(v, z, a) = Kid(t, z, a)
      /\ \A a \in Ptr : Dad(v, a) = Dad(t, a) /\ (a # y => Weight(v, a) = Weight(t, a))
  BY <1>2, <1>6, PaintedLinks DEF WeightIs
<1>8. Shape(v, u) /\ All(v, u) = All(t, u) /\ \A d : Order(t, u, d) => Order(v, u, d)
  BY <1>2, <1>7, LinksShape, LinksOrder
<1>9. PICK k : \E k1 : LvlPut(k1, h, y, Lvl(h, x)) /\ LvlPut(k, k1, p, Lvl(h, x) + Weight(t, p))
  <2>1. PICK k1 : LvlPut(k1, h, y, Lvl(h, x))
    BY <1>3, LvlPuts
  <2>2. Lvl(h, x) + Weight(t, p) \in Nat /\ k1 \in Levels
    BY <1>3, <2>1 DEF LvlPut
  <2>3. \E k : LvlPut(k, k1, p, Lvl(h, x) + Weight(t, p))
    BY <1>3, <2>2, LvlPuts
  <2> QED BY <2>1, <2>3
<1>10. /\ k \in Levels /\ Lvl(k, y) = Lvl(h, x) /\ Lvl(k, p) = Lvl(h, x) + Weight(t, p)
       /\ \A a \in Ptr : a # p /\ a # y => Lvl(k, a) = Lvl(h, a)
  BY <1>3, <1>9 DEF LvlPut
<1>11. PICK r, g : /\ r \in Side
                   /\ \/ g = Sentinel /\ p = Top(t)
                      \/ g \in All(t, u) /\ Kid(t, r, g) = p /\ Dad(t, p) = g /\ p # Top(t)
  <2>1. CASE p = Top(t)
    BY <1>2, <2>1
  <2>2. CASE p # Top(t)
    BY <1>2, <2>2, Sides DEF Shape, Upward
  <2> QED BY <2>1, <2>2
<1>12. g # p /\ g # y
  <2>1. ASSUME p # Top(t), g = Dad(t, p) PROVE g # p /\ p \in Sub(u, g) /\ p \in Sub(u, p) /\ g \notin Sub(u, p)
    BY <1>2, <1>5, <2>1 DEF NodeFacts
  <2>2. y \in Sub(u, p)
    BY <1>2, <1>3, <1>5, Sides DEF NodeFacts
  <2> QED BY <1>3, <1>11, <2>1, <2>2
<1>13. ASSUME NEW b \in All(t, u), NEW z \in Side
       PROVE  Lvl(k, b) = Lvl(k, Kid(v, z, b)) + Weight(v, b) + Gap(z, b, r, g)
  <2>0. b \in Ptr /\ b # Sentinel /\ Kid(v, z, b) = Kid(t, z, b) /\ Kid(t, z, b) \in Ptr /\ (z = s \/ z = Other(s)) /\ Other(s) # s
        /\ Weight(t, b) \in {0, 1}
    BY <1>2, <1>5, <1>3, <1>7, Fields, Sides DEF NodeFacts
  <2>1. Lvl(h, b) = Lvl(h, Kid(t, z, b)) + Weight(t, b) + Gap(z, b, s, p)
    BY <1>2 DEF LevelAt
  <2>2. CASE b = p
    <3>1. Gap(z, b, r, g) = 0 /\ Weight(v, p) = Weight(t, p)
      BY <1>3, <1>7, <1>12, <2>2 DEF Gap
    <3>2. Lvl(k, Kid(t, z, b)) = Lvl(h, x)
      BY <1>2, <1>3, <1>10, <2>0, <2>2
    <3> QED BY <1>3, <1>10, <2>0, <2>2, <3>1, <3>2
  <2>3. CASE b = y
    <3>1. Gap(z, b, r, g) = 0
      BY <1>12, <2>3 DEF Gap
    <3>2. Lvl(k, Kid(t, z, b)) = Lvl(h, Kid(t, z, b))
      BY <1>4, <1>10, <2>3
    <3> QED BY <1>3, <1>4, <1>7, <1>10, <2>0, <2>3, <3>1, <3>2
  <2>4. CASE b # p /\ b # y
    <3>1. Gap(z, b, s, p) = 0 /\ Lvl(k, b) = Lvl(h, b) /\ Weight(v, b) = Weight(t, b)
      BY <1>7, <1>10, <2>0, <2>4 DEF Gap
    <3>2. Kid(t, z, b) # y
      BY <1>3, <2>4, SagRule
    <3>3. CASE Kid(t, z, b) = p
      <4>1. b = g /\ p # Top(t)
        BY <1>3, <1>11, <3>3, SagRule
      <4>2. z = r
        <5>1. z = r \/ z = Other(r)
          BY <1>11, Sides
        <5>2. g \in All(t, u) /\ Kid(t, r, g) = p
          BY <1>3, <1>11, <4>1, <2>0
        <5> QED BY <1>3, <1>5, <1>11, <3>3, <4>1, <5>1, <5>2 DEF NodeFacts
      <4>3. Gap(z, b, r, g) = 1
        BY <4>1, <4>2 DEF Gap
      <4> QED BY <1>3, <1>10, <2>0, <2>1, <3>1, <3>3, <4>3
    <3>4. CASE Kid(t, z, b) # p
      <4>1. Gap(z, b, r, g) = 0
        BY <1>11, <2>0, <3>4 DEF Gap
      <4>2. Lvl(k, Kid(t, z, b)) = Lvl(h, Kid(t, z, b))
        BY <1>10, <2>0, <3>2, <3>4
      <4> QED BY <2>0, <2>1, <3>1, <4>1, <4>2
    <3> QED BY <3>3, <3>4
  <2> QED BY <2>2, <2>3, <2>4
<1>14. Level(v, u, k, r, g)
  <2>1. Lvl(k, Sentinel) = 0
    BY <1>3, <1>5, <1>10
  <2> QED BY <1>8, <1>10, <1>13, <2>1 DEF Level, LevelAt
<1>15. RedRule(v, u, p, p)
  <2>1. Weight(v, Sentinel) = 1
    BY <1>3, <1>5, <1>7
  <2>2. ASSUME NEW b \in All(t, u), NEW z \in Side, Weight(v, b) = 0, Weight(v, Kid(v, z, b)) = 0, Kid(v, z, b) # p, b # p PROVE FALSE
    <3>1. b \in Ptr /\ Kid(v, z, b) = Kid(t, z, b) /\ Kid(t, z, b) \in Ptr
      BY <1>7, SagRule
    <3>2. CASE b = y
      BY <1>4, <1>7, <2>2, <3>1, <3>2
    <3>3. CASE b # y
      <4>1. Kid(t, z, b) # y
        BY <1>3, <2>2, SagRule
      <4> QED BY <1>7, <2>2, <3>1, <3>3, <4>1, SagRule
    <3> QED BY <3>2, <3>3
  <2> QED BY <1>8, <2>1, <2>2 DEF RedRule
<1>16. Holed(v, u, k, r, g, p)
  <2>1. Top(t) # y
    <3>1. y # Top(t)
      BY <1>2, <1>3, <1>5, Sides DEF NodeFacts
    <3> QED BY <3>1
  <2>2. Weight(v, Top(v)) = 1
    BY <1>2, <1>5, <1>7, <2>1
  <2>3. g \in All(t, u) /\ p # Top(t) => Kid(v, r, g) = Kid(t, r, g) /\ Dad(v, p) = Dad(t, p)
    BY <1>3, <1>5, <1>7, <1>11 DEF NodeFacts
  <2> QED BY <1>5, <1>7, <1>8, <1>11, <1>14, <1>15, <2>2, <2>3 DEF Holed
<1> QED BY <1>7, <1>8, <1>16

-------------------------------------------------------------------------------
(* Turned: only the near child of the sibling y is red, it comes up.       *)
LEMMA NearTurns ==
  ASSUME NEW t, NEW u, NEW h, NEW s, NEW p, NEW x, Sags(t, u, h, s, p, x), NEW y, y = Kid(t, Other(s), p), Weight(t, y) = 1,
         NEW m, m = Kid(t, s, y), Weight(t, m) = 0, Weight(t, Kid(t, Other(s), y)) = 1,
         NEW v, v = Rotate(Reddened(Blackened(t, m), y), Other(s), y)
  PROVE  \E w, k : /\ Sags(v, w, k, s, p, x) /\ Weight(v, Kid(v, Other(s), Kid(v, Other(s), p))) = 0
                   /\ All(v, w) = All(t, u) /\ Keys(v) = Keys(t)
                   /\ \A d \in Ranks : Order(t, u, d) => Order(v, w, d)
<1> DEFINE o == Other(s)
           a1 == Blackened(t, m)
           a == Reddened(a1, y)
<1>1. SagFacts(t, u, h, s, p, x, y)
  BY Sagging
<1>2. o \in Side /\ o # s /\ Other(o) = s /\ s \in Side /\ (\A z \in Side : z = s \/ z = o)
  BY Sides DEF Sags
<1>3. /\ Shape(t, u) /\ p \in All(t, u) /\ Kid(t, s, p) = x /\ Dad(t, x) = p /\ Weight(t, Top(t)) = 1
      /\ (\A b \in All(t, u) : LevelAt(t, h, s, p, b)) /\ Kid(t, o, p) = y /\ Weight(t, Kid(t, o, y)) = 1
  BY DEF Sags, Balanced, Level
<1>4. /\ t \in Tree /\ h \in Levels /\ Lvl(h, Sentinel) = 0 /\ p \in Ptr /\ p # Sentinel /\ y \in Ptr /\ y # Sentinel /\ x \in Ptr /\ y \in All(t, u)
      /\ p # y /\ x # p /\ x # y /\ Dad(t, y) = p /\ Weight(t, x) = 1 /\ Weight(t, Sentinel) = 1
      /\ Lvl(h, x) \in Nat /\ Lvl(h, y) = Lvl(h, x) + 1
  BY <1>1 DEF SagFacts
<1>5. \A z \in Side : /\ Kid(t, z, y) \in Ptr /\ Kid(t, z, y) # p /\ Kid(t, z, y) # y
                      /\ Kid(t, z, y) # Sentinel => Kid(t, z, y) # x /\ Kid(t, z, y) \in All(t, u) /\ Kid(t, Other(z), y) # Kid(t, z, y)
                      /\ Lvl(h, Kid(t, z, y)) = Lvl(h, x)
  <2>1. \A z \in Side : Lvl(h, y) = Lvl(h, Kid(t, z, y)) + Weight(t, y) /\ Lvl(h, Kid(t, z, y)) \in Nat
    BY <1>1 DEF SagFacts
  <2>2. \A z \in Side : Lvl(h, Kid(t, z, y)) = Lvl(h, x)
    BY <1>4, <2>1
  <2> QED BY <1>1, <2>2 DEF SagFacts
<1>6. /\ m \in Ptr /\ m # Sentinel /\ m # p /\ m # y /\ m # x /\ m \in All(t, u) /\ Kid(t, o, y) # m /\ Dad(t, m) = y
      /\ Kid(t, o, y) \in Ptr /\ Kid(t, o, y) # y
  <2>1. m # Sentinel
    BY <1>4
  <2> QED BY <1>2, <1>4, <1>5, <2>1, SagRule DEF o
<1>7. \A z \in Side : /\ Kid(t, z, m) \in Ptr /\ Weight(t, Kid(t, z, m)) = 1 /\ Lvl(h, Kid(t, z, m)) = Lvl(h, x)
                      /\ Kid(t, z, m) # y /\ Kid(t, z, m) # m
                      /\ Kid(t, z, m) # Sentinel => Kid(t, z, m) # x
  <2>1. ASSUME NEW z \in Side PROVE Lvl(h, Kid(t, z, m)) = Lvl(h, x)
    <3>1. Lvl(h, m) = Lvl(h, Kid(t, z, m)) + 0 + 0
      BY <1>3, <1>6 DEF LevelAt, Gap
    <3>2. Lvl(h, Kid(t, z, m)) \in Nat
      BY <1>4, <1>6, SagRule, LevelFacts
    <3> QED BY <1>2, <1>5, <3>1, <3>2
  <2>2. \A z \in Side : Kid(t, z, m) # m
    BY <1>3, <1>6, ShapeFacts DEF NodeFacts
  <2> QED BY <1>3, <1>4, <1>6, <2>1, <2>2, SagRule
<1> HIDE DEF a, a1, o
<1>8. WeightIs(a1, t, m, 1) /\ a1 \in Tree
  BY <1>4, <1>6, WeightPut DEF a1, WeightIs
<1>9. WeightIs(a, a1, y, 0)
  BY <1>4, <1>8, WeightPut DEF a
<1>10. /\ Repaints(a, t) /\ Weight(a, m) = 1 /\ Weight(a, y) = 0 /\ \A b \in Ptr : b # y /\ b # m => Weight(a, b) = Weight(t, b)
  BY <1>4, <1>6, <1>8, <1>9 DEF WeightIs, Repaints
<1>11. Shape(a, u) /\ All(a, u) = All(t, u) /\ \A d : Order(t, u, d) => Order(a, u, d)
  BY <1>3, <1>10, RepaintsLinks
<1>12. /\ a \in Tree /\ Top(a) = Top(t) /\ Keys(a) = Keys(t)
       /\ \A z \in Side, b \in Ptr : Kid(a, z, b) = Kid(t, z, b)
       /\ \A b \in Ptr : Dad(a, b) = Dad(t, b)
  BY <1>10 DEF Repaints
<1>13. /\ Kid(a, s, p) = x /\ Kid(a, o, p) = y /\ Kid(a, s, y) = m /\ \A z \in Side : Kid(a, z, y) = Kid(t, z, y) /\ Kid(a, z, m) = Kid(t, z, m)
  BY <1>2, <1>3, <1>4, <1>6, <1>12
<1>14. TurnColours(a, u, o, y, m)
  <2>1. Weight(a, Kid(a, o, y)) = 1 /\ Weight(a, Kid(a, o, m)) = 1
    BY <1>2, <1>3, <1>6, <1>7, <1>10, <1>13
  <2>2. ASSUME NEW b \in All(a, u), NEW z \in Side, b # y, b # m, Weight(a, b) = 0
        PROVE  IF Kid(a, z, b) = y THEN Weight(a, m) = 1 ELSE Weight(a, Kid(a, z, b)) = 1
    BY <1>10, <1>11, <1>12, <2>2, SagRule
  <2>3. Top(a) # y /\ Weight(a, Top(a)) = 1
    <3>1. Top(t) # y
      BY <1>2, <1>3, <1>4, SagRule
    <3>2. Top(t) # m
      BY <1>3
    <3> QED BY <1>3, <1>4, <1>10, <1>12, <3>1, <3>2, Fields
  <2>4. Weight(a, Sentinel) = 1
    BY <1>4, <1>6, <1>10 DEF Ptr
  <2> QED BY <1>2, <1>10, <2>1, <2>2, <2>3, <2>4 DEF TurnColours
<1>15. PICK k : LvlSwap(k, h, y, m)
  BY <1>4, <1>6, LvlSwaps
<1>16. k \in Levels /\ Lvl(k, m) = Lvl(h, y) /\ Lvl(k, y) = Lvl(h, m) /\ \A b \in Ptr : b # y /\ b # m => Lvl(k, b) = Lvl(h, b)
  BY <1>15 DEF LvlSwap
<1>17. TurnHeights(a, u, h, k, o, y, m, s, p)
  <2>1. \A z : Gap(z, y, s, p) = 0 /\ Gap(z, m, s, p) = 0
    BY <1>4, <1>6 DEF Gap
  <2>2. /\ Lvl(k, y) = Lvl(h, Kid(t, o, y)) + 0 + 0 /\ Lvl(k, y) = Lvl(h, Kid(t, o, m)) + 0 + 0
        /\ Lvl(h, y) = Lvl(k, y) + 1 + 0 /\ Lvl(h, y) = Lvl(h, Kid(t, s, m)) + 1 + 0
    BY <1>2, <1>4, <1>5, <1>7, <1>16
  <2>3. LevelTurn(a, h, k, o, y, m, s, p)
    BY <1>2, <1>10, <1>13, <1>16, <2>1, <2>2 DEF LevelTurn
  <2>4. \A b \in All(a, u) : b # y /\ b # m => LevelAt(a, h, s, p, b)
    <3>1. \A b \in All(t, u) : b \in Ptr
      BY <1>3, ShapeFacts DEF NodeFacts
    <3> QED BY <1>3, <1>10, <1>11, <1>12, <3>1 DEF LevelAt
  <2>5. Lvl(k, Sentinel) = 0
    BY <1>4, <1>6, <1>16 DEF Ptr
  <2> QED BY <1>16, <2>3, <2>4, <2>5 DEF TurnHeights
<1>18. v = Rotate(a, o, y)
  BY DEF a, a1, o
<1>19. PICK w : /\ Balanced(v, w, k, s, p) /\ All(v, w) = All(a, u) /\ Keys(v) = Keys(a) /\ TurnDone(v, w, a, u, o, y, m)
                /\ \A d \in Ranks : Order(a, u, d) => Order(v, w, d)
  <2>1. m = Kid(a, Other(o), y) /\ y \in All(a, u)
    BY <1>2, <1>4, <1>11, <1>13
  <2> QED BY <1>2, <1>6, <1>11, <1>14, <1>17, <1>18, <2>1, PaintedTurn
<1>20. KidsKept(v, a, u, o, y) /\ m = Kid(a, Other(o), y) /\ p \in All(a, u)
  BY <1>2, <1>3, <1>11, <1>13, <1>19 DEF TurnDone
<1>21. Kid(v, s, p) = x
  BY <1>2, <1>4, <1>6, <1>13, <1>20 DEF KidsKept
<1>22. Kid(v, o, p) = m
  BY <1>2, <1>4, <1>6, <1>13, <1>20 DEF KidsKept
<1>23. (\A b \in Ptr : Weight(v, b) = Weight(a, b)) /\ Dad(v, x) = p /\ Kid(v, o, m) = y
  <2>1. x = Sentinel \/ x # Kid(a, o, m)
    BY <1>2, <1>7, <1>13
  <2> QED BY <1>3, <1>4, <1>6, <1>12, <1>19, <2>1 DEF TurnDone
<1>24. Weight(v, x) = 1 /\ Weight(v, Kid(v, o, Kid(v, o, p))) = 0
  BY <1>4, <1>6, <1>10, <1>22, <1>23
<1>25. Sags(v, w, k, s, p, x)
  BY <1>2, <1>3, <1>11, <1>19, <1>21, <1>23, <1>24 DEF Sags
<1> QED BY <1>11, <1>12, <1>19, <1>24, <1>25 DEF o

(* One node takes the colour of another.                                   *)
Coloured(t, n, m) == [t EXCEPT !.red[n] = t.red[m]]

LEMMA ColourPut ==
  ASSUME NEW t \in Tree, NEW n \in Ptr, NEW m \in Ptr
  PROVE  WeightIs(Coloured(t, n, m), t, n, Weight(t, m))
<1>1. t.red[m] \in BOOLEAN
  BY DEF Tree
<1>2. CASE t.red[m] = TRUE
  <2>1. Coloured(t, n, m) = Reddened(t, n) /\ Weight(t, m) = 0
    BY <1>2 DEF Coloured, Reddened, Painted, Weight
  <2> QED BY <2>1, WeightPut
<1>3. CASE t.red[m] = FALSE
  <2>1. Coloured(t, n, m) = Blackened(t, n) /\ Weight(t, m) = 1
    BY <1>3 DEF Coloured, Blackened, Painted, Weight
  <2> QED BY <2>1, WeightPut
<1> QED BY <1>1, <1>2, <1>3

(* Borrow: the far child m of the sibling y is red.                        *)
LEMMA Borrows ==
  ASSUME NEW t, NEW u, NEW h, NEW s, NEW p, NEW x, Sags(t, u, h, s, p, x), NEW y, y = Kid(t, Other(s), p),
         NEW m, m = Kid(t, Other(s), y), Weight(t, m) = 0,
         NEW v, v = Rotate(Blackened(Blackened(Coloured(t, y, p), p), m), s, p)
  PROVE  \E w, k : /\ Balanced(v, w, k, "left", Sentinel)
                   /\ All(v, w) = All(t, u) /\ Keys(v) = Keys(t)
                   /\ \A d \in Ranks : Order(t, u, d) => Order(v, w, d)
<1> DEFINE o == Other(s)
           a1 == Coloured(t, y, p)
           a2 == Blackened(a1, p)
           a == Blackened(a2, m)
<1>1. SagFacts(t, u, h, s, p, x, y)
  BY Sagging
<1>2. o \in Side /\ o # s /\ Other(o) = s /\ s \in Side /\ (\A z \in Side : z = s \/ z = o)
  BY Sides DEF Sags
<1>3. /\ Shape(t, u) /\ p \in All(t, u) /\ Kid(t, s, p) = x /\ Dad(t, x) = p /\ Weight(t, Top(t)) = 1
      /\ (\A b \in All(t, u) : LevelAt(t, h, s, p, b)) /\ Kid(t, o, p) = y /\ Kid(t, o, y) = m
  BY DEF Sags, Balanced, Level
<1>4. /\ t \in Tree /\ h \in Levels /\ Lvl(h, Sentinel) = 0 /\ p \in Ptr /\ p # Sentinel /\ y \in Ptr /\ y # Sentinel /\ x \in Ptr /\ y \in All(t, u)
      /\ p # y /\ x # p /\ x # y /\ Dad(t, y) = p /\ Weight(t, x) = 1 /\ Weight(t, Sentinel) = 1 /\ Weight(t, p) \in {0, 1}
      /\ Lvl(h, x) \in Nat /\ Lvl(h, y) = Lvl(h, x) + 1 /\ Lvl(h, p) = Lvl(h, x) + 1 + Weight(t, p) /\ Weight(t, y) \in {0, 1}
  BY <1>1 DEF SagFacts
<1>5. Weight(t, y) = 1
  BY <1>1, <1>2, <1>3, <1>4 DEF SagFacts
<1>6. \A z \in Side : /\ Kid(t, z, y) \in Ptr /\ Kid(t, z, y) # p /\ Kid(t, z, y) # y
                      /\ Kid(t, z, y) # Sentinel => Kid(t, z, y) # x /\ Kid(t, z, y) \in All(t, u) /\ Kid(t, Other(z), y) # Kid(t, z, y)
                      /\ Lvl(h, Kid(t, z, y)) = Lvl(h, x)
  <2>1. \A z \in Side : Lvl(h, y) = Lvl(h, Kid(t, z, y)) + Weight(t, y) /\ Lvl(h, Kid(t, z, y)) \in Nat
    BY <1>1 DEF SagFacts
  <2>2. \A z \in Side : Lvl(h, Kid(t, z, y)) = Lvl(h, x)
    BY <1>4, <1>5, <2>1
  <2> QED BY <1>1, <2>2 DEF SagFacts
<1>7. m \in Ptr /\ m # Sentinel /\ m # p /\ m # y /\ m # x /\ m \in All(t, u) /\ Kid(t, s, y) # m /\ Dad(t, m) = y /\ m # Top(t) /\ y # Top(t)
  <2>1. m # Sentinel
    BY <1>4
  <2> QED BY <1>2, <1>3, <1>4, <1>6, <2>1, SagRule
<1> HIDE DEF a, a1, a2, o
<1>8. WeightIs(a1, t, y, Weight(t, p)) /\ a1 \in Tree
  BY <1>4, ColourPut DEF a1, WeightIs
<1>9. WeightIs(a2, a1, p, 1) /\ a2 \in Tree
  BY <1>4, <1>8, WeightPut DEF a2, WeightIs
<1>10. WeightIs(a, a2, m, 1)
  BY <1>7, <1>9, WeightPut DEF a
<1>11. /\ Repaints(a, t) /\ Weight(a, m) = 1 /\ Weight(a, p) = 1 /\ Weight(a, y) = Weight(t, p)
       /\ \A b \in Ptr : b # y /\ b # m /\ b # p => Weight(a, b) = Weight(t, b)
  BY <1>4, <1>7, <1>8, <1>9, <1>10 DEF WeightIs, Repaints
<1>12. Shape(a, u) /\ All(a, u) = All(t, u) /\ \A d : Order(t, u, d) => Order(a, u, d)
  BY <1>3, <1>11, RepaintsLinks
<1>13. /\ a \in Tree /\ Top(a) = Top(t) /\ Keys(a) = Keys(t)
       /\ \A z \in Side, b \in Ptr : Kid(a, z, b) = Kid(t, z, b)
       /\ \A b \in Ptr : Dad(a, b) = Dad(t, b)
  BY <1>11 DEF Repaints
<1>14. /\ Kid(a, s, p) = x /\ Kid(a, o, p) = y /\ Kid(a, o, y) = m /\ \A z \in Side : Kid(a, z, y) = Kid(t, z, y) /\ Kid(a, z, m) = Kid(t, z, m)
  BY <1>2, <1>3, <1>4, <1>7, <1>13
<1>15. TurnColours(a, u, s, p, y)
  <2>1. ASSUME NEW b \in All(a, u), NEW z \in Side, b # p, b # y, Weight(a, b) = 0
        PROVE  IF Kid(a, z, b) = p THEN Weight(a, y) = 1 ELSE Weight(a, Kid(a, z, b)) = 1
    <3>1. b \in All(t, u) /\ b # m /\ b \in Ptr /\ Kid(a, z, b) = Kid(t, z, b) /\ Kid(t, z, b) \in Ptr
      BY <1>11, <1>12, <1>13, <2>1, SagRule
    <3>2. Weight(t, b) = 0
      BY <1>11, <2>1, <3>1
    <3>3. Weight(t, Kid(t, z, b)) = 1 /\ Kid(t, z, b) # y /\ Kid(t, z, b) # m
      BY <1>4, <1>7, <2>1, <3>1, <3>2, SagRule
    <3> QED BY <1>11, <3>1, <3>3
  <2>2. IF Top(a) = p THEN Weight(a, y) = 1 ELSE Weight(a, Top(a)) = 1
    <3>1. Top(t) \in Ptr
      BY <1>4, Fields
    <3>2. CASE Top(t) = p
      BY <1>3, <1>11, <1>13, <3>2
    <3>3. CASE Top(t) # p
      BY <1>3, <1>7, <1>11, <1>13, <3>1, <3>3
    <3> QED BY <3>2, <3>3, <1>13
  <2>3. Weight(a, Sentinel) = 1
    BY <1>4, <1>7, <1>11 DEF Ptr
  <2>4. Weight(a, Kid(a, Other(s), y)) = 1
    BY <1>11, <1>14 DEF o
  <2> QED BY <1>11, <2>1, <2>2, <2>3, <2>4 DEF TurnColours
<1>16. PICK h1, k : LvlPut(h1, h, m, Lvl(h, x) + 1) /\ LvlSwap(k, h1, p, y)
  <2>1. PICK h1 : LvlPut(h1, h, m, Lvl(h, x) + 1)
    BY <1>4, <1>7, LvlPuts
  <2>2. h1 \in Levels
    BY <2>1 DEF LvlPut
  <2> QED BY <1>4, <2>1, <2>2, LvlSwaps
<1>17. h1 \in Levels /\ Lvl(h1, m) = Lvl(h, x) + 1 /\ \A b \in Ptr : b # m => Lvl(h1, b) = Lvl(h, b)
  BY <1>16 DEF LvlPut
<1>18. k \in Levels /\ Lvl(k, y) = Lvl(h1, p) /\ Lvl(k, p) = Lvl(h1, y) /\ \A b \in Ptr : b # p /\ b # y => Lvl(k, b) = Lvl(h1, b)
  BY <1>16 DEF LvlSwap
<1>19. TurnHeights(a, u, h1, k, s, p, y, "left", Sentinel)
  <2>1. \A z : Gap(z, y, "left", Sentinel) = 0 /\ Gap(z, p, "left", Sentinel) = 0
    BY <1>4, NoGap
  <2>2. /\ Lvl(k, p) = Lvl(h1, x) + 1 + 0 /\ Lvl(k, p) = Lvl(h1, Kid(t, s, y)) + 1 + 0
        /\ Lvl(h1, p) = Lvl(k, p) + Weight(t, p) + 0 /\ Lvl(h1, p) = Lvl(h1, m) + Weight(t, p) + 0
    BY <1>2, <1>4, <1>6, <1>7, <1>17, <1>18
  <2>3. LevelTurn(a, h1, k, s, p, y, "left", Sentinel)
    BY <1>2, <1>11, <1>14, <1>18, <2>1, <2>2 DEF LevelTurn, o
  <2>4. ASSUME NEW b \in All(a, u), b # p, b # y, NEW z \in Side
        PROVE  Lvl(h1, b) = Lvl(h1, Kid(a, z, b)) + Weight(a, b) + Gap(z, b, "left", Sentinel)
    <3>1. b \in All(t, u) /\ b \in Ptr /\ b # Sentinel /\ Kid(a, z, b) = Kid(t, z, b) /\ Kid(t, z, b) \in Ptr /\ Kid(t, z, b) # m
          /\ Weight(t, b) \in {0, 1}
      BY <1>7, <1>12, <1>13, <2>4, SagRule
    <3>2. Gap(z, b, "left", Sentinel) = 0 /\ Gap(z, b, s, p) = 0
      BY <2>4, <3>1, NoGap DEF Gap
    <3>3. Lvl(h, b) = Lvl(h, Kid(t, z, b)) + Weight(t, b) + 0
      BY <1>3, <3>1, <3>2 DEF LevelAt
    <3>4. Lvl(h1, Kid(t, z, b)) = Lvl(h, Kid(t, z, b)) /\ Lvl(h, Kid(t, z, b)) \in Nat
      BY <1>4, <1>17, <3>1, LevelFacts
    <3>5. CASE b = m
      BY <1>2, <1>3, <1>4, <1>6, <1>7, <1>11, <1>17, <3>1, <3>2, <3>3, <3>4, <3>5
    <3>6. CASE b # m
      BY <1>11, <1>17, <2>4, <3>1, <3>2, <3>3, <3>4, <3>6
    <3> QED BY <3>5, <3>6
  <2>5. Lvl(k, Sentinel) = 0
    BY <1>4, <1>7, <1>17, <1>18 DEF Ptr
  <2> QED BY <1>18, <2>3, <2>4, <2>5 DEF TurnHeights, LevelAt
<1>20. v = Rotate(a, s, p)
  BY DEF a, a1, a2
<1>21. PICK w : /\ Balanced(v, w, k, "left", Sentinel) /\ All(v, w) = All(a, u) /\ Keys(v) = Keys(a) /\ TurnDone(v, w, a, u, s, p, y)
                /\ \A d \in Ranks : Order(a, u, d) => Order(v, w, d)
  <2>1. y = Kid(a, Other(s), p) /\ p \in All(a, u)
    BY <1>3, <1>12, <1>14 DEF o
  <2> QED BY <1>2, <1>4, <1>12, <1>15, <1>19, <1>20, <2>1, PaintedTurn
<1> QED BY <1>12, <1>13, <1>21

-------------------------------------------------------------------------------
(* What the loop of ngx_rbtree_delete() does in one round.                 *)
TurnedOf(t, s, y, m) == Rotate(Reddened(Blackened(t, m), y), Other(s), y)
BorrowOf(t, s, p, y, m) == Rotate(Blackened(Blackened(Coloured(t, y, p), p), m), s, p)

LEMMA TurnedIs ==
  ASSUME NEW t, NEW s, NEW y
  PROVE  Turned(t, s, y) = IF t.red[Kid(t, Other(s), y)] THEN t ELSE TurnedOf(t, s, y, Kid(t, s, y))
BY DEF Turned, TurnedOf, Reddened, Blackened, Painted, Kid

LEMMA BorrowIs ==
  ASSUME NEW t, NEW s, NEW p
  PROVE  Borrow(t, s, p) = BorrowOf(t, s, p, Kid(t, Other(s), p), Kid(t, Other(s), Kid(t, Other(s), p)))
<1> DEFINE y == Kid(t, Other(s), p)
           m == Kid(t, Other(s), y)
<1>1. Borrow(t, s, p) = Rotate([t EXCEPT !.red[y] = t.red[p], !.red[p] = FALSE, !.red[m] = FALSE], s, p)
  BY DEF Borrow, Kid
<1> HIDE DEF y, m
<1>2. [t EXCEPT !.red[y] = t.red[p], !.red[p] = FALSE, !.red[m] = FALSE] = Blackened(Blackened(Coloured(t, y, p), p), m)
  BY DEF Blackened, Painted, Coloured
<1> QED BY <1>1, <1>2 DEF BorrowOf, y, m

LEMMA RepairedIs ==
  ASSUME NEW t \in Tree, NEW s \in Side, NEW p \in Ptr, NEW y, y = Kid(t, Other(s), p),
         NEW v, v = Borrow(Turned(t, s, y), s, p)
  PROVE  /\ (\A z \in Side : Weight(t, Kid(t, z, y)) = 1) => Repaired(t, s, p) = At(Reddened(t, y), p)
         /\ (\E z \in Side : Weight(t, Kid(t, z, y)) = 0) => Repaired(t, s, p) = At(v, Top(v))
<1>1. Repaired(t, s, p) = IF ~t.red[Kid(t, "left", y)] /\ ~t.red[Kid(t, "right", y)] THEN At(Reddened(t, y), p) ELSE At(v, Top(v))
  BY DEF Repaired, Kid, Top, Reddened
<1>2. Other(s) \in Side /\ "left" \in Side /\ "right" \in Side /\ \A z \in Side : z = "left" \/ z = "right"
  BY Sides
<1>3. y \in Ptr
  BY <1>2, Fields
<1>4. \A z \in Side : Kid(t, z, y) \in Ptr
  BY <1>3, Fields
<1>5. \A z \in Side : t.red[Kid(t, z, y)] <=> Weight(t, Kid(t, z, y)) = 0
  BY <1>4, IsBlack
<1>6. \A z \in Side : Weight(t, Kid(t, z, y)) \in {0, 1}
  BY <1>4, Fields
<1>7. (~t.red[Kid(t, "left", y)] <=> Weight(t, Kid(t, "left", y)) = 1) /\ (~t.red[Kid(t, "right", y)] <=> Weight(t, Kid(t, "right", y)) = 1)
  BY <1>2, <1>5, <1>6
<1>8. ASSUME \A z \in Side : Weight(t, Kid(t, z, y)) = 1 PROVE Repaired(t, s, p) = At(Reddened(t, y), p)
  BY <1>1, <1>2, <1>7, <1>8
<1>9. ASSUME NEW z \in Side, Weight(t, Kid(t, z, y)) = 0 PROVE Repaired(t, s, p) = At(v, Top(v))
  BY <1>1, <1>2, <1>7, <1>9
<1> QED BY <1>8, <1>9

DeleteRoundIs(b, t, x, s, p, y) ==
  /\ DeleteEnds(b) => DeleteRound[b] = b
  /\ ~DeleteEnds(b) /\ Weight(t, y) = 0 => DeleteRound[b] = Repaired(Rotate(Reddened(Blackened(t, y), p), s, p), s, p)
  /\ ~DeleteEnds(b) /\ Weight(t, y) # 0 => DeleteRound[b] = Repaired(t, s, p)
  /\ DeleteEnds(b) <=> x = Top(t) \/ Weight(t, x) = 0

LEMMA DeleteRounds ==
  ASSUME NEW b \in Cursor, NEW t, t = TreeOf(b), NEW x, x = AtOf(b)
  PROVE  DeleteRoundIs(b, t, x, SideOf(t, x), Dad(t, x), Kid(t, Other(SideOf(t, x)), Dad(t, x)))
<1> DEFINE p == Dad(t, x)
           s == SideOf(t, x)
           y == Kid(t, Other(s), p)
<1>1. t \in Tree /\ x \in Ptr
  BY Cursors
<1>2. p \in Ptr /\ s \in Side /\ y \in Ptr
  BY <1>1, Fields, Sides
<1>3. DeleteRound[b] = IF DeleteEnds(b) THEN b ELSE Repaired(IF t.red[y] THEN Siblinged(t, s, p, y) ELSE t, s, p)
  BY DEF DeleteRound, TreeOf, AtOf, Kid, Dad
<1>4. DeleteEnds(b) <=> x = Top(t) \/ t.red[x]
  BY DEF DeleteEnds, TreeOf, AtOf, Top
<1>5. Siblinged(t, s, p, y) = Rotate(Reddened(Blackened(t, y), p), s, p)
  <2> HIDE DEF s, p, y
  <2> QED BY DEF Siblinged, Reddened, Blackened, Painted
<1> HIDE DEF p, s, y
<1>6. (t.red[y] <=> Weight(t, y) = 0) /\ (t.red[x] <=> Weight(t, x) = 0)
  BY <1>1, <1>2, IsBlack
<1>7. DeleteRoundIs(b, t, x, s, p, y)
  BY <1>3, <1>4, <1>5, <1>6 DEF DeleteRoundIs
<1> QED BY <1>7 DEF p, s, y

LEMMA RepairedType ==
  ASSUME NEW t \in Tree, NEW s \in Side, NEW p \in Ptr
  PROVE  Repaired(t, s, p) \in Cursor
<1> DEFINE y == Kid(t, Other(s), p)
           c == Turned(t, s, y)
           v == Borrow(c, s, p)
<1>1. Other(s) \in Side /\ y \in Ptr
  BY Sides, Fields
<1>2. \A z \in Side : Kid(t, z, y) \in Ptr
  BY <1>1, Fields
<1>3. c \in Tree
  <2>1. Blackened(t, Kid(t, s, y)) \in Tree
    BY <1>2, WeightType
  <2>2. Reddened(Blackened(t, Kid(t, s, y)), y) \in Tree
    BY <1>1, <2>1, WeightType
  <2>3. TurnedOf(t, s, y, Kid(t, s, y)) \in Tree
    BY <1>1, <2>2, RotateType DEF TurnedOf
  <2> QED BY <2>3, TurnedIs
<1> HIDE DEF c
<1>4. v \in Tree
  <2> DEFINE e == Kid(c, Other(s), p)
             m == Kid(c, Other(s), e)
  <2>1. e \in Ptr
    BY <1>1, <1>3, Fields
  <2>2. m \in Ptr
    BY <1>1, <1>3, <2>1, Fields
  <2>3. v = BorrowOf(c, s, p, e, m)
    BY BorrowIs
  <2> HIDE DEF e, m
  <2>4. Coloured(c, e, p) \in Tree
    BY <1>3, <2>1, ColourPut DEF WeightIs
  <2>5. Blackened(Coloured(c, e, p), p) \in Tree
    BY <2>4, WeightType
  <2>6. Blackened(Blackened(Coloured(c, e, p), p), m) \in Tree
    BY <2>2, <2>5, WeightType
  <2> QED BY <2>3, <2>6, RotateType DEF BorrowOf
<1> HIDE DEF v, y
<1>5. Reddened(t, y) \in Tree /\ Top(v) \in Ptr
  BY <1>1, <1>4, WeightType, Fields
<1>6. At(Reddened(t, y), p) \in Cursor /\ At(v, Top(v)) \in Cursor
  BY <1>4, <1>5, Cursors
<1>7. (\A z \in Side : Weight(t, Kid(t, z, y)) = 1) \/ (\E z \in Side : Weight(t, Kid(t, z, y)) = 0)
  BY <1>2, Fields
<1> QED BY <1>6, <1>7, RepairedIs DEF v, y, c

LEMMA DeleteRoundType == DeleteRound \in [Cursor -> Cursor]
<1> SUFFICES ASSUME NEW b \in Cursor PROVE DeleteRound[b] \in Cursor
  <2>1. ASSUME \A b \in Cursor : DeleteRound[b] \in Cursor PROVE DeleteRound \in [Cursor -> Cursor]
    BY <2>1 DEF DeleteRound
  <2> QED BY <2>1
<1> DEFINE t == TreeOf(b)
           x == AtOf(b)
           p == Dad(t, x)
           s == SideOf(t, x)
           y == Kid(t, Other(s), p)
<1>1. t \in Tree /\ x \in Ptr
  BY Cursors
<1>2. p \in Ptr /\ s \in Side /\ Other(s) \in Side
  BY <1>1, Fields, Sides
<1>3. y \in Ptr
  BY <1>1, <1>2, Fields
<1>4. DeleteRoundIs(b, t, x, s, p, y)
  BY DeleteRounds
<1> HIDE DEF t, x, p, s, y
<1>5. Blackened(t, y) \in Tree
  BY <1>1, <1>3, WeightType
<1>6. Reddened(Blackened(t, y), p) \in Tree
  BY <1>2, <1>5, WeightType
<1>7. Rotate(Reddened(Blackened(t, y), p), s, p) \in Tree
  BY <1>2, <1>6, RotateType
<1> QED BY <1>1, <1>2, <1>4, <1>7, RepairedType DEF DeleteRoundIs

-------------------------------------------------------------------------------
(* What the loop of ngx_rbtree_delete() keeps.                             *)
Falls(b, u, h, s, p, d, T, kk) ==
  /\ Holed(TreeOf(b), u, h, s, p, AtOf(b)) /\ Order(TreeOf(b), u, d) /\ All(TreeOf(b), u) = T /\ Keys(TreeOf(b)) = kk

LEMMA BalancedHoled ==
  ASSUME NEW t, NEW u, NEW h, Balanced(t, u, h, "left", Sentinel), Top(t) # Sentinel
  PROVE  Holed(t, u, h, "left", Sentinel, Top(t))
<1>1. Shape(t, u) /\ Level(t, u, h, "left", Sentinel) /\ RedRule(t, u, Sentinel, Sentinel)
  BY DEF Balanced
<1>2. \A a \in All(t, u) : a # Sentinel
  BY <1>1, ShapeFacts DEF NodeFacts
<1>3. RedRule(t, u, Top(t), Top(t))
  BY <1>1, <1>2 DEF RedRule
<1> QED BY <1>1, <1>3, Sides DEF Holed

LEMMA RepairFalls ==
  ASSUME NEW t, NEW u, NEW h, NEW s, NEW p, NEW x, Sags(t, u, h, s, p, x), Weight(t, Kid(t, Other(s), p)) = 1,
         NEW d \in Ranks, Order(t, u, d), NEW c, c = Repaired(t, s, p)
  PROVE  \/ AtOf(c) = Top(TreeOf(c)) /\ \E w, k, r, g : Falls(c, w, k, r, g, d, All(t, u), Keys(t))
         \/ AtOf(c) = p /\ \E k, r, g : Falls(c, u, k, r, g, d, All(t, u), Keys(t))
<1> DEFINE y == Kid(t, Other(s), p)
           v0 == Borrow(Turned(t, s, y), s, p)
<1>1. SagFacts(t, u, h, s, p, x, y)
  BY Sagging
<1>2. t \in Tree /\ p \in Ptr /\ s \in Side /\ y \in Ptr /\ Other(s) \in Side /\ \A z \in Side : z = s \/ z = Other(s)
  BY <1>1, Sides DEF SagFacts, Sags
<1>3. \A z \in Side : Kid(t, z, y) \in Ptr /\ Weight(t, Kid(t, z, y)) \in {0, 1}
  BY <1>1 DEF SagFacts
<1>4. /\ (\A z \in Side : Weight(t, Kid(t, z, y)) = 1) => c = At(Reddened(t, y), p)
      /\ (\E z \in Side : Weight(t, Kid(t, z, y)) = 0) => c = At(v0, Top(v0))
  BY <1>2, RepairedIs
<1>5. t.red[Kid(t, Other(s), y)] <=> Weight(t, Kid(t, Other(s), y)) = 0
  BY <1>2, <1>3, IsBlack
<1>6. CASE \A z \in Side : Weight(t, Kid(t, z, y)) = 1
  <2> DEFINE v == Reddened(t, y)
  <2>1. \E k, r, g : Holed(v, u, k, r, g, p) /\ All(v, u) = All(t, u) /\ Keys(v) = Keys(t) /\ Order(v, u, d)
    BY <1>6, SagRises
  <2>2. TreeOf(c) = v /\ AtOf(c) = p
    BY <1>4, <1>6, Cursors
  <2> HIDE DEF v, y
  <2> QED BY <2>1, <2>2 DEF Falls
<1>7. CASE \E z \in Side : Weight(t, Kid(t, z, y)) = 0
  <2>1. TreeOf(c) = v0 /\ AtOf(c) = Top(v0)
    BY <1>4, <1>7, Cursors
  <2>2. ASSUME NEW v, NEW w, NEW k, Sags(v, w, k, s, p, x), Weight(v, Kid(v, Other(s), Kid(v, Other(s), p))) = 0,
               All(v, w) = All(t, u), Keys(v) = Keys(t), Order(v, w, d), v0 = Borrow(v, s, p)
        PROVE  \E w1, k1 : Balanced(v0, w1, k1, "left", Sentinel) /\ All(v0, w1) = All(t, u) /\ Keys(v0) = Keys(t) /\ Order(v0, w1, d)
    <3> DEFINE y1 == Kid(v, Other(s), p)
               m1 == Kid(v, Other(s), y1)
    <3>1. v0 = Rotate(Blackened(Blackened(Coloured(v, y1, p), p), m1), s, p)
      BY <2>2, BorrowIs DEF BorrowOf
    <3>2. Weight(v, m1) = 0
      BY <2>2
    <3> HIDE DEF y1, m1, v0
    <3>3. \E w1, k1 : /\ Balanced(v0, w1, k1, "left", Sentinel) /\ All(v0, w1) = All(v, w) /\ Keys(v0) = Keys(v)
                      /\ \A e \in Ranks : Order(v, w, e) => Order(v0, w1, e)
      BY <2>2, <3>1, <3>2, Borrows DEF y1, m1
    <3> QED BY <2>2, <3>3
  <2>3. \E w1, k1 : Balanced(v0, w1, k1, "left", Sentinel) /\ All(v0, w1) = All(t, u) /\ Keys(v0) = Keys(t) /\ Order(v0, w1, d)
    <3>1. CASE Weight(t, Kid(t, Other(s), y)) = 0
      <4>1. Turned(t, s, y) = t
        BY <1>5, <3>1, TurnedIs
      <4> QED BY <2>2, <3>1, <4>1
    <3>2. CASE Weight(t, Kid(t, Other(s), y)) # 0
      <4> DEFINE m == Kid(t, s, y)
                 v == Rotate(Reddened(Blackened(t, m), y), Other(s), y)
      <4>1. Weight(t, Kid(t, Other(s), y)) = 1 /\ Weight(t, m) = 0
        BY <1>2, <1>3, <1>7, <3>2
      <4>2. Turned(t, s, y) = v
        BY <1>5, <3>2, TurnedIs DEF TurnedOf
      <4>3. v0 = Borrow(v, s, p)
        BY <4>2
      <4>4. \E w, k : /\ Sags(v, w, k, s, p, x) /\ Weight(v, Kid(v, Other(s), Kid(v, Other(s), p))) = 0
                      /\ All(v, w) = All(t, u) /\ Keys(v) = Keys(t) /\ Order(v, w, d)
        BY <4>1, NearTurns
      <4> HIDE DEF v, v0, m
      <4> QED BY <2>2, <4>3, <4>4
    <3> QED BY <3>1, <3>2
  <2> HIDE DEF v0
  <2>4. PICK w1, k1 : Balanced(v0, w1, k1, "left", Sentinel) /\ All(v0, w1) = All(t, u) /\ Keys(v0) = Keys(t) /\ Order(v0, w1, d)
    BY <2>3
  <2>5. Top(v0) # Sentinel
    BY <2>4 DEF Balanced, Shape, All, Sags
  <2>6. Holed(v0, w1, k1, "left", Sentinel, Top(v0))
    BY <2>4, <2>5, BalancedHoled
  <2> QED BY <2>1, <2>4, <2>6 DEF Falls
<1> QED BY <1>3, <1>6, <1>7

LEMMA DeleteFalls ==
  ASSUME NEW b \in Cursor, NEW u, NEW h, NEW r, NEW g, NEW d \in Ranks, NEW T, NEW kk, Falls(b, u, h, r, g, d, T, kk), ~DeleteEnds(b)
  PROVE  \E w, k, r1, g1 : /\ Falls(DeleteRound[b], w, k, r1, g1, d, T, kk)
                           /\ DeleteEnds(DeleteRound[b]) \/ Count(w, AtOf(DeleteRound[b])) > Count(u, AtOf(b))
<1> DEFINE t == TreeOf(b)
           x == AtOf(b)
           p == Dad(t, x)
           s == SideOf(t, x)
           y == Kid(t, Other(s), p)
           c == DeleteRound[b]
<1>1. t \in Tree /\ x \in Ptr /\ c \in Cursor
  BY Cursors, DeleteRoundType
<1>2. DeleteRoundIs(b, t, x, s, p, y)
  BY DeleteRounds
<1>3. Holed(t, u, h, r, g, x) /\ Order(t, u, d) /\ All(t, u) = T /\ Keys(t) = kk
  BY DEF Falls
<1>4. AtOf(c) = Top(TreeOf(c)) => DeleteEnds(c)
  BY <1>1, DeleteRounds DEF DeleteRoundIs
<1> HIDE DEF t, x, p, s, y, c
<1>5. x # Top(t) /\ Weight(t, x) = 1
  BY <1>1, <1>2, Fields DEF DeleteRoundIs
<1>6. Sags(t, u, h, r, g, x) /\ s = r
  BY <1>3, <1>5, HoledSags DEF s
<1>7. p = g /\ Sags(t, u, h, s, p, x)
  BY <1>6 DEF Sags, p
<1>8. SagFacts(t, u, h, s, p, x, y)
  BY <1>7, Sagging DEF y
<1>9. ASSUME NEW v, NEW w, NEW k, Sags(v, w, k, s, p, x), Weight(v, Kid(v, Other(s), p)) = 1, Sub(w, x) = Sub(u, x),
             Order(v, w, d), All(v, w) = T, Keys(v) = kk, c = Repaired(v, s, p)
      PROVE  \E w1, k1, r1, g1 : Falls(c, w1, k1, r1, g1, d, T, kk) /\ (DeleteEnds(c) \/ Count(w1, AtOf(c)) > Count(u, x))
  <2>1. \/ AtOf(c) = Top(TreeOf(c)) /\ \E w1, k1, r1, g1 : Falls(c, w1, k1, r1, g1, d, T, kk)
        \/ AtOf(c) = p /\ \E k1, r1, g1 : Falls(c, w, k1, r1, g1, d, T, kk)
    BY <1>9, RepairFalls
  <2>2. Count(w, p) > Count(u, x)
    <3>1. Shape(v, w) /\ p \in All(v, w) /\ Kid(v, s, p) = x /\ s \in Side
      BY <1>9 DEF Sags, Balanced
    <3>2. w \in Subs /\ p \in Ptr /\ p \in Sub(w, p) /\ x \in Ptr
      BY <1>1, <3>1, ShapeFacts DEF NodeFacts
    <3>3. (\A e \in Sub(w, x) : e \in Sub(w, p)) /\ p \notin Sub(w, x)
      BY <3>1, ShapeFacts DEF NodeFacts, Shape, Parts
    <3>4. Count(w, x) < Count(w, p)
      BY <3>2, <3>3, CountFacts
    <3>5. Count(w, x) = Count(u, x)
      BY <1>9 DEF Count
    <3>6. Count(w, x) \in 0 .. Size /\ Count(w, p) \in 0 .. Size
      BY <3>2, CountFacts
    <3> QED BY <3>4, <3>5, <3>6, SizeType
  <2> QED BY <1>4, <2>1, <2>2
<1>10. CASE Weight(t, y) = 0
  <2> DEFINE v == Rotate(Reddened(Blackened(t, y), p), s, p)
  <2>1. c = Repaired(v, s, p)
    BY <1>2, <1>10 DEF DeleteRoundIs, c
  <2>2. \E w, k : /\ Sags(v, w, k, s, p, x) /\ Weight(v, Kid(v, Other(s), p)) = 1
                  /\ All(v, w) = All(t, u) /\ Keys(v) = Keys(t) /\ Sub(w, x) = Sub(u, x) /\ Order(v, w, d)
    BY <1>3, <1>7, <1>10, SiblingTurns DEF y
  <2> HIDE DEF v
  <2> QED BY <1>3, <1>9, <2>1, <2>2 DEF c, x
<1>11. CASE Weight(t, y) # 0
  <2>1. c = Repaired(t, s, p)
    BY <1>2, <1>11 DEF DeleteRoundIs, c
  <2>2. Weight(t, y) = 1
    BY <1>8, <1>11 DEF SagFacts
  <2> QED BY <1>3, <1>7, <1>9, <2>1, <2>2 DEF c, x, y
<1> QED BY <1>10, <1>11

-------------------------------------------------------------------------------
LEMMA HoledCount ==
  ASSUME NEW t, NEW u, NEW h, NEW s, NEW p, NEW x, Holed(t, u, h, s, p, x), NEW n \in Node, n \notin All(t, u)
  PROVE  x \in Ptr /\ t \in Tree /\ Count(u, x) + 1 \in 1 .. Size
<1>1. Shape(t, u) /\ t \in Tree /\ Top(t) \in Ptr /\ u \in Subs /\ \A a \in All(t, u) : NodeFacts(t, u, a)
  BY ShapeFacts DEF Holed
<1>2. x \in Ptr /\ \A b \in Sub(u, x) : b \in All(t, u)
  <2>1. CASE x = Top(t)
    BY <1>1, <2>1 DEF All
  <2>2. CASE p \in All(t, u) /\ Kid(t, s, p) = x /\ s \in Side
    BY <1>1, <2>2, Fields DEF NodeFacts
  <2> QED BY <2>1, <2>2 DEF Holed
<1>3. Sub(u, x) \in SUBSET (Node \ {n})
  BY <1>1, <1>2, SubIsNodes
<1>4. IsFiniteSet(Node) /\ IsFiniteSet(Node \ {n}) /\ Cardinality(Node \ {n}) = Size - 1
  BY RbTreeAssumption, FS_RemoveElement DEF Size
<1>5. Count(u, x) <= Size - 1
  BY <1>3, <1>4, FS_Subset DEF Count
<1>6. Count(u, x) \in 0 .. Size
  BY <1>1, <1>2, CountFacts
<1> QED BY <1>1, <1>2, <1>5, <1>6, SizeType

LEMMA DeleteLoop ==
  ASSUME NEW t, NEW u, NEW h, NEW s, NEW p, NEW x, Holed(t, u, h, s, p, x), NEW d \in Ranks, Order(t, u, d),
         NEW n \in Node, n \notin All(t, u), NEW b, b = Loop(DeleteRound, At(t, x))
  PROVE  b \in Cursor /\ DeleteEnds(b) /\ \E w, k, r, g : Falls(b, w, k, r, g, d, All(t, u), Keys(t))
<1> DEFINE T == All(t, u)
           kk == Keys(t)
           F == {c \in Cursor : DeleteEnds(c) /\ \E w, k, r, g : Falls(c, w, k, r, g, d, T, kk)}
           G == {e \in Cursor \X (1 .. Size) : \E w, k, r, g : Falls(e[1], w, k, r, g, d, T, kk) /\ e[2] = Count(w, AtOf(e[1])) + 1}
<1>1. x \in Ptr /\ t \in Tree /\ Count(u, x) + 1 \in 1 .. Size
  BY HoledCount
<1>2. At(t, x) \in Cursor /\ TreeOf(At(t, x)) = t /\ AtOf(At(t, x)) = x /\ Falls(At(t, x), u, h, s, p, d, T, kk)
  BY <1>1, Cursors DEF Falls
<1>3. n \notin T
  OBVIOUS
<1> HIDE DEF T, kk
<1>4. ASSUME NEW c \in Cursor, NEW w, NEW k, NEW r, NEW g, Falls(c, w, k, r, g, d, T, kk) PROVE Count(w, AtOf(c)) + 1 \in 1 .. Size
  <2>1. Holed(TreeOf(c), w, k, r, g, AtOf(c)) /\ All(TreeOf(c), w) = T
    BY <1>4 DEF Falls
  <2> QED BY <1>3, <2>1, HoledCount
<1>5. ASSUME NEW c \in Cursor, NEW m \in 1 .. Size, <<c, m>> \in G
      PROVE  DeleteRound[c] \in F \/ \E j \in 1 .. Size : j > m /\ <<DeleteRound[c], j>> \in G
  <2>1. PICK w, k, r, g : Falls(c, w, k, r, g, d, T, kk) /\ m = Count(w, AtOf(c)) + 1
    BY <1>5
  <2>2. CASE DeleteEnds(c)
    <3>1. DeleteRound[c] = c
      BY <2>2, DeleteRounds DEF DeleteRoundIs
    <3> QED BY <2>1, <2>2, <3>1
  <2>3. CASE ~DeleteEnds(c)
    <3>0. DeleteRound[c] \in Cursor
      BY DeleteRoundType
    <3>1. PICK w1, k1, r1, g1 : /\ Falls(DeleteRound[c], w1, k1, r1, g1, d, T, kk)
                                /\ DeleteEnds(DeleteRound[c]) \/ Count(w1, AtOf(DeleteRound[c])) > Count(w, AtOf(c))
      BY <2>1, <2>3, DeleteFalls
    <3> DEFINE j == Count(w1, AtOf(DeleteRound[c])) + 1
    <3>2. j \in 1 .. Size /\ Count(w, AtOf(c)) + 1 \in 1 .. Size
      BY <1>4, <2>1, <3>0, <3>1
    <3>3. <<DeleteRound[c], j>> \in G
      BY <3>0, <3>1, <3>2
    <3>4. CASE DeleteEnds(DeleteRound[c])
      BY <3>0, <3>1, <3>4
    <3>5. CASE Count(w1, AtOf(DeleteRound[c])) > Count(w, AtOf(c))
      <4>1. Count(w1, AtOf(DeleteRound[c])) \in Nat /\ Count(w, AtOf(c)) \in Nat
        <5>1. Holed(TreeOf(DeleteRound[c]), w1, k1, r1, g1, AtOf(DeleteRound[c])) /\ Holed(TreeOf(c), w, k, r, g, AtOf(c))
          BY <2>1, <3>1 DEF Falls
        <5>2. w1 \in Subs /\ w \in Subs /\ AtOf(DeleteRound[c]) \in Ptr /\ AtOf(c) \in Ptr
          BY <3>0, <5>1, Cursors DEF Holed, Shape
        <5> QED BY <5>2, CountFacts, SizeType
      <4> HIDE DEF G
      <4>2. j > m
        BY <2>1, <3>5, <4>1
      <4> QED BY <3>2, <3>3, <4>2
    <3> QED BY <3>1, <3>4, <3>5
  <2> QED BY <2>2, <2>3
<1>6. \A c \in F : DeleteRound[c] = c
  BY DeleteRounds DEF DeleteRoundIs
<1>7. F \in SUBSET Cursor
  OBVIOUS
<1>8. <<At(t, x), Count(u, x) + 1>> \in G
  BY <1>1, <1>2
<1> HIDE DEF F, G
<1>9. Ends(Cursor, DeleteRound, F, G)
  BY <1>5, <1>6, <1>7, DeleteRoundType DEF Ends
<1> DEFINE first == Count(u, x) + 1
<1>10. first \in 1 .. Size /\ <<At(t, x), first>> \in G
  BY <1>1, <1>8
<1> HIDE DEF first
<1>11. b \in F
  BY <1>2, <1>9, <1>10, LoopEnds
<1> QED BY <1>11 DEF F, T, kk

(* A red node is made black: it has the black node that was missing.       *)
LEMMA Filled ==
  ASSUME NEW t, NEW u, NEW h, NEW s, NEW p, NEW x, Holed(t, u, h, s, p, x), x # Top(t), Weight(t, x) = 0,
         NEW d, Order(t, u, d), NEW v, v = Blackened(t, x)
  PROVE  \E k : TreeWith(v, u, k, d, All(t, u), Keys(t))
<1>1. /\ Shape(t, u) /\ h \in Levels /\ Lvl(h, Sentinel) = 0 /\ (\A a \in All(t, u) : LevelAt(t, h, s, p, a))
      /\ RedRule(t, u, x, x) /\ s \in Side /\ p \in All(t, u) /\ Kid(t, s, p) = x /\ Dad(t, x) = p /\ Weight(t, Top(t)) = 1
  BY DEF Holed, Level
<1>2. t \in Tree /\ Top(t) \in Ptr /\ (\A a \in All(t, u) : NodeFacts(t, u, a)) /\ Down(t, u) /\ Sentinel \in Ptr
  BY <1>1, ShapeFacts DEF Shape, Ptr
<1>3. x # Sentinel /\ x \in Ptr /\ x \in All(t, u)
  <2>1. x # Sentinel
    BY <1>1 DEF RedRule
  <2>2. x \in All(t, u)
    BY <1>1, <1>2, <2>1 DEF Down
  <2> QED BY <1>2, <2>1, <2>2 DEF NodeFacts
<1>4. p # x /\ p \in Ptr
  BY <1>1, <1>2, <1>3 DEF NodeFacts
<1>5. WeightIs(v, t, x, 1)
  BY <1>2, <1>3, WeightPut
<1>6. /\ LinksKept(v, t, u) /\ v \in Tree /\ Top(v) = Top(t) /\ Keys(v) = Keys(t) /\ Weight(v, x) = 1
      /\ \A z \in Side, a \in Ptr : Kid(v, z, a) = Kid(t, z, a)
      /\ \A a \in Ptr : a # x => Weight(v, a) = Weight(t, a)
  BY <1>1, <1>5, PaintedLinks DEF WeightIs
<1>7. Shape(v, u) /\ All(v, u) = All(t, u) /\ Order(v, u, d)
  BY <1>1, <1>6, LinksShape, LinksOrder
<1> DEFINE m == Lvl(h, x) + 1
<1>8. m \in Nat /\ m = Lvl(h, x) + 1 /\ Lvl(h, x) \in Nat
  BY <1>1, <1>3, LevelFacts
<1> HIDE DEF m
<1>9. PICK k : LvlPut(k, h, x, m)
  BY <1>1, <1>3, <1>8, LvlPuts
<1>10. k \in Levels /\ Lvl(k, x) = m /\ \A a \in Ptr : a # x => Lvl(k, a) = Lvl(h, a)
  BY <1>9 DEF LvlPut
<1>11. ASSUME NEW a \in All(t, u), NEW z \in Side PROVE Lvl(k, a) = Lvl(k, Kid(v, z, a)) + Weight(v, a) + Gap(z, a, "left", Sentinel)
  <2>2. a \in Ptr /\ a # Sentinel /\ Kid(t, z, a) \in Ptr /\ Kid(v, z, a) = Kid(t, z, a) /\ (Kid(t, z, a) # Sentinel => Kid(t, z, a) # a)
    BY <1>2, <1>6, Fields DEF NodeFacts
  <2>3. Lvl(h, a) = Lvl(h, Kid(t, z, a)) + Weight(t, a) + Gap(z, a, s, p) /\ Gap(z, a, "left", Sentinel) = 0
    BY <1>1, <2>2, NoGap DEF LevelAt
  <2>4. Lvl(h, Kid(t, z, a)) \in Nat /\ Weight(t, a) \in {0, 1}
    BY <1>1, <1>2, <2>2, LevelFacts, Fields
  <2>5. CASE Kid(t, z, a) = x
    <3>1. a = p /\ z = s
      <4>1. a = p
        BY <1>1, <1>2, <1>3, <2>5 DEF Down
      <4>2. z = s \/ z = Other(s)
        BY <1>1, Sides
      <4> QED BY <1>1, <1>2, <1>3, <2>5, <4>1, <4>2 DEF NodeFacts
    <3>2. Gap(z, a, s, p) = 1 /\ Weight(v, a) = Weight(t, a) /\ Lvl(k, a) = Lvl(h, a)
      BY <1>4, <1>6, <1>10, <3>1 DEF Gap
    <3> QED BY <1>8, <1>10, <2>2, <2>3, <2>4, <2>5, <3>2
  <2>6. CASE Kid(t, z, a) # x
    <3>1. Gap(z, a, s, p) = 0 /\ Lvl(k, Kid(t, z, a)) = Lvl(h, Kid(t, z, a))
      BY <1>1, <1>10, <2>2, <2>6 DEF Gap
    <3>2. CASE a = x
      BY <1>6, <1>8, <1>10, <2>2, <2>3, <2>4, <3>1, <3>2
    <3>3. CASE a # x
      BY <1>6, <1>10, <2>2, <2>3, <2>4, <3>1, <3>3
    <3> QED BY <3>2, <3>3
  <2> QED BY <2>5, <2>6
<1>12. Level(v, u, k, "left", Sentinel)
  <2>1. Lvl(k, Sentinel) = 0
    BY <1>1, <1>2, <1>3, <1>10
  <2> QED BY <1>7, <1>10, <1>11, <2>1 DEF Level, LevelAt
<1>13. RedRule(v, u, Sentinel, Sentinel)
  <2>1. Weight(v, Sentinel) = 1
    BY <1>1, <1>2, <1>3, <1>6 DEF RedRule
  <2>2. ASSUME NEW a \in All(t, u), NEW z \in Side, Weight(v, a) = 0, Weight(v, Kid(v, z, a)) = 0 PROVE FALSE
    <3>1. a \in Ptr /\ Kid(t, z, a) \in Ptr /\ Kid(v, z, a) = Kid(t, z, a)
      BY <1>2, <1>6, Fields DEF NodeFacts
    <3> QED BY <1>1, <1>6, <2>2, <3>1 DEF RedRule
  <2> QED BY <1>7, <2>1, <2>2 DEF RedRule
<1>14. Weight(v, Top(v)) = 1
  BY <1>1, <1>2, <1>6
<1>15. TreeWith(v, u, k, d, All(t, u), Keys(t))
  BY <1>6, <1>7, <1>12, <1>13, <1>14 DEF TreeWith, Sound
<1> QED BY <1>15

LEMMA FixupTree ==
  ASSUME NEW t, NEW u, NEW h, NEW s, NEW p, NEW x, Holed(t, u, h, s, p, x), NEW d \in Ranks, Order(t, u, d),
         NEW n \in Node, n \notin All(t, u)
  PROVE  IsTree(DeleteFixup(t, x), d, All(t, u), Keys(t))
<1> DEFINE b == Loop(DeleteRound, At(t, x))
           v == TreeOf(b)
           y == AtOf(b)
<1>1. DeleteFixup(t, x) = Blackened(v, y)
  BY DEF DeleteFixup, Blackened, TreeOf, AtOf
<1>2. b \in Cursor /\ DeleteEnds(b) /\ \E w, k, r, g : Falls(b, w, k, r, g, d, All(t, u), Keys(t))
  BY DeleteLoop
<1>3. y = Top(v) \/ Weight(v, y) = 0
  BY <1>2, DeleteRounds DEF DeleteRoundIs
<1> HIDE DEF b
<1>4. PICK w, k, r, g : Falls(b, w, k, r, g, d, All(t, u), Keys(t))
  BY <1>2
<1>5. Holed(v, w, k, r, g, y) /\ Order(v, w, d) /\ All(v, w) = All(t, u) /\ Keys(v) = Keys(t)
  BY <1>4 DEF Falls
<1> HIDE DEF v, y
<1>6. CASE y = Top(v)
  <2>1. Shape(v, w) /\ Level(v, w, k, r, g) /\ RedRule(v, w, y, y) /\ Top(v) # Sentinel /\ r \in Side
    BY <1>5 DEF Holed
  <2>2. (\A a \in All(v, w) : NodeFacts(v, w, a)) /\ \A a \in All(v, w) : a # Sentinel
    BY <2>1, ShapeFacts DEF NodeFacts
  <2>3. g = Sentinel
    BY <1>5, <1>6, <2>1, <2>2 DEF Holed, NodeFacts
  <2>4. Level(v, w, k, "left", Sentinel)
    BY <2>1, <2>2, <2>3, NoGap DEF Level, LevelAt
  <2>5. \E i : TreeWith(Blackened(v, y), w, i, d, All(v, w), Keys(v))
    BY <1>5, <1>6, <2>1, <2>4, Crowned
  <2> QED BY <1>1, <1>5, <2>5 DEF IsTree
<1>7. CASE y # Top(v)
  <2>1. \E i : TreeWith(Blackened(v, y), w, i, d, All(v, w), Keys(v))
    BY <1>3, <1>5, <1>7, Filled
  <2> QED BY <1>1, <1>5, <2>1 DEF IsTree
<1> QED BY <1>6, <1>7

-------------------------------------------------------------------------------
(* ngx_rbtree_delete(): x, the only child of m, takes the place of m below *)
(* p on the side s.                                                        *)
SplicedIs(v, t, s, p, x) ==
  /\ v \in Tree /\ Top(v) = Top(t) /\ Keys(v) = Keys(t) /\ Kid(v, s, p) = x /\ Dad(v, x) = p
  /\ \A z \in Side, a \in Ptr : z # s \/ a # p => Kid(v, z, a) = Kid(t, z, a)
  /\ \A a \in Ptr : Weight(v, a) = Weight(t, a) /\ (a # x => Dad(v, a) = Dad(t, a))

Spliced(t, s, p, x) == PutParent(PutChild(t, s, p, x), x, p)

LEMMA Splices ==
  ASSUME NEW t \in Tree, NEW s \in Side, NEW p \in Ptr, NEW x \in Ptr
  PROVE  SplicedIs(Spliced(t, s, p, x), t, s, p, x)
<1> DEFINE c == PutChild(t, s, p, x)
           e == PutParent(c, x, p)
<1>1. ChildIs(c, t, s, p, x)
  BY ChildPut
<1> HIDE DEF c
<1>2. c \in Tree
  BY <1>1 DEF ChildIs
<1>3. ParentIs(e, c, x, p)
  BY <1>2, ParentPut
<1> HIDE DEF e
<1>4. SplicedIs(e, t, s, p, x)
  BY <1>1, <1>3 DEF ChildIs, ParentIs, SplicedIs
<1> QED BY <1>4 DEF e, c, Spliced

ShrunkIs(w, u, m) == w \in Subs /\ \A a \in Ptr : \A b : b \in Sub(w, a) <=> b \in Sub(u, a) /\ b # m

LEMMA Shrunk ==
  ASSUME NEW u \in Subs, NEW m
  PROVE  \E w : ShrunkIs(w, u, m)
<1> DEFINE w == [a \in Ptr |-> u[a] \ {m}]
<1>1. \A a \in Ptr : u[a] \in SUBSET Node
  BY DEF Subs
<1>2. \A a \in Ptr : w[a] \in SUBSET Node
  BY <1>1
<1>3. w \in Subs
  BY <1>2 DEF Subs
<1>4. \A a \in Ptr : \A b : b \in w[a] <=> b \in u[a] /\ b # m
  OBVIOUS
<1> HIDE DEF w
<1>5. ShrunkIs(w, u, m)
  BY <1>3, <1>4 DEF ShrunkIs, Sub
<1> QED BY <1>5

(* The place of m.                                                         *)
Splice(t, u, m, q, x, s, p) ==
  /\ Shape(t, u) /\ m \in All(t, u) /\ m # Top(t) /\ q \in Side /\ Kid(t, q, m) = Sentinel /\ x = Kid(t, Other(q), m)
  /\ p = Dad(t, m) /\ s \in Side /\ Kid(t, s, p) = m

SpliceFacts(v, w, t, u, m, x, s, p) ==
  /\ t \in Tree /\ v \in Tree /\ w \in Subs /\ m \in Ptr /\ m # Sentinel /\ p \in Ptr /\ p \in All(t, u) /\ p # m /\ x \in Ptr /\ x # m /\ x # p
  /\ x # Sentinel => x \in All(t, u) /\ Dad(t, x) = m /\ x # Top(t)
  /\ \A b : b \in All(v, w) <=> b \in All(t, u) /\ b # m
  /\ \A a \in All(t, u) : a \in Ptr /\ a # Sentinel /\ (Top(t) \in Sub(u, a) => a = Top(t)) /\ a \in Sub(u, a)
  /\ \A a \in All(t, u), z \in Side : a # m =>
       /\ Kid(v, z, a) \in Ptr /\ Kid(v, z, a) # m
       /\ \/ z = s /\ a = p /\ Kid(v, z, a) = x /\ Kid(t, z, a) = m
          \/ (z # s \/ a # p) /\ Kid(v, z, a) = Kid(t, z, a) /\ Kid(t, z, a) # m /\ (Kid(t, z, a) # Sentinel => Kid(t, z, a) # x)
       /\ \A b : b \in Sub(w, Kid(v, z, a)) <=> b \in Sub(u, Kid(t, z, a)) /\ b # m
  /\ \A a \in All(t, u) : a # Top(t) /\ a # m /\ a # x => Dad(t, a) # m

LEMMA SplicingFacts ==
  ASSUME NEW t, NEW u, NEW m, NEW q, NEW x, NEW s, NEW p, Splice(t, u, m, q, x, s, p),
         NEW v, SplicedIs(v, t, s, p, x), NEW w, ShrunkIs(w, u, m)
  PROVE  SpliceFacts(v, w, t, u, m, x, s, p)
<1>1. /\ Shape(t, u) /\ m \in All(t, u) /\ m # Top(t) /\ q \in Side /\ Kid(t, q, m) = Sentinel /\ x = Kid(t, Other(q), m)
      /\ p = Dad(t, m) /\ s \in Side /\ Kid(t, s, p) = m
  BY DEF Splice
<1>2. /\ t \in Tree /\ Top(t) \in Ptr /\ (\A a \in All(t, u) : NodeFacts(t, u, a)) /\ Down(t, u) /\ Parts(t, u) /\ Nested(t, u) /\ Upward(t, u)
      /\ \A b : b \notin Sub(u, Sentinel)
  BY <1>1, ShapeFacts DEF Shape
<1>3. Other(q) \in Side /\ Other(Other(q)) = q /\ \A z \in Side : z = q \/ z = Other(q)
  BY <1>1, Sides
<1>4. Other(s) \in Side /\ Other(Other(s)) = s /\ \A z \in Side : z = s \/ z = Other(s)
  BY <1>1, Sides
<1>5. m \in Ptr /\ m # Sentinel /\ p \in Ptr /\ p # Sentinel /\ p \in All(t, u) /\ p # m /\ x \in Ptr /\ p \notin Sub(u, m)
  BY <1>1, <1>2, <1>3, Fields DEF NodeFacts, Upward
<1>6. x # Sentinel => x \in All(t, u) /\ Dad(t, x) = m /\ x # Top(t) /\ x # m /\ x \in Sub(u, m)
  BY <1>1, <1>2, <1>3 DEF Down, NodeFacts
<1>7. x # m /\ x # p
  BY <1>5, <1>6
<1>8. v \in Tree /\ Top(v) = Top(t) /\ Kid(v, s, p) = x /\ \A z \in Side, a \in Ptr : z # s \/ a # p => Kid(v, z, a) = Kid(t, z, a)
  BY DEF SplicedIs
<1>9. w \in Subs /\ \A a \in Ptr : \A b : b \in Sub(w, a) <=> b \in Sub(u, a) /\ b # m
  BY DEF ShrunkIs
<1>10. \A b : b \in All(v, w) <=> b \in All(t, u) /\ b # m
  BY <1>2, <1>8, <1>9 DEF All
<1>11. \A b : b \in Sub(u, m) <=> b = m \/ b \in Sub(u, x)
  BY <1>1, <1>2, <1>3 DEF Parts
<1>12. ASSUME NEW a \in All(t, u), NEW z \in Side, a # m
       PROVE  /\ Kid(v, z, a) \in Ptr /\ Kid(v, z, a) # m
              /\ \/ z = s /\ a = p /\ Kid(v, z, a) = x /\ Kid(t, z, a) = m
                 \/ (z # s \/ a # p) /\ Kid(v, z, a) = Kid(t, z, a) /\ Kid(t, z, a) # m /\ (Kid(t, z, a) # Sentinel => Kid(t, z, a) # x)
              /\ \A b : b \in Sub(w, Kid(v, z, a)) <=> b \in Sub(u, Kid(t, z, a)) /\ b # m
  <2>1. a \in Ptr /\ Kid(t, z, a) \in Ptr
    BY <1>2, Fields DEF NodeFacts
  <2>2. CASE z = s /\ a = p
    BY <1>1, <1>5, <1>7, <1>8, <1>9, <1>11, <2>2
  <2>3. CASE ~(z = s /\ a = p)
    <3>1. Kid(v, z, a) = Kid(t, z, a)
      BY <1>8, <2>1, <2>3
    <3>2. Kid(t, z, a) # m
      <4>1. SUFFICES ASSUME Kid(t, z, a) = m PROVE FALSE
        OBVIOUS
      <4>2. a = p
        BY <1>1, <1>2, <1>5, <4>1 DEF Down
      <4>3. z = Other(s)
        BY <1>4, <2>3, <4>2
      <4> QED BY <1>1, <1>2, <1>4, <1>5, <4>1, <4>2, <4>3 DEF NodeFacts
    <3>3. Kid(t, z, a) # Sentinel => Kid(t, z, a) # x
      BY <1>2, <1>6, <1>12 DEF Down
    <3> QED BY <1>9, <2>1, <2>3, <3>1, <3>2, <3>3
  <2> QED BY <2>2, <2>3
<1>13. ASSUME NEW a \in All(t, u), a # Top(t), a # m, a # x PROVE Dad(t, a) # m
  <2>1. Kid(t, SideOf(t, a), Dad(t, a)) = a /\ SideOf(t, a) \in Side /\ a # Sentinel
    BY <1>2, <1>13, Sides DEF Upward, NodeFacts
  <2> QED BY <1>1, <1>3, <1>13, <2>1
<1> QED BY <1>2, <1>5, <1>6, <1>7, <1>8, <1>9, <1>10, <1>12, <1>13 DEF SpliceFacts, NodeFacts

LEMMA SplicedShape ==
  ASSUME NEW t, NEW u, NEW m, NEW q, NEW x, NEW s, NEW p, Splice(t, u, m, q, x, s, p),
         NEW v, SplicedIs(v, t, s, p, x), NEW w, ShrunkIs(w, u, m)
  PROVE  Shape(v, w)
<1>1. SpliceFacts(v, w, t, u, m, x, s, p)
  BY SplicingFacts
<1>2. /\ t \in Tree /\ v \in Tree /\ w \in Subs /\ m \in Ptr /\ m # Sentinel /\ p \in Ptr /\ p \in All(t, u) /\ p # m /\ x \in Ptr /\ x # m /\ x # p
      /\ x # Sentinel => x \in All(t, u) /\ Dad(t, x) = m /\ x # Top(t)
      /\ \A b : b \in All(v, w) <=> b \in All(t, u) /\ b # m
      /\ \A a \in All(t, u) : a \in Ptr /\ a # Sentinel /\ (Top(t) \in Sub(u, a) => a = Top(t)) /\ a \in Sub(u, a)
      /\ \A a \in All(t, u) : a # Top(t) /\ a # m /\ a # x => Dad(t, a) # m
  BY <1>1 DEF SpliceFacts
<1>3. \A a \in All(t, u), z \in Side : a # m =>
       /\ Kid(v, z, a) \in Ptr /\ Kid(v, z, a) # m
       /\ \/ z = s /\ a = p /\ Kid(v, z, a) = x /\ Kid(t, z, a) = m
          \/ (z # s \/ a # p) /\ Kid(v, z, a) = Kid(t, z, a) /\ Kid(t, z, a) # m /\ (Kid(t, z, a) # Sentinel => Kid(t, z, a) # x)
       /\ \A b : b \in Sub(w, Kid(v, z, a)) <=> b \in Sub(u, Kid(t, z, a)) /\ b # m
  BY <1>1 DEF SpliceFacts
<1>4. /\ Shape(t, u) /\ m \in All(t, u) /\ m # Top(t) /\ p = Dad(t, m) /\ s \in Side /\ Kid(t, s, p) = m
      /\ Down(t, u) /\ Parts(t, u) /\ Nested(t, u) /\ Upward(t, u) /\ \A b : b \notin Sub(u, Sentinel)
  BY DEF Splice, Shape
<1>5. /\ Top(v) = Top(t) /\ Dad(v, x) = p /\ \A a \in Ptr : a # x => Dad(v, a) = Dad(t, a)
      /\ Kid(v, s, p) = x
  BY DEF SplicedIs
<1>6. \A a \in Ptr : \A b : b \in Sub(w, a) <=> b \in Sub(u, a) /\ b # m
  BY DEF ShrunkIs
<1>7. Down(v, w)
  <2>1. ASSUME NEW a \in All(v, w), NEW z \in Side, Kid(v, z, a) # Sentinel
        PROVE  Kid(v, z, a) \in All(v, w) /\ Dad(v, Kid(v, z, a)) = a /\ Kid(v, z, a) \in Sub(w, Kid(v, z, a))
    <3>1. a \in All(t, u) /\ a # m
      BY <1>2
    <3>2. CASE z = s /\ a = p /\ Kid(v, z, a) = x
      BY <1>2, <1>5, <1>6, <2>1, <3>2
    <3>3. CASE Kid(v, z, a) = Kid(t, z, a) /\ Kid(t, z, a) # m /\ (Kid(t, z, a) # Sentinel => Kid(t, z, a) # x)
      <4>1. Kid(t, z, a) \in All(t, u) /\ Dad(t, Kid(t, z, a)) = a
        BY <1>4, <2>1, <3>1, <3>3 DEF Down
      <4> QED BY <1>2, <1>5, <1>6, <2>1, <3>3, <4>1
    <3> QED BY <1>3, <3>1, <3>2, <3>3
  <2> QED BY <2>1 DEF Down
<1>8. Parts(v, w)
  <2>1. ASSUME NEW a \in All(v, w), NEW z \in Side
        PROVE  /\ \A b : b \in Sub(w, a) <=> b = a \/ b \in Sub(w, Kid(v, z, a)) \/ b \in Sub(w, Kid(v, Other(z), a))
               /\ a \notin Sub(w, Kid(v, z, a))
               /\ \A b \in Sub(w, Kid(v, z, a)) : b \notin Sub(w, Kid(v, Other(z), a))
    <3>1. a \in All(t, u) /\ a # m /\ a \in Ptr /\ Other(z) \in Side
      BY <1>2, Sides
    <3>2. /\ \A b : b \in Sub(u, a) <=> b = a \/ b \in Sub(u, Kid(t, z, a)) \/ b \in Sub(u, Kid(t, Other(z), a))
          /\ a \notin Sub(u, Kid(t, z, a))
          /\ \A b \in Sub(u, Kid(t, z, a)) : b \notin Sub(u, Kid(t, Other(z), a))
      BY <1>4, <3>1 DEF Parts
    <3>3. \A y \in Side : \A b : b \in Sub(w, Kid(v, y, a)) <=> b \in Sub(u, Kid(t, y, a)) /\ b # m
      BY <1>3, <3>1
    <3>4. \A b : b \in Sub(w, a) <=> b \in Sub(u, a) /\ b # m
      BY <1>6, <3>1
    <3> QED BY <3>1, <3>2, <3>3, <3>4
  <2> QED BY <2>1 DEF Parts
<1>9. Nested(v, w)
  <2>1. ASSUME NEW a \in All(v, w), NEW b \in Sub(w, a)
        PROVE  (\A c \in Sub(w, b) : c \in Sub(w, a)) /\ (b # a => Dad(v, b) \in Sub(w, a))
    <3>1. a \in All(t, u) /\ a # m /\ a \in Ptr /\ \A c : c \in Sub(w, a) <=> c \in Sub(u, a) /\ c # m
      BY <1>2, <1>6
    <3>2. b \in Sub(u, a) /\ b # m
      BY <2>1, <3>1
    <3>3. b \in All(t, u) /\ b \in Ptr
      BY <1>2, <1>4, <3>1, <3>2, ShapeFacts DEF NodeFacts
    <3>4. (\A c \in Sub(u, b) : c \in Sub(u, a)) /\ (b # a => Dad(t, b) \in Sub(u, a))
      BY <1>4, <3>1, <3>2 DEF Nested
    <3>5. \A c \in Sub(w, b) : c \in Sub(w, a)
      BY <1>6, <3>1, <3>3, <3>4
    <3>6. ASSUME b # a PROVE Dad(v, b) \in Sub(w, a)
      <4>1. CASE b = x
        <5>1. m \in Sub(u, a)
          BY <1>2, <3>3, <3>4, <3>6, <4>1
        <5>2. p \in Sub(u, a)
          BY <1>4, <3>1, <5>1 DEF Nested
        <5> QED BY <1>2, <1>5, <3>1, <4>1, <5>2
      <4>2. CASE b # x
        <5>1. b # Top(t)
          BY <1>2, <3>1, <3>2, <3>6
        <5>2. Dad(t, b) # m
          BY <1>2, <3>2, <3>3, <4>2, <5>1
        <5> QED BY <1>5, <3>1, <3>3, <3>4, <3>6, <4>2, <5>2
      <4> QED BY <4>1, <4>2
    <3> QED BY <3>5, <3>6
  <2> QED BY <2>1 DEF Nested
<1>10. Upward(v, w)
  <2>1. ASSUME NEW a \in All(v, w), a # Top(v) PROVE Dad(v, a) \in All(v, w) /\ Kid(v, SideOf(v, a), Dad(v, a)) = a
    <3>1. a \in All(t, u) /\ a # m /\ a \in Ptr /\ a # Top(t)
      BY <1>2, <1>5, <2>1
    <3>2. \A z \in Side : Kid(v, z, Dad(v, a)) = a => Kid(v, SideOf(v, a), Dad(v, a)) = a
      BY <1>2, <3>1, Fields
    <3>3. CASE a = x
      BY <1>2, <1>4, <1>5, <3>2, <3>3
    <3>4. CASE a # x
      <4>1. Dad(t, a) \in All(t, u) /\ Kid(t, SideOf(t, a), Dad(t, a)) = a /\ SideOf(t, a) \in Side /\ Dad(t, a) # m /\ Dad(v, a) = Dad(t, a)
        BY <1>2, <1>4, <1>5, <3>1, <3>4, Sides DEF Upward
      <4>2. Kid(v, SideOf(t, a), Dad(t, a)) = a
        BY <1>3, <3>1, <4>1
      <4> QED BY <1>2, <3>2, <4>1, <4>2
    <3> QED BY <3>3, <3>4
  <2> QED BY <2>1 DEF Upward
<1>11. (\A b : b \notin Sub(w, Sentinel)) /\ (Top(v) # Sentinel => Top(v) \in All(v, w))
  <2>1. Sentinel \in Ptr
    BY DEF Ptr
  <2> QED BY <1>2, <1>4, <1>5, <1>6, <2>1 DEF Shape
<1> QED BY <1>2, <1>7, <1>8, <1>9, <1>10, <1>11 DEF Shape

-------------------------------------------------------------------------------
LEMMA SplicedOrder ==
  ASSUME NEW t, NEW u, NEW m, NEW q, NEW x, NEW s, NEW p, Splice(t, u, m, q, x, s, p),
         NEW v, SplicedIs(v, t, s, p, x), NEW w, ShrunkIs(w, u, m), NEW d, Order(t, u, d)
  PROVE  Order(v, w, d)
<1>1. SpliceFacts(v, w, t, u, m, x, s, p)
  BY SplicingFacts
<1>2. ASSUME NEW a \in All(v, w), NEW z \in Side, NEW b \in Sub(w, Kid(v, z, a)) PROVE Apart(d, z, b, a)
  <2>1. a \in All(t, u) /\ b \in Sub(u, Kid(t, z, a))
    BY <1>1, <1>2 DEF SpliceFacts
  <2> QED BY <2>1 DEF Order
<1> QED BY <1>2 DEF Order

(* A red node is taken out.                                                *)
LEMMA SplicedRed ==
  ASSUME NEW t, NEW u, NEW m, NEW q, NEW x, NEW s, NEW p, Splice(t, u, m, q, x, s, p),
         NEW v, SplicedIs(v, t, s, p, x), NEW w, ShrunkIs(w, u, m), NEW h, Sound(t, u, h), Weight(t, m) = 0
  PROVE  Sound(v, w, h)
<1>1. SpliceFacts(v, w, t, u, m, x, s, p) /\ Shape(v, w)
  BY SplicingFacts, SplicedShape
<1>2. /\ h \in Levels /\ Lvl(h, Sentinel) = 0 /\ (\A a \in All(t, u) : LevelAt(t, h, "left", Sentinel, a))
      /\ RedRule(t, u, Sentinel, Sentinel) /\ Weight(t, Top(t)) = 1
  BY DEF Sound, Level
<1>3. /\ t \in Tree /\ m \in Ptr /\ m # Sentinel /\ p \in All(t, u) /\ p \in Ptr /\ p # m /\ x \in Ptr /\ Sentinel \in Ptr
      /\ \A a \in All(t, u) : a \in Ptr /\ a # Sentinel
      /\ \A b : b \in All(v, w) <=> b \in All(t, u) /\ b # m
      /\ \A a \in All(t, u), z \in Side : a # m =>
            \/ z = s /\ a = p /\ Kid(v, z, a) = x /\ Kid(t, z, a) = m
            \/ Kid(v, z, a) = Kid(t, z, a)
  BY <1>1 DEF SpliceFacts, Ptr
<1>4. Top(v) = Top(t) /\ \A a \in Ptr : Weight(v, a) = Weight(t, a)
  BY DEF SplicedIs
<1>5. m \in All(t, u) /\ q \in Side /\ Other(q) \in Side /\ x = Kid(t, Other(q), m) /\ s \in Side /\ Kid(t, s, p) = m /\ Top(t) \in Ptr
  BY <1>3, Sides, Fields DEF Splice
<1>6. Lvl(h, m) = Lvl(h, x)
  <2>1. Lvl(h, m) = Lvl(h, x) + 0 + 0
    BY <1>2, <1>3, <1>5, NoGap DEF LevelAt
  <2> QED BY <1>2, <1>3, <2>1, LevelFacts
<1>7. Weight(t, p) = 1
  BY <1>2, <1>3, <1>5, Fields DEF RedRule
<1>8. ASSUME NEW a \in All(v, w), NEW z \in Side PROVE Lvl(h, a) = Lvl(h, Kid(v, z, a)) + Weight(v, a) + Gap(z, a, "left", Sentinel)
  <2>1. a \in All(t, u) /\ a # m /\ Weight(v, a) = Weight(t, a)
    BY <1>3, <1>4
  <2>2. Lvl(h, a) = Lvl(h, Kid(t, z, a)) + Weight(t, a) + Gap(z, a, "left", Sentinel)
    BY <1>2, <2>1 DEF LevelAt
  <2> QED BY <1>3, <1>6, <2>1, <2>2
<1>9. RedRule(v, w, Sentinel, Sentinel)
  <2>1. Weight(v, Sentinel) = 1
    BY <1>2, <1>3, <1>4 DEF RedRule
  <2>2. ASSUME NEW a \in All(v, w), NEW z \in Side, Weight(v, a) = 0, Weight(v, Kid(v, z, a)) = 0 PROVE FALSE
    <3>1. a \in All(t, u) /\ a # m /\ Weight(t, a) = 0 /\ a # p /\ a # Sentinel
      BY <1>3, <1>4, <1>7, <2>2
    <3>2. Kid(v, z, a) = Kid(t, z, a) /\ Kid(t, z, a) \in Ptr
      BY <1>3, <3>1, Fields
    <3>3. Weight(t, Kid(t, z, a)) = 0 /\ Kid(t, z, a) # Sentinel
      BY <1>4, <2>1, <2>2, <3>2
    <3> QED BY <1>2, <3>1, <3>3 DEF RedRule
  <2> QED BY <2>1, <2>2 DEF RedRule
<1> QED BY <1>1, <1>2, <1>4, <1>5, <1>8, <1>9 DEF Sound, Level, LevelAt

(* A black one.                                                            *)
LEMMA SplicedBlack ==
  ASSUME NEW t, NEW u, NEW m, NEW q, NEW x, NEW s, NEW p, Splice(t, u, m, q, x, s, p),
         NEW v, SplicedIs(v, t, s, p, x), NEW w, ShrunkIs(w, u, m), NEW h, Sound(t, u, h), Weight(t, m) = 1
  PROVE  Holed(v, w, h, s, p, x)
<1>1. SpliceFacts(v, w, t, u, m, x, s, p) /\ Shape(v, w)
  BY SplicingFacts, SplicedShape
<1>2. /\ h \in Levels /\ Lvl(h, Sentinel) = 0 /\ (\A a \in All(t, u) : LevelAt(t, h, "left", Sentinel, a))
      /\ RedRule(t, u, Sentinel, Sentinel) /\ Weight(t, Top(t)) = 1
  BY DEF Sound, Level
<1>3. /\ t \in Tree /\ m \in Ptr /\ m # Sentinel /\ p \in All(t, u) /\ p \in Ptr /\ p # m /\ x \in Ptr /\ Sentinel \in Ptr
      /\ \A a \in All(t, u) : a \in Ptr /\ a # Sentinel
      /\ \A b : b \in All(v, w) <=> b \in All(t, u) /\ b # m
      /\ \A a \in All(t, u), z \in Side : a # m =>
            \/ z = s /\ a = p /\ Kid(v, z, a) = x /\ Kid(t, z, a) = m
            \/ (z # s \/ a # p) /\ Kid(v, z, a) = Kid(t, z, a)
  BY <1>1 DEF SpliceFacts, Ptr
<1>4. Top(v) = Top(t) /\ (\A a \in Ptr : Weight(v, a) = Weight(t, a)) /\ Kid(v, s, p) = x /\ Dad(v, x) = p
  BY DEF SplicedIs
<1>5. m \in All(t, u) /\ q \in Side /\ Other(q) \in Side /\ x = Kid(t, Other(q), m) /\ s \in Side /\ Kid(t, s, p) = m /\ Top(t) \in Ptr
      /\ Top(t) # Sentinel
  BY <1>3, Sides, Fields DEF Splice, Shape, All
<1>6. Lvl(h, m) = Lvl(h, x) + 1 /\ Lvl(h, x) \in Nat
  <2>1. Lvl(h, m) = Lvl(h, x) + 1 + 0
    BY <1>2, <1>3, <1>5, NoGap DEF LevelAt
  <2> QED BY <1>2, <1>3, <2>1, LevelFacts
<1>7. ASSUME NEW a \in All(v, w), NEW z \in Side PROVE Lvl(h, a) = Lvl(h, Kid(v, z, a)) + Weight(v, a) + Gap(z, a, s, p)
  <2>1. a \in All(t, u) /\ a # m /\ a \in Ptr /\ Weight(v, a) = Weight(t, a) /\ Weight(t, a) \in {0, 1} /\ a # Sentinel
    BY <1>3, <1>4, Fields
  <2>2. Lvl(h, a) = Lvl(h, Kid(t, z, a)) + Weight(t, a) + 0
    BY <1>2, <2>1, NoGap DEF LevelAt
  <2>3. CASE z = s /\ a = p
    <3>1. Gap(z, a, s, p) = 1 /\ Kid(v, z, a) = x /\ Kid(t, z, a) = m
      BY <1>4, <1>5, <2>3 DEF Gap
    <3> QED BY <1>6, <2>1, <2>2, <3>1
  <2>4. CASE ~(z = s /\ a = p)
    <3>1. Gap(z, a, s, p) = 0 /\ Kid(v, z, a) = Kid(t, z, a)
      BY <1>3, <2>1, <2>4 DEF Gap
    <3> QED BY <2>1, <2>2, <3>1
  <2> QED BY <2>3, <2>4
<1>8. RedRule(v, w, x, x)
  <2>1. Weight(v, Sentinel) = 1
    BY <1>2, <1>3, <1>4 DEF RedRule
  <2>2. ASSUME NEW a \in All(v, w), NEW z \in Side, Weight(v, a) = 0, Weight(v, Kid(v, z, a)) = 0, Kid(v, z, a) # x PROVE FALSE
    <3>1. a \in All(t, u) /\ a # m /\ Weight(t, a) = 0 /\ a # Sentinel
      BY <1>3, <1>4, <2>2
    <3>2. Kid(v, z, a) = Kid(t, z, a) /\ Kid(t, z, a) \in Ptr
      BY <1>3, <2>2, <3>1, Fields
    <3>3. Weight(t, Kid(t, z, a)) = 0 /\ Kid(t, z, a) # Sentinel
      BY <1>4, <2>1, <2>2, <3>2
    <3> QED BY <1>2, <3>1, <3>3 DEF RedRule
  <2> QED BY <2>1, <2>2 DEF RedRule
<1>9. p \in All(v, w)
  BY <1>3
<1> QED BY <1>1, <1>2, <1>4, <1>5, <1>7, <1>8, <1>9 DEF Holed, Level, LevelAt

-------------------------------------------------------------------------------
(* The same tree with other nodes: r gives the new one for each.           *)
Img(r, c) == r[c]
Spots(t, u) == All(t, u) \cup {Sentinel}

Iso(v, w, t, u, r) ==
  /\ Shape(t, u) /\ v \in Tree /\ w \in Subs /\ Img(r, Sentinel) = Sentinel
  /\ \A c \in Spots(t, u) : Img(r, c) \in Ptr /\ \A e \in Spots(t, u) : Img(r, c) = Img(r, e) => c = e
  /\ Top(v) = Img(r, Top(t))
  /\ \A a \in Spots(t, u) : \A c : c \in Sub(w, Img(r, a)) <=> \E b \in Sub(u, a) : c = Img(r, b)
  /\ \A a \in All(t, u), z \in Side : Kid(v, z, Img(r, a)) = Img(r, Kid(t, z, a))
  /\ \A a \in All(t, u) : a # Top(t) => Dad(v, Img(r, a)) = Img(r, Dad(t, a))
  /\ \A a \in Spots(t, u) : Weight(v, Img(r, a)) = Weight(t, a)

IsoFacts(v, w, t, u, r) ==
  /\ \A a \in All(t, u) : a \in Spots(t, u) /\ a # Sentinel /\ Img(r, a) # Sentinel /\ Img(r, a) \in All(v, w)
  /\ \A a \in All(t, u), z \in Side : Kid(t, z, a) \in Spots(t, u) /\ Kid(t, Other(z), a) \in Spots(t, u)
  /\ \A c \in All(v, w) : \E a \in All(t, u) : c = Img(r, a)
  /\ \A a \in Spots(t, u), b \in All(t, u) : Img(r, b) \in Sub(w, Img(r, a)) <=> b \in Sub(u, a)
  /\ \A a \in Spots(t, u) : \A c \in Sub(w, Img(r, a)) : \E b \in All(t, u) : b \in Sub(u, a) /\ c = Img(r, b)

LEMMA IsoMembers ==
  ASSUME NEW v, NEW w, NEW t, NEW u, NEW r, Iso(v, w, t, u, r)
  PROVE  IsoFacts(v, w, t, u, r)
<1>1. /\ Shape(t, u) /\ Img(r, Sentinel) = Sentinel
      /\ \A c \in Spots(t, u) : Img(r, c) \in Ptr /\ \A e \in Spots(t, u) : Img(r, c) = Img(r, e) => c = e
      /\ Top(v) = Img(r, Top(t))
      /\ \A a \in Spots(t, u) : \A c : c \in Sub(w, Img(r, a)) <=> \E b \in Sub(u, a) : c = Img(r, b)
  BY DEF Iso
<1>2. /\ (\A a \in All(t, u) : NodeFacts(t, u, a)) /\ Down(t, u) /\ (Top(t) # Sentinel => Top(t) \in All(t, u))
      /\ \A b : b \notin Sub(u, Sentinel)
  BY <1>1, ShapeFacts DEF Shape
<1>3. \A c : c \in Spots(t, u) <=> c = Sentinel \/ c \in All(t, u)
  BY DEF Spots
<1>4. \A a \in Spots(t, u) : \A b \in Sub(u, a) : b \in All(t, u)
  BY <1>2, <1>3 DEF NodeFacts
<1>5. \A a \in Spots(t, u) : \A c \in Sub(w, Img(r, a)) : \E b \in All(t, u) : b \in Sub(u, a) /\ c = Img(r, b)
  BY <1>1, <1>4
<1>6. \A a \in Spots(t, u), b \in All(t, u) : Img(r, b) \in Sub(w, Img(r, a)) <=> b \in Sub(u, a)
  BY <1>1, <1>3, <1>5
<1>7. Top(t) \in Spots(t, u)
  BY <1>2, <1>3
<1>8. \A c \in All(v, w) : \E a \in All(t, u) : c = Img(r, a)
  BY <1>1, <1>5, <1>7 DEF All
<1>9. \A a \in All(t, u) : a \in Spots(t, u) /\ a # Sentinel /\ Img(r, a) # Sentinel /\ Img(r, a) \in All(v, w)
  <2>1. ASSUME NEW a \in All(t, u) PROVE a \in Spots(t, u) /\ a # Sentinel /\ Img(r, a) # Sentinel
    BY <1>1, <1>2, <1>3 DEF NodeFacts
  <2>2. ASSUME NEW a \in All(t, u) PROVE Img(r, a) \in All(v, w)
    BY <1>1, <1>6, <1>7 DEF All
  <2> QED BY <2>1, <2>2
<1>10. \A a \in All(t, u), z \in Side : Kid(t, z, a) \in Spots(t, u) /\ Kid(t, Other(z), a) \in Spots(t, u)
  BY <1>2, <1>3, Sides DEF Down
<1> QED BY <1>5, <1>6, <1>8, <1>9, <1>10 DEF IsoFacts

LEMMA IsoShape ==
  ASSUME NEW v, NEW w, NEW t, NEW u, NEW r, Iso(v, w, t, u, r)
  PROVE  Shape(v, w)
<1>1. /\ Shape(t, u) /\ Img(r, Sentinel) = Sentinel /\ v \in Tree /\ w \in Subs
      /\ \A c \in Spots(t, u) : Img(r, c) \in Ptr /\ \A e \in Spots(t, u) : Img(r, c) = Img(r, e) => c = e
      /\ Top(v) = Img(r, Top(t))
      /\ \A a \in All(t, u), z \in Side : Kid(v, z, Img(r, a)) = Img(r, Kid(t, z, a))
      /\ \A a \in All(t, u) : a # Top(t) => Dad(v, Img(r, a)) = Img(r, Dad(t, a))
  BY DEF Iso
<1>2. /\ \A a \in All(t, u) : a \in Spots(t, u) /\ a # Sentinel /\ Img(r, a) # Sentinel /\ Img(r, a) \in All(v, w)
      /\ \A a \in All(t, u), z \in Side : Kid(t, z, a) \in Spots(t, u) /\ Kid(t, Other(z), a) \in Spots(t, u)
      /\ \A c \in All(v, w) : \E a \in All(t, u) : c = Img(r, a)
      /\ \A a \in Spots(t, u), b \in All(t, u) : Img(r, b) \in Sub(w, Img(r, a)) <=> b \in Sub(u, a)
      /\ \A a \in Spots(t, u) : \A c \in Sub(w, Img(r, a)) : \E b \in All(t, u) : b \in Sub(u, a) /\ c = Img(r, b)
  BY IsoMembers DEF IsoFacts
<1>3. Down(t, u) /\ Parts(t, u) /\ Nested(t, u) /\ Upward(t, u) /\ (Top(t) # Sentinel => Top(t) \in All(t, u)) /\ (\A b : b \notin Sub(u, Sentinel))
      /\ \A c : c \in Spots(t, u) <=> c = Sentinel \/ c \in All(t, u)
  BY <1>1 DEF Shape, Spots
<1>4. Down(v, w)
  <2>1. ASSUME NEW a \in All(t, u), NEW z \in Side, NEW c, c = Kid(v, z, Img(r, a)), c # Sentinel
        PROVE  c \in All(v, w) /\ Dad(v, c) = Img(r, a) /\ c \in Sub(w, c)
    <3> DEFINE e == Kid(t, z, a)
    <3>1. c = Img(r, e) /\ e # Sentinel
      BY <1>1, <2>1
    <3>2. e \in All(t, u) /\ Dad(t, e) = a /\ e \in Sub(u, e) /\ e # Top(t)
      BY <1>1, <1>3, <3>1, ShapeFacts DEF Down, NodeFacts
    <3> QED BY <1>1, <1>2, <3>1, <3>2
  <2> QED BY <1>2, <2>1 DEF Down
<1>5. Parts(v, w)
  <2>1. ASSUME NEW a \in All(t, u), NEW z \in Side
        PROVE  /\ \A b : b \in Sub(w, Img(r, a)) <=> b = Img(r, a) \/ b \in Sub(w, Img(r, Kid(t, z, a))) \/ b \in Sub(w, Img(r, Kid(t, Other(z), a)))
               /\ Img(r, a) \notin Sub(w, Img(r, Kid(t, z, a)))
               /\ \A b \in Sub(w, Img(r, Kid(t, z, a))) : b \notin Sub(w, Img(r, Kid(t, Other(z), a)))
    <3>1. /\ \A b : b \in Sub(u, a) <=> b = a \/ b \in Sub(u, Kid(t, z, a)) \/ b \in Sub(u, Kid(t, Other(z), a))
          /\ a \notin Sub(u, Kid(t, z, a))
          /\ \A b \in Sub(u, Kid(t, z, a)) : b \notin Sub(u, Kid(t, Other(z), a))
      BY <1>3 DEF Parts
    <3>2. a \in Spots(t, u) /\ Kid(t, z, a) \in Spots(t, u) /\ Kid(t, Other(z), a) \in Spots(t, u)
      BY <1>2
    <3>3. ASSUME NEW b \in Sub(w, Img(r, a)) PROVE b = Img(r, a) \/ b \in Sub(w, Img(r, Kid(t, z, a))) \/ b \in Sub(w, Img(r, Kid(t, Other(z), a)))
      BY <1>2, <3>1, <3>2
    <3>4. ASSUME NEW b, b = Img(r, a) \/ b \in Sub(w, Img(r, Kid(t, z, a))) \/ b \in Sub(w, Img(r, Kid(t, Other(z), a))) PROVE b \in Sub(w, Img(r, a))
      BY <1>2, <3>1, <3>2, <3>4
    <3>5. Img(r, a) \notin Sub(w, Img(r, Kid(t, z, a)))
      BY <1>2, <3>1, <3>2
    <3>6. ASSUME NEW b \in Sub(w, Img(r, Kid(t, z, a))) PROVE b \notin Sub(w, Img(r, Kid(t, Other(z), a)))
      BY <1>2, <3>1, <3>2
    <3> QED BY <3>3, <3>4, <3>5, <3>6
  <2>2. ASSUME NEW a \in All(v, w), NEW z \in Side
        PROVE  /\ \A b : b \in Sub(w, a) <=> b = a \/ b \in Sub(w, Kid(v, z, a)) \/ b \in Sub(w, Kid(v, Other(z), a))
               /\ a \notin Sub(w, Kid(v, z, a))
               /\ \A b \in Sub(w, Kid(v, z, a)) : b \notin Sub(w, Kid(v, Other(z), a))
    <3>1. PICK e \in All(t, u) : a = Img(r, e)
      BY <1>2
    <3>2. Kid(v, z, a) = Img(r, Kid(t, z, e)) /\ Kid(v, Other(z), a) = Img(r, Kid(t, Other(z), e))
      BY <1>1, <3>1, Sides
    <3> QED BY <2>1, <3>1, <3>2
  <2> QED BY <2>2 DEF Parts
<1>6. Nested(v, w)
  <2>1. ASSUME NEW a \in All(t, u), NEW b \in All(t, u), b \in Sub(u, a)
        PROVE  (\A c \in Sub(w, Img(r, b)) : c \in Sub(w, Img(r, a))) /\ (Img(r, b) # Img(r, a) => Dad(v, Img(r, b)) \in Sub(w, Img(r, a)))
    <3>1. (\A c \in Sub(u, b) : c \in Sub(u, a)) /\ (b # a => Dad(t, b) \in Sub(u, a))
      BY <1>3, <2>1 DEF Nested
    <3>2. \A c \in Sub(w, Img(r, b)) : c \in Sub(w, Img(r, a))
      BY <1>2, <3>1
    <3>3. ASSUME b # a PROVE Dad(v, Img(r, b)) \in Sub(w, Img(r, a))
      <4>1. b # Top(t) /\ Dad(t, b) \in All(t, u) /\ Dad(t, b) \in Sub(u, a)
        BY <1>1, <2>1, <3>1, <3>3, ShapeFacts DEF NodeFacts
      <4> QED BY <1>1, <1>2, <4>1
    <3> QED BY <3>2, <3>3
  <2>2. ASSUME NEW a \in All(v, w), NEW b \in Sub(w, a)
        PROVE  (\A c \in Sub(w, b) : c \in Sub(w, a)) /\ (b # a => Dad(v, b) \in Sub(w, a))
    <3>1. PICK e \in All(t, u) : a = Img(r, e)
      BY <1>2
    <3>2. PICK f \in All(t, u) : f \in Sub(u, e) /\ b = Img(r, f)
      BY <1>2, <3>1
    <3> QED BY <2>1, <3>1, <3>2
  <2> QED BY <2>2 DEF Nested
<1>7. Upward(v, w)
  <2>1. ASSUME NEW a \in All(t, u), Img(r, a) # Top(v)
        PROVE  Dad(v, Img(r, a)) \in All(v, w) /\ Kid(v, SideOf(v, Img(r, a)), Dad(v, Img(r, a))) = Img(r, a)
    <3>1. a # Top(t)
      BY <1>1, <2>1
    <3>2. Dad(t, a) \in All(t, u) /\ Kid(t, SideOf(t, a), Dad(t, a)) = a /\ SideOf(t, a) \in Side
      BY <1>3, <3>1, Sides DEF Upward
    <3>3. Dad(v, Img(r, a)) = Img(r, Dad(t, a)) /\ Kid(v, SideOf(t, a), Img(r, Dad(t, a))) = Img(r, a)
      BY <1>1, <3>1, <3>2
    <3>4. Img(r, a) \in Ptr
      BY <1>1, <1>2
    <3> QED BY <1>1, <1>2, <3>2, <3>3, <3>4, Fields
  <2> QED BY <1>2, <2>1 DEF Upward
<1>8. (\A b : b \notin Sub(w, Sentinel)) /\ (Top(v) # Sentinel => Top(v) \in All(v, w))
  BY <1>1, <1>2, <1>3
<1> QED BY <1>1, <1>4, <1>5, <1>6, <1>7, <1>8 DEF Shape

(* Heights, colours and order go over.                                     *)
LEMMA IsoLevel ==
  ASSUME NEW v, NEW w, NEW t, NEW u, NEW r, Iso(v, w, t, u, r), NEW h, NEW s, NEW p \in Spots(t, u), Level(t, u, h, s, p),
         NEW k \in Levels, \A a \in Spots(t, u) : Lvl(k, Img(r, a)) = Lvl(h, a)
  PROVE  Level(v, w, k, s, Img(r, p))
<1>1. /\ Img(r, Sentinel) = Sentinel
      /\ \A c \in Spots(t, u) : \A e \in Spots(t, u) : Img(r, c) = Img(r, e) => c = e
      /\ \A a \in All(t, u), z \in Side : Kid(v, z, Img(r, a)) = Img(r, Kid(t, z, a))
      /\ \A a \in Spots(t, u) : Weight(v, Img(r, a)) = Weight(t, a)
  BY DEF Iso
<1>2. /\ \A a \in All(t, u) : a \in Spots(t, u)
      /\ \A a \in All(t, u), z \in Side : Kid(t, z, a) \in Spots(t, u)
      /\ \A c \in All(v, w) : \E a \in All(t, u) : c = Img(r, a)
      /\ Sentinel \in Spots(t, u)
  BY IsoMembers DEF IsoFacts, Spots
<1>3. Lvl(h, Sentinel) = 0 /\ \A a \in All(t, u), z \in Side : Lvl(h, a) = Lvl(h, Kid(t, z, a)) + Weight(t, a) + Gap(z, a, s, p)
  BY DEF Level, LevelAt
<1>4. ASSUME NEW a \in All(v, w), NEW z \in Side PROVE Lvl(k, a) = Lvl(k, Kid(v, z, a)) + Weight(v, a) + Gap(z, a, s, Img(r, p))
  <2>1. PICK e \in All(t, u) : a = Img(r, e)
    BY <1>2
  <2>2. Gap(z, a, s, Img(r, p)) = Gap(z, e, s, p)
    BY <1>1, <1>2, <2>1 DEF Gap
  <2>3. Lvl(k, a) = Lvl(h, e) /\ Lvl(k, Kid(v, z, a)) = Lvl(h, Kid(t, z, e)) /\ Weight(v, a) = Weight(t, e)
    BY <1>1, <1>2, <2>1
  <2> QED BY <1>3, <2>2, <2>3
<1>5. Lvl(k, Sentinel) = 0
  BY <1>1, <1>2, <1>3
<1> QED BY <1>4, <1>5 DEF Level, LevelAt

LEMMA IsoRule ==
  ASSUME NEW v, NEW w, NEW t, NEW u, NEW r, Iso(v, w, t, u, r), NEW x, RedRule(t, u, x, x)
  PROVE  RedRule(v, w, Img(r, x), Img(r, x))
<1>1. /\ Img(r, Sentinel) = Sentinel
      /\ \A a \in All(t, u), z \in Side : Kid(v, z, Img(r, a)) = Img(r, Kid(t, z, a))
      /\ \A a \in Spots(t, u) : Weight(v, Img(r, a)) = Weight(t, a)
  BY DEF Iso
<1>2. /\ \A a \in All(t, u) : a \in Spots(t, u)
      /\ \A a \in All(t, u), z \in Side : Kid(t, z, a) \in Spots(t, u)
      /\ \A c \in All(v, w) : \E a \in All(t, u) : c = Img(r, a)
      /\ Sentinel \in Spots(t, u)
  BY IsoMembers DEF IsoFacts, Spots
<1>3. ASSUME NEW a \in All(v, w), NEW z \in Side, Weight(v, a) = 0, Weight(v, Kid(v, z, a)) = 0
      PROVE  Kid(v, z, a) = Img(r, x) \/ a = Img(r, x)
  <2>1. PICK e \in All(t, u) : a = Img(r, e)
    BY <1>2
  <2>2. Weight(t, e) = 0 /\ Weight(t, Kid(t, z, e)) = 0 /\ Kid(v, z, a) = Img(r, Kid(t, z, e))
    BY <1>1, <1>2, <1>3, <2>1
  <2> QED BY <2>1, <2>2 DEF RedRule
<1>4. Weight(v, Sentinel) = 1
  BY <1>1, <1>2 DEF RedRule
<1> QED BY <1>3, <1>4 DEF RedRule

LEMMA IsoOrder ==
  ASSUME NEW v, NEW w, NEW t, NEW u, NEW r, Iso(v, w, t, u, r), NEW d,
         \A a \in All(t, u), z \in Side : \A b \in Sub(u, Kid(t, z, a)) : Apart(d, z, Img(r, b), Img(r, a))
  PROVE  Order(v, w, d)
<1>1. \A a \in All(t, u), z \in Side : Kid(v, z, Img(r, a)) = Img(r, Kid(t, z, a))
  BY DEF Iso
<1>2. /\ \A a \in All(t, u), z \in Side : Kid(t, z, a) \in Spots(t, u)
      /\ \A c \in All(v, w) : \E a \in All(t, u) : c = Img(r, a)
      /\ \A a \in Spots(t, u) : \A c \in Sub(w, Img(r, a)) : \E b \in All(t, u) : b \in Sub(u, a) /\ c = Img(r, b)
  BY IsoMembers DEF IsoFacts
<1>3. ASSUME NEW a \in All(v, w), NEW z \in Side, NEW b \in Sub(w, Kid(v, z, a)) PROVE Apart(d, z, b, a)
  <2>1. PICK e \in All(t, u) : a = Img(r, e)
    BY <1>2
  <2>2. b \in Sub(w, Img(r, Kid(t, z, e)))
    BY <1>1, <1>3, <2>1
  <2>3. PICK f \in All(t, u) : f \in Sub(u, Kid(t, z, e)) /\ b = Img(r, f)
    BY <1>2, <2>2
  <2> QED BY <2>1, <2>3
<1> QED BY <1>3 DEF Order

-------------------------------------------------------------------------------
(* ngx_rbtree_delete(): m takes over what n has, its colour too.           *)
MovedIs(v, t, m, n) ==
  /\ v \in Tree /\ Top(v) = Top(t) /\ Keys(v) = Keys(t)
  /\ \A z \in Side : Kid(v, z, m) = Kid(t, z, n)
  /\ \A z \in Side, a \in Ptr : a # m => Kid(v, z, a) = Kid(t, z, a)
  /\ Dad(v, m) = Dad(t, n) /\ Weight(v, m) = Weight(t, n)
  /\ \A a \in Ptr : a # m => Dad(v, a) = Dad(t, a) /\ Weight(v, a) = Weight(t, a)

Moved(t, m, n) == [t EXCEPT !.child["left"][m] = t.child["left"][n],
                            !.child["right"][m] = t.child["right"][n],
                            !.parent[m] = t.parent[n], !.red[m] = t.red[n]]

LEMMA Moves ==
  ASSUME NEW t \in Tree, NEW m \in Ptr, NEW n \in Ptr, m # n
  PROVE  MovedIs(Moved(t, m, n), t, m, n)
<1> DEFINE c == PutChild(PutChild(t, "left", m, Kid(t, "left", n)), "right", m, Kid(t, "right", n))
           e == PutParent(c, m, Dad(t, n))
           f == Coloured(e, m, n)
<1>1. Kid(t, "left", n) \in Ptr /\ Kid(t, "right", n) \in Ptr /\ Dad(t, n) \in Ptr
  BY Fields, Sides
<1>2. ChildIs(PutChild(t, "left", m, Kid(t, "left", n)), t, "left", m, Kid(t, "left", n))
  BY <1>1, ChildPut, Sides
<1>3. PutChild(t, "left", m, Kid(t, "left", n)) \in Tree
  BY <1>2 DEF ChildIs
<1>4. ChildIs(c, PutChild(t, "left", m, Kid(t, "left", n)), "right", m, Kid(t, "right", n))
  BY <1>1, <1>3, ChildPut, Sides
<1> HIDE DEF c
<1>5. c \in Tree
  BY <1>4 DEF ChildIs
<1>6. ParentIs(e, c, m, Dad(t, n))
  BY <1>1, <1>5, ParentPut
<1> HIDE DEF e
<1>7. e \in Tree
  BY <1>6 DEF ParentIs
<1>8. WeightIs(f, e, m, Weight(e, n))
  BY <1>7, ColourPut
<1> HIDE DEF f
<1>9. \A z \in Side, a \in Ptr : Kid(f, z, a) = Kid(c, z, a)
  BY <1>6, <1>8 DEF ParentIs, WeightIs
<1>10. \A z \in Side : z = "left" \/ z = "right"
  BY Sides
<1>11. "left" \in Side /\ "right" \in Side /\ "left" # "right"
  BY Sides
<1>12. Kid(c, "left", m) = Kid(t, "left", n) /\ Kid(c, "right", m) = Kid(t, "right", n)
  BY <1>2, <1>4, <1>11 DEF ChildIs
<1>13. \A z \in Side, a \in Ptr : a # m => Kid(c, z, a) = Kid(t, z, a)
  BY <1>2, <1>4 DEF ChildIs
<1>14. \A a \in Ptr : Dad(c, a) = Dad(t, a) /\ Weight(c, a) = Weight(t, a)
  BY <1>2, <1>4 DEF ChildIs
<1>15. Top(c) = Top(t) /\ Keys(c) = Keys(t)
  BY <1>2, <1>4 DEF ChildIs
<1>16. f \in Tree /\ Top(f) = Top(t) /\ Keys(f) = Keys(t)
  BY <1>6, <1>8, <1>15 DEF ParentIs, WeightIs
<1>17. \A z \in Side : Kid(f, z, m) = Kid(t, z, n)
  BY <1>9, <1>10, <1>12
<1>18. Dad(f, m) = Dad(t, n) /\ Weight(f, m) = Weight(t, n)
  BY <1>6, <1>8, <1>14 DEF ParentIs, WeightIs
<1>19. \A a \in Ptr : a # m => Dad(f, a) = Dad(t, a) /\ Weight(f, a) = Weight(t, a)
  BY <1>6, <1>8, <1>14 DEF ParentIs, WeightIs
<1>20. MovedIs(f, t, m, n)
  BY <1>9, <1>13, <1>16, <1>17, <1>18, <1>19 DEF MovedIs
<1>21. f = Moved(t, m, n)
  <2>1. t.red[n] = e.red[n]
    BY DEF e, c, PutParent, PutChild
  <2>2. e = [t EXCEPT !.child["left"][m] = t.child["left"][n], !.child["right"][m] = t.child["right"][n], !.parent[m] = t.parent[n]]
    BY DEF e, c, PutParent, PutChild, Kid, Dad
  <2> QED BY <2>1, <2>2 DEF f, Coloured, Moved
<1> QED BY <1>20, <1>21

(* ... and then its place: below its parent, and above its children.       *)
SubstitutedIs(v, t, m, n) ==
  /\ v \in Tree /\ Keys(v) = Keys(t) /\ Top(v) = IF n = Top(t) THEN m ELSE Top(t)
  /\ n # Top(t) => Kid(v, SideOf(t, n), Dad(t, n)) = m
  /\ \A z \in Side : Kid(v, z, m) = Kid(t, z, n)
  /\ \A z \in Side, a \in Ptr : a # m /\ (n = Top(t) \/ z # SideOf(t, n) \/ a # Dad(t, n)) => Kid(v, z, a) = Kid(t, z, a)
  /\ Weight(v, m) = Weight(t, n) /\ \A a \in Ptr : a # m => Weight(v, a) = Weight(t, a)
  /\ \A z \in Side : Kid(t, z, n) # Sentinel => Dad(v, Kid(t, z, n)) = m
  /\ Dad(v, m) = Dad(t, n)
  /\ \A a \in Ptr : a # m /\ (a = Sentinel \/ \A z \in Side : a # Kid(t, z, n)) => Dad(v, a) = Dad(t, a)

LEMMA Substitutes ==
  ASSUME NEW t \in Tree, NEW m \in Ptr, NEW n \in Ptr, m # n, \A z \in Side : Kid(t, z, n) # m,
         n # Top(t) => Dad(t, n) # m
  PROVE  SubstitutedIs(Substituted(t, m, n), t, m, n)
<1> DEFINE c == Moved(t, m, n)
           e == Hang(c, n, m)
           l == Kid(e, "left", m)
           f == Adopt(e, l, m)
           y == Kid(e, "right", m)
           v == Adopt(f, y, m)
<1>1. Substituted(t, m, n) = v
  BY DEF Substituted, Moved, Kid
<1>2. MovedIs(c, t, m, n)
  BY Moves
<1> HIDE DEF c
<1>3. c \in Tree
  BY <1>2 DEF MovedIs
<1>4. HungIs(e, c, n, m)
  BY <1>3, Hung
<1> HIDE DEF e
<1>5. e \in Tree
  BY <1>4 DEF HungIs
<1>6. l \in Ptr /\ y \in Ptr
  BY <1>5, Fields, Sides
<1> HIDE DEF l, y
<1>7. AdoptIs(f, e, l, m)
  BY <1>5, <1>6, Adopted
<1> HIDE DEF f
<1>8. f \in Tree
  BY <1>7 DEF AdoptIs
<1>9. AdoptIs(v, f, y, m)
  BY <1>6, <1>8, Adopted
<1> HIDE DEF v
<1>10. Top(c) = Top(t) /\ Keys(c) = Keys(t) /\ Dad(c, n) = Dad(t, n) /\ Dad(t, n) \in Ptr
  BY <1>2, Fields DEF MovedIs
<1>11. n # Top(t) => SideOf(c, n) = SideOf(t, n)
  <2>1. n # Top(t) => Kid(c, "left", Dad(t, n)) = Kid(t, "left", Dad(t, n))
    BY <1>2, <1>10, Sides DEF MovedIs
  <2> QED BY <1>10, <2>1, SideIs
<1>12. /\ Top(v) = IF n = Top(t) THEN m ELSE Top(t)
       /\ v \in Tree /\ Keys(v) = Keys(t)
  BY <1>4, <1>7, <1>9, <1>10 DEF HungIs, AdoptIs
<1>13. \A z \in Side, a \in Ptr : Kid(v, z, a) = Kid(e, z, a)
  BY <1>7, <1>9 DEF AdoptIs
<1>14. n # Top(t) => Kid(e, SideOf(t, n), Dad(t, n)) = m
  BY <1>4, <1>10, <1>11 DEF HungIs
<1>15. \A z \in Side, a \in Ptr : n = Top(t) \/ z # SideOf(t, n) \/ a # Dad(t, n) => Kid(e, z, a) = Kid(c, z, a)
  BY <1>4, <1>10, <1>11 DEF HungIs
<1>16. SideOf(t, n) \in Side
  BY Sides
<1>17. n # Top(t) => Kid(v, SideOf(t, n), Dad(t, n)) = m
  BY <1>10, <1>13, <1>14, <1>16
<1>18. \A z \in Side : Kid(v, z, m) = Kid(t, z, n) /\ Kid(e, z, m) = Kid(t, z, n)
  BY <1>2, <1>13, <1>15 DEF MovedIs
<1>19. \A z \in Side, a \in Ptr : a # m /\ (n = Top(t) \/ z # SideOf(t, n) \/ a # Dad(t, n)) => Kid(v, z, a) = Kid(t, z, a)
  BY <1>2, <1>13, <1>15 DEF MovedIs
<1>20. \A a \in Ptr : Weight(v, a) = Weight(c, a)
  BY <1>4, <1>7, <1>9 DEF HungIs, AdoptIs
<1>21. Weight(v, m) = Weight(t, n) /\ \A a \in Ptr : a # m => Weight(v, a) = Weight(t, a)
  BY <1>2, <1>20 DEF MovedIs
<1>22. l = Kid(t, "left", n) /\ y = Kid(t, "right", n)
  BY <1>18, Sides DEF l, y
<1>23. l # m /\ y # m
  BY <1>22, Sides
<1>24. \A a \in Ptr : Dad(e, a) = Dad(c, a)
  BY <1>4 DEF HungIs
<1>25. (l # Sentinel => Dad(v, l) = m) /\ (y # Sentinel => Dad(v, y) = m)
  BY <1>6, <1>7, <1>9 DEF AdoptIs
<1>26. \A a \in Ptr : a = Sentinel \/ (a # l /\ a # y) => Dad(v, a) = Dad(c, a)
  BY <1>7, <1>9, <1>24 DEF AdoptIs
<1>27. \A z \in Side : Kid(t, z, n) # Sentinel => Dad(v, Kid(t, z, n)) = m
  BY <1>22, <1>25, Sides
<1>28. Dad(v, m) = Dad(t, n)
  BY <1>2, <1>23, <1>26 DEF MovedIs
<1>29. \A a \in Ptr : a # m /\ (a = Sentinel \/ \A z \in Side : a # Kid(t, z, n)) => Dad(v, a) = Dad(t, a)
  BY <1>2, <1>22, <1>26, Sides DEF MovedIs
<1> QED BY <1>1, <1>12, <1>17, <1>18, <1>19, <1>21, <1>27, <1>28, <1>29 DEF SubstitutedIs

-------------------------------------------------------------------------------
(* m, which is not in the tree, takes the place of n.                      *)
Renaming(r, m, n) == Img(r, n) = m /\ \A a \in Ptr : a # n => Img(r, a) = a

LEMMA Renamings == \A m, n : n \in Ptr => \E r : Renaming(r, m, n)
<1> TAKE m, n
<1>1. ASSUME n \in Ptr PROVE Renaming([a \in Ptr |-> IF a = n THEN m ELSE a], m, n)
  BY <1>1 DEF Renaming, Img
<1> QED BY <1>1

RenamedIs(w, u, m, n) ==
  /\ w \in Subs /\ \A b : b \in Sub(w, m) <=> b = m \/ (b \in Sub(u, n) /\ b # n)
  /\ \A a \in Ptr : a # m => \A b : b \in Sub(w, a) <=> (b \in Sub(u, a) /\ b # n) \/ (b = m /\ n \in Sub(u, a))

LEMMA Renamed ==
  ASSUME NEW u \in Subs, NEW m \in Node, NEW n \in Node
  PROVE  \E w : RenamedIs(w, u, m, n)
<1> DEFINE w == [a \in Ptr |-> IF a = m THEN {m} \cup (u[n] \ {n}) ELSE (u[a] \ {n}) \cup {b \in {m} : n \in u[a]}]
<1>1. m \in Ptr /\ n \in Ptr
  BY DEF Ptr
<1>2. \A a \in Ptr : u[a] \in SUBSET Node
  BY DEF Subs
<1>3. \A a \in Ptr : w[a] \in SUBSET Node
  BY <1>1, <1>2
<1>4. w \in Subs
  BY <1>3 DEF Subs
<1>5. \A b : b \in w[m] <=> b = m \/ (b \in u[n] /\ b # n)
  BY <1>1
<1>6. \A a \in Ptr : a # m => \A b : b \in w[a] <=> (b \in u[a] /\ b # n) \/ (b = m /\ n \in u[a])
  OBVIOUS
<1> HIDE DEF w
<1>7. RenamedIs(w, u, m, n)
  BY <1>4, <1>5, <1>6 DEF RenamedIs, Sub
<1> QED BY <1>7

(* e has the links of t, but that a child of n may have another parent.    *)
Near(e, t, u, n) ==
  /\ e \in Tree /\ Top(e) = Top(t) /\ \A a \in Ptr : Weight(e, a) = Weight(t, a)
  /\ \A z \in Side, a \in Ptr : Kid(e, z, a) = Kid(t, z, a)
  /\ \A a \in All(t, u) : a # Top(t) => Dad(e, a) = Dad(t, a) \/ Dad(t, a) = n

LEMMA NearSide ==
  ASSUME NEW t, NEW u, Shape(t, u), NEW n \in All(t, u), NEW e, Near(e, t, u, n)
  PROVE  n # Top(t) => Dad(e, n) = Dad(t, n) /\ SideOf(e, n) = SideOf(t, n)
<1>1. ASSUME n # Top(t) PROVE Dad(e, n) = Dad(t, n) /\ SideOf(e, n) = SideOf(t, n)
  <2>1. t \in Tree /\ Dad(t, n) # n /\ n \in Ptr
    BY <1>1, ShapeFacts DEF NodeFacts
  <2>2. Dad(e, n) = Dad(t, n)
    BY <1>1, <2>1 DEF Near
  <2>3. Kid(e, "left", Dad(t, n)) = Kid(t, "left", Dad(t, n))
    BY <2>1, Fields, Sides DEF Near
  <2> QED BY <2>2, <2>3, SideIs
<1> QED BY <1>1

LEMMA SubstitutedKids ==
  ASSUME NEW t, NEW u, Shape(t, u), NEW n \in All(t, u), NEW m \in Node, m \notin All(t, u), NEW e, Near(e, t, u, n),
         NEW v, SubstitutedIs(v, e, m, n), NEW r, Renaming(r, m, n)
  PROVE  \A a \in All(t, u), z \in Side : Kid(v, z, Img(r, a)) = Img(r, Kid(t, z, a))
<1>1. t \in Tree /\ (\A a \in All(t, u) : NodeFacts(t, u, a)) /\ Down(t, u) /\ Upward(t, u) /\ n \in Ptr /\ m \in Ptr
  BY ShapeFacts DEF Shape, NodeFacts, Ptr
<1>2. Img(r, n) = m /\ \A a \in Ptr : a # n => Img(r, a) = a
  BY DEF Renaming
<1>3. Top(e) = Top(t) /\ \A z \in Side, a \in Ptr : Kid(e, z, a) = Kid(t, z, a)
  BY DEF Near
<1>4. /\ \A z \in Side : Kid(v, z, m) = Kid(t, z, n)
      /\ n # Top(t) => Kid(v, SideOf(t, n), Dad(t, n)) = m
      /\ \A z \in Side, a \in Ptr : a # m /\ (n = Top(t) \/ z # SideOf(t, n) \/ a # Dad(t, n)) => Kid(v, z, a) = Kid(t, z, a)
  BY <1>1, <1>3, NearSide DEF SubstitutedIs
<1>5. ASSUME NEW a \in All(t, u), NEW z \in Side PROVE Kid(v, z, Img(r, a)) = Img(r, Kid(t, z, a))
  <2>1. a \in Ptr /\ Kid(t, z, a) \in Ptr /\ a # m
    BY <1>1, Fields DEF NodeFacts
  <2>2. CASE a = n
    <3>1. Kid(t, z, a) # n
      BY <1>1, <2>2 DEF NodeFacts
    <3> QED BY <1>2, <1>4, <2>1, <2>2, <3>1
  <2>3. CASE a # n /\ Kid(t, z, a) = n
    <3>1. n # Sentinel /\ n # Top(t) /\ SideOf(t, n) = z /\ Dad(t, n) = a
      BY <1>1, <2>3 DEF NodeFacts, Down
    <3> QED BY <1>2, <1>4, <2>1, <2>3, <3>1
  <2>4. CASE a # n /\ Kid(t, z, a) # n
    <3>1. n = Top(t) \/ z # SideOf(t, n) \/ a # Dad(t, n)
      BY <1>1, <2>4 DEF Upward
    <3> QED BY <1>2, <1>4, <2>1, <2>4, <3>1
  <2> QED BY <2>2, <2>3, <2>4
<1> QED BY <1>5

LEMMA SubstitutedDads ==
  ASSUME NEW t, NEW u, Shape(t, u), NEW n \in All(t, u), NEW m \in Node, m \notin All(t, u), NEW e, Near(e, t, u, n),
         NEW v, SubstitutedIs(v, e, m, n), NEW r, Renaming(r, m, n)
  PROVE  \A a \in All(t, u) : a # Top(t) => Dad(v, Img(r, a)) = Img(r, Dad(t, a))
<1>1. t \in Tree /\ (\A a \in All(t, u) : NodeFacts(t, u, a)) /\ Down(t, u) /\ Upward(t, u) /\ n \in Ptr /\ m \in Ptr
  BY ShapeFacts DEF Shape, NodeFacts, Ptr
<1>2. Img(r, n) = m /\ \A a \in Ptr : a # n => Img(r, a) = a
  BY DEF Renaming
<1>3. /\ \A z \in Side, a \in Ptr : Kid(e, z, a) = Kid(t, z, a)
      /\ \A a \in All(t, u) : a # Top(t) => Dad(e, a) = Dad(t, a) \/ Dad(t, a) = n
  BY DEF Near
<1>4. /\ \A z \in Side : Kid(t, z, n) # Sentinel => Dad(v, Kid(t, z, n)) = m
      /\ Dad(v, m) = Dad(e, n)
      /\ \A a \in Ptr : a # m /\ (a = Sentinel \/ \A z \in Side : a # Kid(t, z, n)) => Dad(v, a) = Dad(e, a)
  BY <1>1, <1>3 DEF SubstitutedIs
<1>5. ASSUME NEW a \in All(t, u), a # Top(t) PROVE Dad(v, Img(r, a)) = Img(r, Dad(t, a))
  <2>1. a \in Ptr /\ a # Sentinel /\ a # m /\ Dad(t, a) \in Ptr /\ Dad(t, a) # a
    BY <1>1, <1>5, Fields DEF NodeFacts
  <2>2. Kid(t, SideOf(t, a), Dad(t, a)) = a /\ SideOf(t, a) \in Side
    BY <1>1, <1>5, Sides DEF Upward
  <2>3. CASE a = n
    <3>1. Dad(e, n) = Dad(t, n)
      BY <1>5, <2>3, NearSide
    <3> QED BY <1>2, <1>4, <2>1, <2>3, <3>1
  <2>4. CASE a # n /\ Dad(t, a) = n
    <3>1. Dad(v, a) = m
      BY <1>4, <2>1, <2>2, <2>4
    <3> QED BY <1>2, <2>1, <2>4, <3>1
  <2>5. CASE a # n /\ Dad(t, a) # n
    <3>1. ASSUME NEW z \in Side PROVE a # Kid(t, z, n)
      BY <1>1, <2>1, <2>5 DEF Down
    <3>2. Dad(v, a) = Dad(e, a)
      BY <1>4, <2>1, <3>1
    <3>3. Dad(e, a) = Dad(t, a)
      BY <1>3, <1>5, <2>5
    <3> QED BY <1>2, <2>1, <2>5, <3>2, <3>3
  <2> QED BY <2>3, <2>4, <2>5
<1> QED BY <1>5

LEMMA SubstitutedIso ==
  ASSUME NEW t, NEW u, Shape(t, u), NEW n \in All(t, u), NEW m \in Node, m \notin All(t, u), NEW e, Near(e, t, u, n),
         NEW v, SubstitutedIs(v, e, m, n), NEW r, Renaming(r, m, n), NEW w, RenamedIs(w, u, m, n)
  PROVE  Iso(v, w, t, u, r)
<1>1. /\ t \in Tree /\ u \in Subs /\ (\A a \in All(t, u) : NodeFacts(t, u, a)) /\ n \in Ptr /\ m \in Ptr /\ m # Sentinel /\ n # Sentinel
      /\ Sentinel \in Ptr /\ \A b : b \notin Sub(u, Sentinel)
  BY ShapeFacts, RbTreeAssumption DEF Shape, NodeFacts, Ptr
<1>2. Img(r, n) = m /\ \A a \in Ptr : a # n => Img(r, a) = a
  BY DEF Renaming
<1>3. \A c : c \in Spots(t, u) <=> c = Sentinel \/ c \in All(t, u)
  BY DEF Spots
<1>4. \A c \in Spots(t, u) : c \in Ptr /\ c # m /\ \A b \in Sub(u, c) : b \in All(t, u)
  BY <1>1, <1>3 DEF NodeFacts
<1>5. v \in Tree /\ Top(v) = Img(r, Top(t))
  <2>1. Top(v) = IF n = Top(t) THEN m ELSE Top(t)
    BY DEF SubstitutedIs, Near
  <2>2. Top(t) \in Ptr /\ v \in Tree
    BY <1>1, Fields DEF SubstitutedIs
  <2> QED BY <1>2, <2>1, <2>2
<1>6. \A c \in Spots(t, u) : Img(r, c) \in Ptr /\ \A x \in Spots(t, u) : Img(r, c) = Img(r, x) => c = x
  BY <1>1, <1>2, <1>4
<1>7. w \in Subs /\ (\A b : b \in Sub(w, m) <=> b = m \/ (b \in Sub(u, n) /\ b # n))
      /\ \A a \in Ptr : a # m => \A b : b \in Sub(w, a) <=> (b \in Sub(u, a) /\ b # n) \/ (b = m /\ n \in Sub(u, a))
  BY DEF RenamedIs
<1>8. ASSUME NEW a \in Spots(t, u), NEW c PROVE c \in Sub(w, Img(r, a)) <=> \E b \in Sub(u, a) : c = Img(r, b)
  <2>1. a \in Ptr /\ a # m /\ \A b \in Sub(u, a) : b \in Ptr
    BY <1>1, <1>4 DEF NodeFacts
  <2>2. \A b \in Sub(u, a) : Img(r, b) = IF b = n THEN m ELSE b
    BY <1>2, <2>1
  <2>3. (\E b \in Sub(u, a) : c = Img(r, b)) <=> (c \in Sub(u, a) /\ c # n) \/ (c = m /\ n \in Sub(u, a))
    BY <2>2
  <2>4. CASE a = n
    <3>1. n \in Sub(u, n) /\ Img(r, a) = m
      BY <1>1, <1>2, <2>4 DEF NodeFacts
    <3> QED BY <1>7, <2>3, <2>4, <3>1
  <2>5. CASE a # n
    BY <1>2, <1>7, <2>1, <2>3, <2>5
  <2> QED BY <2>4, <2>5
<1>9. \A a \in All(t, u), z \in Side : Kid(v, z, Img(r, a)) = Img(r, Kid(t, z, a))
  BY SubstitutedKids
<1>10. \A a \in All(t, u) : a # Top(t) => Dad(v, Img(r, a)) = Img(r, Dad(t, a))
  BY SubstitutedDads
<1>11. ASSUME NEW a \in Spots(t, u) PROVE Weight(v, Img(r, a)) = Weight(t, a)
  <2>1. /\ Weight(v, m) = Weight(e, n) /\ \A c \in Ptr : c # m => Weight(v, c) = Weight(e, c)
        /\ \A c \in Ptr : Weight(e, c) = Weight(t, c)
    BY DEF SubstitutedIs, Near
  <2> QED BY <1>1, <1>2, <1>4, <2>1
<1>12. Img(r, Sentinel) = Sentinel
  BY <1>1, <1>2
<1> QED BY <1>5, <1>6, <1>7, <1>8, <1>9, <1>10, <1>11, <1>12 DEF Iso

-------------------------------------------------------------------------------
(* The heights move with the node.                                         *)
LEMMA RenamedLevels ==
  ASSUME NEW t, NEW u, Shape(t, u), NEW n \in All(t, u), NEW m \in Node, m \notin All(t, u), NEW h \in Levels,
         NEW r, Renaming(r, m, n)
  PROVE  \E k \in Levels : \A a \in Spots(t, u) : Lvl(k, Img(r, a)) = Lvl(h, a)
<1>1. n \in Ptr /\ m \in Ptr /\ m # Sentinel /\ \A a \in Spots(t, u) : a \in Ptr /\ a # m
  BY ShapeFacts, RbTreeAssumption DEF NodeFacts, Ptr, Spots
<1>2. PICK k : LvlPut(k, h, m, Lvl(h, n))
  BY <1>1, LvlPuts, LevelFacts
<1>3. k \in Levels /\ Lvl(k, m) = Lvl(h, n) /\ \A a \in Ptr : a # m => Lvl(k, a) = Lvl(h, a)
  BY <1>2 DEF LvlPut
<1>4. \A a \in Spots(t, u) : Lvl(k, Img(r, a)) = Lvl(h, a)
  BY <1>1, <1>3 DEF Renaming
<1> QED BY <1>3, <1>4

LEMMA RenamedSound ==
  ASSUME NEW t, NEW u, NEW n \in All(t, u), NEW m \in Node, m \notin All(t, u), NEW v, NEW w, NEW r,
         Iso(v, w, t, u, r), Renaming(r, m, n), NEW h, Sound(t, u, h)
  PROVE  \E k : Sound(v, w, k)
<1>1. Shape(t, u) /\ Level(t, u, h, "left", Sentinel) /\ RedRule(t, u, Sentinel, Sentinel) /\ Weight(t, Top(t)) = 1
  BY DEF Sound
<1>2. h \in Levels
  BY <1>1 DEF Level
<1>3. PICK k \in Levels : \A a \in Spots(t, u) : Lvl(k, Img(r, a)) = Lvl(h, a)
  BY <1>1, <1>2, RenamedLevels
<1>4. Sentinel \in Spots(t, u) /\ Top(t) \in Spots(t, u)
  BY <1>1 DEF Spots, Shape
<1>5. Img(r, Sentinel) = Sentinel /\ Top(v) = Img(r, Top(t)) /\ \A a \in Spots(t, u) : Weight(v, Img(r, a)) = Weight(t, a)
  BY DEF Iso
<1>6. Level(v, w, k, "left", Sentinel)
  BY <1>1, <1>3, <1>4, <1>5, IsoLevel
<1>7. RedRule(v, w, Sentinel, Sentinel)
  BY <1>1, <1>5, IsoRule
<1>8. Shape(v, w)
  BY IsoShape
<1>9. Sound(v, w, k)
  BY <1>1, <1>4, <1>5, <1>6, <1>7, <1>8 DEF Sound
<1> QED BY <1>9

LEMMA RenamedHoled ==
  ASSUME NEW t, NEW u, NEW n \in All(t, u), NEW m \in Node, m \notin All(t, u), NEW v, NEW w, NEW r,
         Iso(v, w, t, u, r), Renaming(r, m, n), NEW h, NEW s, NEW p \in All(t, u), NEW x \in Ptr, Holed(t, u, h, s, p, x),
         x # n, Dad(v, x) = Img(r, p)
  PROVE  \E k : Holed(v, w, k, s, Img(r, p), x)
<1>1. Shape(t, u) /\ Level(t, u, h, s, p) /\ RedRule(t, u, x, x) /\ Top(t) # Sentinel /\ s \in Side
  BY DEF Holed
<1>2. h \in Levels
  BY <1>1 DEF Level
<1>3. PICK k \in Levels : \A a \in Spots(t, u) : Lvl(k, Img(r, a)) = Lvl(h, a)
  BY <1>1, <1>2, RenamedLevels
<1>4. Sentinel \in Spots(t, u) /\ Top(t) \in Spots(t, u) /\ p \in Spots(t, u) /\ p # Sentinel /\ Top(t) \in All(t, u)
  BY <1>1, ShapeFacts DEF Spots, Shape, NodeFacts
<1>5. /\ Img(r, Sentinel) = Sentinel /\ Top(v) = Img(r, Top(t)) /\ \A a \in Spots(t, u) : Weight(v, Img(r, a)) = Weight(t, a)
      /\ \A a \in All(t, u), z \in Side : Kid(v, z, Img(r, a)) = Img(r, Kid(t, z, a))
  BY DEF Iso
<1>6. Level(v, w, k, s, Img(r, p))
  BY <1>1, <1>3, <1>4, IsoLevel
<1>7. Img(r, x) = x
  BY DEF Renaming
<1>8. RedRule(v, w, x, x)
  BY <1>1, <1>7, IsoRule
<1>9. Shape(v, w)
  BY IsoShape
<1>10. Kid(t, s, p) = x /\ Weight(t, Top(t)) = 1
  BY <1>4 DEF Holed
<1>11. Img(r, p) \in All(v, w) /\ Top(v) # Sentinel
  BY <1>4, <1>5, IsoMembers DEF IsoFacts
<1>12. Kid(v, s, Img(r, p)) = x /\ Weight(v, Top(v)) = 1
  BY <1>1, <1>4, <1>5, <1>7, <1>10
<1>13. Holed(v, w, k, s, Img(r, p), x)
  BY <1>1, <1>6, <1>8, <1>9, <1>11, <1>12 DEF Holed
<1> QED BY <1>13

-------------------------------------------------------------------------------
(* n has two children: m is the first node of the right one.               *)
Exchange(t, u, d, n, m) ==
  /\ Shape(t, u) /\ d \in Ranks /\ Order(t, u, d) /\ n \in All(t, u)
  /\ Kid(t, "left", n) # Sentinel /\ Kid(t, "right", n) # Sentinel /\ m = MinFrom(t, Kid(t, "right", n))

ExchangeFacts(t, u, d, n, m) ==
  /\ m \in Sub(u, Kid(t, "right", n)) /\ Kid(t, "left", m) = Sentinel
  /\ \A b \in Sub(u, Kid(t, "right", n)) : Apart(d, "left", m, b)
  /\ m \in All(t, u) /\ m # n /\ m # Top(t) /\ m \in Node /\ n \in Node /\ n \in Ptr /\ m \in Ptr /\ m \in Sub(u, n) /\ n \notin Sub(u, m)
  /\ Splice(t, u, m, "left", Kid(t, "right", m), SideOf(t, m), Dad(t, m))

LEMMA Exchanges ==
  ASSUME NEW t, NEW u, NEW d, NEW n, NEW m, Exchange(t, u, d, n, m)
  PROVE  ExchangeFacts(t, u, d, n, m)
<1>1. /\ Shape(t, u) /\ d \in Ranks /\ Order(t, u, d) /\ n \in All(t, u)
      /\ Kid(t, "left", n) # Sentinel /\ Kid(t, "right", n) # Sentinel /\ m = MinFrom(t, Kid(t, "right", n))
  BY DEF Exchange
<1>2. /\ t \in Tree /\ u \in Subs /\ (\A a \in All(t, u) : NodeFacts(t, u, a)) /\ Down(t, u) /\ Upward(t, u) /\ Parts(t, u) /\ Nested(t, u)
  BY <1>1, ShapeFacts DEF Shape
<1>3. Kid(t, "right", n) \in All(t, u)
  BY <1>1, <1>2, Sides DEF Down
<1>4. /\ m \in Sub(u, Kid(t, "right", n)) /\ Kid(t, "left", m) = Sentinel
      /\ \A b \in Sub(u, Kid(t, "right", n)) : Apart(d, "left", m, b)
  BY <1>1, <1>3, MinIsFirst
<1>5. n \notin Sub(u, Kid(t, "right", n))
  BY <1>1, <1>2, Sides DEF Parts
<1>6. m \in All(t, u) /\ m \in Sub(u, n)
  BY <1>1, <1>2, <1>4, Sides DEF NodeFacts
<1>7. m # n /\ n \notin Sub(u, m)
  BY <1>2, <1>3, <1>4, <1>5 DEF Nested
<1>8. m # Top(t)
  BY <1>1, <1>2, <1>6, <1>7 DEF NodeFacts
<1>9. m \in Node /\ n \in Node /\ n \in Ptr /\ m \in Ptr
  BY <1>1, <1>2, <1>6 DEF NodeFacts
<1>10. Kid(t, SideOf(t, m), Dad(t, m)) = m
  BY <1>2, <1>6, <1>8 DEF Upward
<1>11. Splice(t, u, m, "left", Kid(t, "right", m), SideOf(t, m), Dad(t, m))
  BY <1>1, <1>4, <1>6, <1>8, <1>10, Sides DEF Splice
<1> QED BY <1>4, <1>6, <1>7, <1>8, <1>9, <1>11 DEF ExchangeFacts

(* The order stays when m is where n was.                                  *)
LEMMA ExchangedOrder ==
  ASSUME NEW t, NEW u, NEW d, NEW n, NEW m, Exchange(t, u, d, n, m),
         NEW c, NEW w, NEW x, NEW s, NEW p, SpliceFacts(c, w, t, u, m, x, s, p), Order(c, w, d), Shape(c, w),
         NEW v, NEW w2, NEW r, Iso(v, w2, c, w, r), Renaming(r, m, n)
  PROVE  Order(v, w2, d)
<1>1. /\ Shape(t, u) /\ d \in Ranks /\ Order(t, u, d) /\ n \in All(t, u)
      /\ Kid(t, "left", n) # Sentinel /\ Kid(t, "right", n) # Sentinel
  BY DEF Exchange
<1>2. /\ m \in Sub(u, Kid(t, "right", n))
      /\ \A b \in Sub(u, Kid(t, "right", n)) : Apart(d, "left", m, b)
      /\ m \in All(t, u) /\ m # n /\ m \in Ptr /\ n \in Ptr /\ m \in Sub(u, n)
  BY Exchanges DEF ExchangeFacts
<1>3. (\A a \in All(t, u) : NodeFacts(t, u, a)) /\ Nested(t, u) /\ Down(t, u)
  BY <1>1, ShapeFacts DEF Shape
<1>4. /\ \A b : b \in All(c, w) <=> b \in All(t, u) /\ b # m
      /\ \A a \in All(t, u), z \in Side : a # m => \A b : b \in Sub(w, Kid(c, z, a)) <=> b \in Sub(u, Kid(t, z, a)) /\ b # m
  BY DEF SpliceFacts
<1>5. Img(r, n) = m /\ \A a \in Ptr : a # n => Img(r, a) = a
  BY DEF Renaming
<1>6. /\ \A a \in Ptr, b \in Ptr, z \in Side : Apart(d, z, b, a) => Apart(d, Other(z), a, b)
      /\ \A a \in Ptr, b \in Ptr, z \in Side : \A f \in Ptr : Apart(d, z, f, b) /\ Apart(d, z, b, a) => Apart(d, z, f, a)
  BY <1>1, ApartFacts
<1>7. ASSUME NEW a \in All(c, w), NEW z \in Side, NEW b \in Sub(w, Kid(c, z, a))
      PROVE  Apart(d, z, Img(r, b), Img(r, a))
  <2>1. a \in All(t, u) /\ a # m /\ b \in Sub(u, Kid(t, z, a)) /\ b # m
    BY <1>4
  <2>2. Apart(d, z, b, a)
    BY <1>1, <2>1 DEF Order
  <2>3. a \in Ptr /\ b \in All(t, u) /\ b \in Ptr /\ a # Sentinel
    BY <1>3, <2>1 DEF NodeFacts
  <2>4. CASE a = n
    <3>1. b # n
      BY <1>1, <1>3, <2>1, <2>4 DEF Shape, Parts
    <3>2. Apart(d, z, b, m)
      <4>1. CASE z = "right"
        <5>1. Apart(d, "left", m, b)
          BY <1>2, <2>1, <2>4, <4>1
        <5> QED BY <1>2, <1>6, <2>3, <4>1, <5>1, Sides
      <4>2. CASE z = "left"
        <5>1. Apart(d, "right", m, n)
          BY <1>1, <1>2, Sides DEF Order
        <5>2. Apart(d, "left", n, m)
          BY <1>2, <1>6, <5>1, Sides
        <5>3. Apart(d, "left", b, n)
          BY <2>2, <2>4, <4>2
        <5> QED BY <1>2, <1>6, <2>3, <4>2, <5>2, <5>3, Sides
      <4> QED BY <4>1, <4>2, Sides
    <3> QED BY <1>5, <2>3, <2>4, <3>1, <3>2
  <2>5. CASE a # n /\ b = n
    <3>1. Kid(t, z, a) # Sentinel
      BY <1>1, <2>1 DEF Shape
    <3>2. Kid(t, z, a) \in All(t, u)
      BY <1>3, <2>1, <3>1 DEF Down
    <3>3. m \in Sub(u, Kid(t, z, a))
      BY <1>2, <1>3, <2>1, <2>5, <3>2 DEF Nested
    <3>4. Apart(d, z, m, a)
      BY <1>1, <2>1, <3>3 DEF Order
    <3> QED BY <1>5, <2>3, <2>5, <3>4
  <2>6. CASE a # n /\ b # n
    BY <1>5, <2>2, <2>3, <2>6
  <2> QED BY <2>4, <2>5, <2>6
<1> QED BY <1>7, IsoOrder

LEMMA ExchangedAll ==
  ASSUME NEW t, NEW u, NEW n \in All(t, u), NEW m \in All(t, u), m # n, Shape(t, u),
         NEW c, NEW w, NEW x, NEW s, NEW p, SpliceFacts(c, w, t, u, m, x, s, p),
         NEW v, NEW w2, NEW r, Iso(v, w2, c, w, r), Renaming(r, m, n)
  PROVE  All(v, w2) = All(t, u) \ {n}
<1>1. /\ \A b : b \in All(c, w) <=> b \in All(t, u) /\ b # m
  BY DEF SpliceFacts
<1>2. /\ \A b \in All(c, w) : Img(r, b) \in All(v, w2)
      /\ \A b \in All(v, w2) : \E a \in All(c, w) : b = Img(r, a)
  BY IsoMembers DEF IsoFacts
<1>3. \A a \in All(t, u) : a \in Ptr
  BY ShapeFacts DEF NodeFacts
<1>4. Img(r, n) = m /\ \A a \in Ptr : a # n => Img(r, a) = a
  BY DEF Renaming
<1>5. ASSUME NEW b \in All(v, w2) PROVE b \in All(t, u) \ {n}
  <2>1. PICK a \in All(c, w) : b = Img(r, a)
    BY <1>2
  <2>2. a \in All(t, u) /\ a # m /\ a \in Ptr
    BY <1>1, <1>3
  <2> QED BY <1>4, <2>1, <2>2
<1>6. ASSUME NEW b \in All(t, u), b # n PROVE b \in All(v, w2)
  <2>1. CASE b = m
    BY <1>1, <1>2, <1>4, <2>1
  <2>2. CASE b # m
    <3>1. b \in All(c, w) /\ Img(r, b) = b
      BY <1>1, <1>3, <1>4, <1>6, <2>2
    <3> QED BY <1>2, <3>1
  <2> QED BY <2>1, <2>2
<1> QED BY <1>5, <1>6

-------------------------------------------------------------------------------
(* The tree before the repair: red-black, or with a black node missing.    *)
Torn(v, d, T, kk, x, red) ==
  \/ red = 0 /\ \E w, k : TreeWith(v, w, k, d, T, kk)
  \/ red = 1 /\ \E w, k, s, p : Holed(v, w, k, s, p, x) /\ Order(v, w, d) /\ All(v, w) = T /\ Keys(v) = kk

(* e is t without m, where x has the parent pp.                            *)
LEMMA ExchangedNear ==
  ASSUME NEW t, NEW u, NEW d, NEW n, NEW m, Exchange(t, u, d, n, m),
         NEW x, x = Kid(t, "right", m), NEW s, s = SideOf(t, m), NEW p, p = Dad(t, m), NEW pp, pp = IF p = n THEN m ELSE p,
         NEW e, e = PutParent(PutChild(t, s, p, x), x, pp), NEW c, c = Spliced(t, s, p, x), NEW w, ShrunkIs(w, u, m)
  PROVE  /\ SplicedIs(c, t, s, p, x) /\ SpliceFacts(c, w, t, u, m, x, s, p) /\ Shape(c, w) /\ n \in All(c, w) /\ m \notin All(c, w) /\ x # n
         /\ Near(e, c, w, n) /\ Dad(e, x) = pp /\ Keys(e) = Keys(t)
<1>1. /\ m \in All(t, u) /\ m # n /\ m \in Ptr /\ n \in Ptr /\ m \in Sub(u, n) /\ n \notin Sub(u, m)
      /\ Splice(t, u, m, "left", x, s, p)
  BY Exchanges DEF ExchangeFacts
<1>2. Shape(t, u) /\ n \in All(t, u) /\ t \in Tree /\ Down(t, u) /\ NodeFacts(t, u, m) /\ NodeFacts(t, u, n)
  BY <1>1, ShapeFacts DEF Exchange, Shape
<1>3. s \in Side /\ p \in Ptr /\ x \in Ptr /\ pp \in Ptr
  BY <1>1, <1>2, Fields, Sides
<1>4. SplicedIs(c, t, s, p, x)
  BY <1>2, <1>3, Splices
<1>5. SpliceFacts(c, w, t, u, m, x, s, p) /\ Shape(c, w)
  BY <1>1, <1>4, SplicingFacts, SplicedShape
<1>6. n \in All(c, w) /\ m \notin All(c, w)
  BY <1>1, <1>2, <1>5 DEF SpliceFacts
<1>7. x # n
  BY <1>1, <1>2, Sides DEF NodeFacts
<1>8. ChildIs(PutChild(t, s, p, x), t, s, p, x)
  BY <1>2, <1>3, ChildPut
<1>9. PutChild(t, s, p, x) \in Tree
  BY <1>8 DEF ChildIs
<1>10. ParentIs(e, PutChild(t, s, p, x), x, pp)
  BY <1>3, <1>9, ParentPut
<1>11. Dad(e, x) = pp /\ Keys(e) = Keys(t) /\ Top(e) = Top(c) /\ e \in Tree
  BY <1>4, <1>8, <1>10 DEF ParentIs, ChildIs, SplicedIs
<1>12. \A a \in Ptr : Weight(e, a) = Weight(c, a) /\ (a # x => Dad(e, a) = Dad(c, a))
  BY <1>4, <1>8, <1>10 DEF ParentIs, ChildIs, SplicedIs
<1>13. Kid(e, s, p) = Kid(c, s, p)
  BY <1>3, <1>4, <1>8, <1>10 DEF ParentIs, ChildIs, SplicedIs
<1>14. \A z \in Side, a \in Ptr : z # s \/ a # p => Kid(e, z, a) = Kid(c, z, a)
  BY <1>4, <1>8, <1>10 DEF ParentIs, ChildIs, SplicedIs
<1>15. \A z \in Side, a \in Ptr : Kid(e, z, a) = Kid(c, z, a)
  BY <1>13, <1>14
<1>16. Dad(c, x) = p
  BY <1>4 DEF SplicedIs
<1>17. ASSUME NEW a \in All(c, w) PROVE Dad(e, a) = Dad(c, a) \/ Dad(c, a) = n
  <2>1. a \in Ptr
    BY <1>5, ShapeFacts DEF NodeFacts
  <2> QED BY <1>11, <1>12, <1>16, <2>1
<1>18. Near(e, c, w, n)
  BY <1>11, <1>12, <1>15, <1>17 DEF Near
<1> QED BY <1>4, <1>5, <1>6, <1>7, <1>11, <1>18

LEMMA Exchanged ==
  ASSUME NEW t, NEW u, NEW h, Sound(t, u, h), NEW d, NEW n, NEW m, Exchange(t, u, d, n, m),
         NEW x, x = Kid(t, "right", m), NEW s, s = SideOf(t, m), NEW p, p = Dad(t, m), NEW pp, pp = IF p = n THEN m ELSE p,
         NEW e, e = PutParent(PutChild(t, s, p, x), x, pp), NEW v, v = Substituted(e, m, n)
  PROVE  Torn(v, d, All(t, u) \ {n}, Keys(t), x, Weight(t, m))
<1>1. /\ m \in All(t, u) /\ m # n /\ m \in Ptr /\ n \in Ptr /\ m \in Node /\ n \in Node
      /\ Splice(t, u, m, "left", x, s, p)
  BY Exchanges DEF ExchangeFacts
<1>2. Shape(t, u) /\ n \in All(t, u) /\ t \in Tree /\ u \in Subs /\ Order(t, u, d)
  BY <1>1, ShapeFacts DEF Exchange
<1>3. PICK w : ShrunkIs(w, u, m)
  BY <1>2, Shrunk
<1> DEFINE c == Spliced(t, s, p, x)
<1>4. /\ SplicedIs(c, t, s, p, x) /\ SpliceFacts(c, w, t, u, m, x, s, p) /\ Shape(c, w) /\ n \in All(c, w) /\ m \notin All(c, w) /\ x # n
      /\ Near(e, c, w, n) /\ Dad(e, x) = pp /\ Keys(e) = Keys(t)
  BY <1>3, ExchangedNear
<1> HIDE DEF c
<1>5. PICK r : Renaming(r, m, n)
  BY <1>1, Renamings
<1>6. w \in Subs
  BY <1>3 DEF ShrunkIs
<1>7. PICK w2 : RenamedIs(w2, w, m, n)
  BY <1>1, <1>6, Renamed
<1>8. e \in Tree /\ (\A z \in Side : Kid(e, z, n) # m) /\ (n # Top(e) => Dad(e, n) # m)
  <2>1. \A z \in Side : Kid(c, z, n) # m
    BY <1>1, <1>2, <1>4 DEF SpliceFacts
  <2>2. e \in Tree /\ Top(e) = Top(c) /\ \A z \in Side : Kid(e, z, n) = Kid(c, z, n)
    BY <1>1, <1>4 DEF Near
  <2>3. n # Top(c) => Dad(e, n) = Dad(c, n) /\ Dad(c, n) \in All(c, w)
    BY <1>4, NearSide DEF Shape, Upward
  <2> QED BY <1>4, <2>1, <2>2, <2>3
<1>9. SubstitutedIs(v, e, m, n)
  BY <1>1, <1>8, Substitutes
<1>10. Iso(v, w2, c, w, r)
  BY <1>1, <1>4, <1>5, <1>7, <1>9, SubstitutedIso
<1>11. Order(c, w, d)
  BY <1>1, <1>2, <1>3, <1>4, SplicedOrder
<1>12. Order(v, w2, d)
  BY <1>4, <1>5, <1>10, <1>11, ExchangedOrder
<1>13. All(v, w2) = All(t, u) \ {n}
  BY <1>1, <1>2, <1>4, <1>5, <1>10, ExchangedAll
<1>14. Keys(v) = Keys(t)
  BY <1>4, <1>9 DEF SubstitutedIs
<1>15. Weight(t, m) \in {0, 1} /\ x \in Ptr /\ p \in Ptr
  BY <1>1, <1>2, Fields, Sides
<1>16. CASE Weight(t, m) = 0
  <2>1. Sound(c, w, h)
    BY <1>1, <1>3, <1>4, <1>16, SplicedRed
  <2>2. PICK k : Sound(v, w2, k)
    BY <1>1, <1>4, <1>5, <1>10, <2>1, RenamedSound
  <2>3. TreeWith(v, w2, k, d, All(t, u) \ {n}, Keys(t))
    BY <1>12, <1>13, <1>14, <2>2 DEF TreeWith
  <2> QED BY <1>16, <2>3 DEF Torn
<1>17. CASE Weight(t, m) = 1
  <2>1. Holed(c, w, h, s, p, x)
    BY <1>1, <1>3, <1>4, <1>17, SplicedBlack
  <2>2. p \in All(c, w)
    BY <1>4 DEF SpliceFacts
  <2>3. Img(r, p) = pp
    BY <1>5, <1>15 DEF Renaming
  <2>4. Dad(v, x) = pp
    <3>1. CASE x = Sentinel
      <4>1. x # m
        BY <1>4 DEF SpliceFacts
      <4> QED BY <1>4, <1>9, <1>15, <3>1, <4>1 DEF SubstitutedIs
    <3>2. CASE x # Sentinel
      <4>1. Kid(c, s, p) = x /\ Dad(c, x) = p
        BY <1>4 DEF SplicedIs
      <4>2. x \in All(c, w) /\ x # Top(c)
        BY <1>2, <1>4, <2>2, <3>2, <4>1, ShapeFacts, Sides DEF Shape, Down, NodeFacts, Splice
      <4>3. Dad(v, Img(r, x)) = Img(r, Dad(c, x))
        BY <1>10, <4>2 DEF Iso
      <4> QED BY <1>4, <1>5, <1>15, <2>3, <4>1, <4>3 DEF Renaming
    <3> QED BY <3>1, <3>2
  <2>5. PICK k : Holed(v, w2, k, s, pp, x)
    BY <1>1, <1>4, <1>5, <1>10, <1>15, <2>1, <2>2, <2>3, <2>4, RenamedHoled
  <2> QED BY <1>12, <1>13, <1>14, <1>17, <2>5 DEF Torn
<1> QED BY <1>15, <1>16, <1>17

-------------------------------------------------------------------------------
(* What is cleared does not matter.                                        *)
ClearedIs(v, t, n) ==
  /\ v \in Tree /\ Top(v) = Top(t) /\ Keys(v) = [Keys(t) EXCEPT ![n] = 0]
  /\ \A a \in Ptr : a # n => /\ \A z \in Side : Kid(v, z, a) = Kid(t, z, a)
                             /\ Dad(v, a) = Dad(t, a) /\ Weight(v, a) = Weight(t, a)

LEMMA Clears ==
  ASSUME NEW t \in Tree, NEW n \in Ptr
  PROVE  ClearedIs(Cleared(t, n), t, n)
<1> DEFINE c == PutChild(t, "left", n, Sentinel)
           e == PutChild(c, "right", n, Sentinel)
           f == PutParent(e, n, Sentinel)
           g == PutKey(f, n, 0)
           v == Blackened(g, n)
<1>1. Sentinel \in Ptr /\ 0 \in Key
  BY RbTreeAssumption DEF Ptr, Key, Modulus
<1>2. ChildIs(c, t, "left", n, Sentinel)
  BY <1>1, ChildPut, Sides
<1> HIDE DEF c
<1>3. c \in Tree
  BY <1>2 DEF ChildIs
<1>4. ChildIs(e, c, "right", n, Sentinel)
  BY <1>1, <1>3, ChildPut, Sides
<1> HIDE DEF e
<1>5. e \in Tree
  BY <1>4 DEF ChildIs
<1>6. ParentIs(f, e, n, Sentinel)
  BY <1>1, <1>5, ParentPut
<1> HIDE DEF f
<1>7. f \in Tree
  BY <1>6 DEF ParentIs
<1>8. KeyIs(g, f, n, 0)
  BY <1>1, <1>7, KeyPut
<1> HIDE DEF g
<1>9. g \in Tree
  BY <1>8 DEF KeyIs
<1>10. WeightIs(v, g, n, 1)
  BY <1>9, WeightPut
<1> HIDE DEF v
<1>11. v \in Tree /\ Top(v) = Top(t) /\ Keys(v) = [Keys(t) EXCEPT ![n] = 0]
  BY <1>2, <1>4, <1>6, <1>8, <1>10 DEF ChildIs, ParentIs, KeyIs, WeightIs
<1>12. \A a \in Ptr : a # n => Dad(v, a) = Dad(t, a) /\ Weight(v, a) = Weight(t, a)
  BY <1>2, <1>4, <1>6, <1>8, <1>10 DEF ChildIs, ParentIs, KeyIs, WeightIs
<1>13. \A a \in Ptr : a # n => \A z \in Side : Kid(v, z, a) = Kid(t, z, a)
  BY <1>2, <1>4, <1>6, <1>8, <1>10 DEF ChildIs, ParentIs, KeyIs, WeightIs
<1>14. ClearedIs(v, t, n)
  BY <1>11, <1>12, <1>13 DEF ClearedIs
<1>15. v = Cleared(t, n)
  BY DEF v, g, f, e, c, Cleared, Blackened, Painted, PutKey, PutParent, PutChild
<1> QED BY <1>14, <1>15

ForgottenIs(v, t) ==
  /\ v \in Tree /\ Top(v) = Top(t) /\ Keys(v) = Keys(t)
  /\ \A a \in Ptr : /\ \A z \in Side : Kid(v, z, a) = Kid(t, z, a)
                    /\ Weight(v, a) = Weight(t, a) /\ (a # Top(t) /\ a # Sentinel => Dad(v, a) = Dad(t, a))

LEMMA Forgets ==
  ASSUME NEW t \in Tree
  PROVE  ForgottenIs(Forgotten(t), t)
<1>1. Sentinel \in Ptr /\ Top(t) \in Ptr
  BY Fields DEF Ptr
<1>2. ParentIs(PutParent(t, Top(t), Sentinel), t, Top(t), Sentinel)
  BY <1>1, ParentPut
<1>3. PutParent(t, Top(t), Sentinel) \in Tree
  BY <1>2 DEF ParentIs
<1>4. ParentIs(PutParent(PutParent(t, Top(t), Sentinel), Sentinel, Sentinel), PutParent(t, Top(t), Sentinel), Sentinel, Sentinel)
  BY <1>1, <1>3, ParentPut
<1>5. ForgottenIs(PutParent(PutParent(t, Top(t), Sentinel), Sentinel, Sentinel), t)
  BY <1>2, <1>4 DEF ParentIs, ForgottenIs
<1>6. PutParent(PutParent(t, Top(t), Sentinel), Sentinel, Sentinel) = Forgotten(t)
  BY DEF PutParent, Forgotten, Top
<1> QED BY <1>5, <1>6

(* Nodes below and the sentinel have the fields they had.                  *)
FieldsKept(v, t, u) ==
  /\ LinksKept(v, t, u) /\ Weight(v, Sentinel) = Weight(t, Sentinel)
  /\ \A a \in All(t, u) : Weight(v, a) = Weight(t, a)

LEMMA KeptFields ==
  ASSUME NEW t, NEW u, Shape(t, u), NEW v, FieldsKept(v, t, u)
  PROVE  /\ Shape(v, u) /\ All(v, u) = All(t, u) /\ \A d : Order(t, u, d) => Order(v, u, d)
         /\ \A h, s, p : Level(t, u, h, s, p) => Level(v, u, h, s, p)
         /\ \A x : RedRule(t, u, x, x) => RedRule(v, u, x, x)
         /\ Weight(v, Top(v)) = Weight(t, Top(t)) /\ Top(v) = Top(t)
<1>1. LinksKept(v, t, u) /\ Weight(v, Sentinel) = Weight(t, Sentinel) /\ \A a \in All(t, u) : Weight(v, a) = Weight(t, a)
  BY DEF FieldsKept
<1>2. Shape(v, u) /\ All(v, u) = All(t, u) /\ \A d : Order(t, u, d) => Order(v, u, d)
  BY <1>1, LinksShape, LinksOrder
<1>3. Top(v) = Top(t) /\ \A a \in All(t, u), z \in Side : Kid(v, z, a) = Kid(t, z, a) /\ (Kid(t, z, a) # Sentinel => Kid(t, z, a) \in All(t, u))
  BY <1>1 DEF LinksKept, Shape, Down
<1>4. ASSUME NEW h, NEW s, NEW p, Level(t, u, h, s, p) PROVE Level(v, u, h, s, p)
  BY <1>1, <1>2, <1>3, <1>4 DEF Level, LevelAt
<1>5. ASSUME NEW x, RedRule(t, u, x, x) PROVE RedRule(v, u, x, x)
  <2>1. \A a \in All(t, u), z \in Side : Weight(v, a) = Weight(t, a) /\ Weight(v, Kid(v, z, a)) = Weight(t, Kid(t, z, a)) /\ Kid(v, z, a) = Kid(t, z, a)
    BY <1>1, <1>3
  <2> QED BY <1>1, <1>2, <1>5, <2>1 DEF RedRule
<1>6. Weight(v, Top(v)) = Weight(t, Top(t))
  BY <1>1, <1>3 DEF Shape
<1> QED BY <1>2, <1>3, <1>4, <1>5, <1>6

LEMMA KeptTree ==
  ASSUME NEW t, NEW u, NEW h, NEW d, NEW T, NEW kk, TreeWith(t, u, h, d, T, kk), NEW v, FieldsKept(v, t, u)
  PROVE  TreeWith(v, u, h, d, T, Keys(v))
BY KeptFields DEF TreeWith, Sound

LEMMA TornCleared ==
  ASSUME NEW t, NEW d, NEW T, NEW kk, NEW x, NEW r, Torn(t, d, T, kk, x, r), NEW n \in Node, n \notin T,
         NEW v, v = Cleared(t, n)
  PROVE  Torn(v, d, T, [kk EXCEPT ![n] = 0], x, r) /\ v \in Tree
<1>1. n \in Ptr /\ n # Sentinel /\ Sentinel \in Ptr
  BY RbTreeAssumption DEF Ptr
<1>2. ASSUME NEW u, Shape(t, u), All(t, u) = T, Keys(t) = kk
      PROVE  FieldsKept(v, t, u) /\ v \in Tree /\ Keys(v) = [kk EXCEPT ![n] = 0] /\ (\A a \in Ptr : a # n => Dad(v, a) = Dad(t, a))
             /\ \A a \in Ptr : a # n => \A z \in Side : Kid(v, z, a) = Kid(t, z, a)
  <2>1. t \in Tree /\ \A a \in All(t, u) : a \in Ptr /\ a # n
    BY <1>2, ShapeFacts DEF NodeFacts
  <2>2. ClearedIs(v, t, n)
    BY <1>1, <2>1, Clears
  <2> QED BY <1>1, <1>2, <2>1, <2>2 DEF ClearedIs, FieldsKept, LinksKept
<1>3. CASE r = 0
  <2>1. PICK u, h : TreeWith(t, u, h, d, T, kk)
    BY <1>3 DEF Torn
  <2>2. Shape(t, u) /\ All(t, u) = T /\ Keys(t) = kk
    BY <2>1 DEF TreeWith, Sound
  <2>3. TreeWith(v, u, h, d, T, [kk EXCEPT ![n] = 0]) /\ v \in Tree
    BY <1>2, <2>1, <2>2, KeptTree
  <2> QED BY <1>3, <2>3 DEF Torn
<1>4. CASE r = 1
  <2>1. PICK u, h, s, p : Holed(t, u, h, s, p, x) /\ Order(t, u, d) /\ All(t, u) = T /\ Keys(t) = kk
    BY <1>4 DEF Torn
  <2>2. Shape(t, u) /\ Level(t, u, h, s, p) /\ RedRule(t, u, x, x) /\ Top(t) # Sentinel /\ s \in Side
    BY <2>1 DEF Holed
  <2>3. /\ FieldsKept(v, t, u) /\ v \in Tree /\ Keys(v) = [kk EXCEPT ![n] = 0] /\ (\A a \in Ptr : a # n => Dad(v, a) = Dad(t, a))
        /\ \A a \in Ptr : a # n => \A z \in Side : Kid(v, z, a) = Kid(t, z, a)
    BY <1>2, <2>1, <2>2
  <2>4. /\ Shape(v, u) /\ All(v, u) = All(t, u) /\ Order(v, u, d) /\ Level(v, u, h, s, p) /\ RedRule(v, u, x, x)
        /\ Weight(v, Top(v)) = Weight(t, Top(t)) /\ Top(v) = Top(t)
    BY <2>1, <2>2, <2>3, KeptFields
  <2>5. ASSUME p \in All(t, u), Kid(t, s, p) = x, Dad(t, x) = p, Weight(t, Top(t)) = 1
        PROVE  p \in All(v, u) /\ Kid(v, s, p) = x /\ Dad(v, x) = p /\ Weight(v, Top(v)) = 1
    <3>1. p \in Ptr /\ p # n
      BY <2>1, <2>2, <2>5, ShapeFacts DEF NodeFacts
    <3>2. x \in Ptr /\ x # n
      BY <1>1, <2>1, <2>2, <2>5, ShapeFacts DEF Shape, Down, NodeFacts
    <3> QED BY <2>2, <2>3, <2>4, <2>5, <3>1, <3>2
  <2>6. Holed(v, u, h, s, p, x)
    BY <2>1, <2>2, <2>4, <2>5 DEF Holed
  <2> QED BY <1>4, <2>1, <2>3, <2>4, <2>6 DEF Torn
<1> QED BY <1>3, <1>4 DEF Torn

LEMMA TreeForgotten ==
  ASSUME NEW t, NEW d, NEW T, NEW kk, IsTree(t, d, T, kk), NEW v, v = Forgotten(t)
  PROVE  IsTree(v, d, T, kk)
<1>1. PICK u, h : TreeWith(t, u, h, d, T, kk)
  BY DEF IsTree
<1>2. Shape(t, u) /\ Keys(t) = kk
  BY <1>1 DEF TreeWith, Sound
<1>3. t \in Tree /\ \A a \in All(t, u) : a \in Ptr /\ a # Sentinel
  BY <1>2, ShapeFacts DEF NodeFacts
<1>4. ForgottenIs(v, t)
  BY <1>3, Forgets
<1>5. Sentinel \in Ptr
  BY DEF Ptr
<1>6. FieldsKept(v, t, u) /\ Keys(v) = kk
  BY <1>2, <1>3, <1>4, <1>5 DEF ForgottenIs, FieldsKept, LinksKept
<1> QED BY <1>1, <1>6, KeptTree DEF IsTree

-------------------------------------------------------------------------------
(* ngx_rbtree_delete(), read through the names of the fields.              *)
DeleteEnd(t, v, n, m, x) == Forgotten(IF Weight(t, m) = 0 THEN Cleared(v, n) ELSE DeleteFixup(Cleared(v, n), x))

LEMMA DeleteBoth ==
  ASSUME NEW t \in Tree, NEW n \in Ptr, NEW m \in Ptr, Kid(t, "left", n) # Sentinel, Kid(t, "right", n) # Sentinel,
         m = MinFrom(t, Kid(t, "right", n)), m # n, m # Top(t), Kid(t, "left", m) = Sentinel,
         NEW x, x = Kid(t, "right", m), NEW s, s = SideOf(t, m), NEW p, p = Dad(t, m), NEW pp, pp = IF p = n THEN m ELSE p,
         NEW e, e = PutParent(PutChild(t, s, p, x), x, pp), NEW v, v = Substituted(e, m, n)
  PROVE  Delete(t, n) = DeleteEnd(t, v, n, m, x)
<1>1. t.red[m] <=> Weight(t, m) = 0
  BY IsBlack
<1>2. t.child["left"][n] # Sentinel /\ t.child["right"][n] # Sentinel /\ m = MinFrom(t, t.child["right"][n]) /\ m # t.root
      /\ t.child["left"][m] = Sentinel /\ x = t.child["right"][m] /\ s = SideOf(t, m) /\ p = t.parent[m]
  BY DEF Kid, Top, Dad
<1> DEFINE both  == t.child["left"][n] # Sentinel /\ t.child["right"][n] # Sentinel
           subst == IF both THEN MinFrom(t, t.child["right"][n]) ELSE n
           temp  == IF t.child["left"][subst] # Sentinel THEN t.child["left"][subst] ELSE t.child["right"][subst]
           out   == [t EXCEPT !.child[SideOf(t, subst)][t.parent[subst]] = temp]
           gone  == IF subst = n THEN [out EXCEPT !.parent[temp] = out.parent[subst]]
                    ELSE Substituted([out EXCEPT !.parent[temp] = IF t.parent[subst] = n THEN subst
                                                                  ELSE t.parent[subst]], subst, n)
           root  == [t EXCEPT !.root = temp, !.red[temp] = FALSE]
<1>3. Delete(t, n) = Forgotten(IF subst = t.root THEN Cleared(root, n)
                               ELSE IF t.red[subst] THEN Cleared(gone, n)
                               ELSE DeleteFixup(Cleared(gone, n), temp))
  BY DEF Delete
<1> HIDE DEF root
<1>4. subst = m
  BY <1>2
<1> HIDE DEF both, subst
<1>5. temp = x
  BY <1>2, <1>4
<1> HIDE DEF temp
<1>6. out = PutChild(t, s, p, x)
  BY <1>2, <1>4, <1>5 DEF PutChild
<1> HIDE DEF out
<1>7. gone = v
  <2>1. [out EXCEPT !.parent[temp] = IF t.parent[subst] = n THEN subst ELSE t.parent[subst]] = e
    BY <1>2, <1>4, <1>5, <1>6 DEF PutParent
  <2> QED BY <1>4, <2>1
<1> HIDE DEF gone
<1> QED BY <1>1, <1>2, <1>3, <1>4, <1>5, <1>7 DEF DeleteEnd

LEMMA DeleteOne ==
  ASSUME NEW t \in Tree, NEW n \in Ptr, Kid(t, "left", n) = Sentinel \/ Kid(t, "right", n) = Sentinel, n # Top(t),
         NEW x, x = IF Kid(t, "left", n) # Sentinel THEN Kid(t, "left", n) ELSE Kid(t, "right", n),
         NEW v, v = Spliced(t, SideOf(t, n), Dad(t, n), x)
  PROVE  Delete(t, n) = DeleteEnd(t, v, n, n, x)
<1>1. t.red[n] <=> Weight(t, n) = 0
  BY IsBlack
<1>2. (t.child["left"][n] = Sentinel \/ t.child["right"][n] = Sentinel) /\ n # t.root
      /\ x = IF t.child["left"][n] # Sentinel THEN t.child["left"][n] ELSE t.child["right"][n]
  BY DEF Kid, Top
<1> DEFINE both  == t.child["left"][n] # Sentinel /\ t.child["right"][n] # Sentinel
           subst == IF both THEN MinFrom(t, t.child["right"][n]) ELSE n
           temp  == IF t.child["left"][subst] # Sentinel THEN t.child["left"][subst] ELSE t.child["right"][subst]
           out   == [t EXCEPT !.child[SideOf(t, subst)][t.parent[subst]] = temp]
           gone  == IF subst = n THEN [out EXCEPT !.parent[temp] = out.parent[subst]]
                    ELSE Substituted([out EXCEPT !.parent[temp] = IF t.parent[subst] = n THEN subst
                                                                  ELSE t.parent[subst]], subst, n)
           root  == [t EXCEPT !.root = temp, !.red[temp] = FALSE]
<1>3. Delete(t, n) = Forgotten(IF subst = t.root THEN Cleared(root, n)
                               ELSE IF t.red[subst] THEN Cleared(gone, n)
                               ELSE DeleteFixup(Cleared(gone, n), temp))
  BY DEF Delete
<1> HIDE DEF root
<1>4. subst = n
  BY <1>2
<1> HIDE DEF both, subst
<1>5. temp = x
  BY <1>2, <1>4
<1> HIDE DEF temp
<1>6. out = PutChild(t, SideOf(t, n), Dad(t, n), x)
  BY <1>4, <1>5 DEF PutChild, Dad
<1>7. out.parent = t.parent
  OBVIOUS
<1> HIDE DEF out
<1>8. gone = v
  <2>1. gone = [out EXCEPT !.parent[temp] = out.parent[subst]]
    BY <1>4
  <2>2. out.parent[subst] = Dad(t, n)
    BY <1>4, <1>7 DEF Dad
  <2> QED BY <1>5, <1>6, <2>1, <2>2 DEF Spliced, PutParent
<1> HIDE DEF gone
<1> QED BY <1>1, <1>2, <1>3, <1>4, <1>5, <1>8 DEF DeleteEnd

LEMMA DeleteTop ==
  ASSUME NEW t \in Tree, NEW n \in Ptr, Kid(t, "left", n) = Sentinel \/ Kid(t, "right", n) = Sentinel, n = Top(t),
         NEW x, x = IF Kid(t, "left", n) # Sentinel THEN Kid(t, "left", n) ELSE Kid(t, "right", n),
         NEW v, v = Blackened(PutRoot(t, x), x)
  PROVE  Delete(t, n) = Forgotten(Cleared(v, n))
<1>1. (t.child["left"][n] = Sentinel \/ t.child["right"][n] = Sentinel) /\ n = t.root
      /\ x = IF t.child["left"][n] # Sentinel THEN t.child["left"][n] ELSE t.child["right"][n]
  BY DEF Kid, Top
<1>2. v = [t EXCEPT !.root = x, !.red[x] = FALSE]
  BY DEF Blackened, Painted, PutRoot
<1> QED BY <1>1, <1>2 DEF Delete

(* What ngx_rbtree_delete() does in the end.                               *)
LEMMA DeleteEnded ==
  ASSUME NEW t, NEW n \in Node, NEW m, NEW x, NEW d \in Ranks, NEW T, n \notin T, NEW kk, NEW v, Torn(v, d, T, kk, x, Weight(t, m))
  PROVE  IsTree(DeleteEnd(t, v, n, m, x), d, T, [kk EXCEPT ![n] = 0])
<1> DEFINE k2 == [kk EXCEPT ![n] = 0]
           c == Cleared(v, n)
<1>1. Torn(c, d, T, k2, x, Weight(t, m))
  BY TornCleared
<1> HIDE DEF c, k2
<1>2. CASE Weight(t, m) = 0
  <2>1. IsTree(c, d, T, k2)
    BY <1>1, <1>2 DEF Torn, IsTree
  <2>2. DeleteEnd(t, v, n, m, x) = Forgotten(c)
    BY <1>2 DEF DeleteEnd, c
  <2> QED BY <2>1, <2>2, TreeForgotten DEF k2
<1>3. CASE Weight(t, m) = 1
  <2>1. PICK w, k, s, p : Holed(c, w, k, s, p, x) /\ Order(c, w, d) /\ All(c, w) = T /\ Keys(c) = k2
    BY <1>1, <1>3 DEF Torn
  <2>2. IsTree(DeleteFixup(c, x), d, T, k2)
    BY <2>1, FixupTree
  <2>3. DeleteEnd(t, v, n, m, x) = Forgotten(DeleteFixup(c, x))
    BY <1>3 DEF DeleteEnd, c
  <2> QED BY <2>2, <2>3, TreeForgotten DEF k2
<1> QED BY <1>2, <1>3 DEF Weight

LEMMA DeletedBoth ==
  ASSUME NEW t, NEW u, NEW h, NEW d \in Ranks, NEW T, NEW kk, TreeWith(t, u, h, d, T, kk), NEW n \in T,
         Kid(t, "left", n) # Sentinel, Kid(t, "right", n) # Sentinel
  PROVE  IsTree(Delete(t, n), d, T \ {n}, [kk EXCEPT ![n] = 0])
<1> DEFINE m == MinFrom(t, Kid(t, "right", n))
           x == Kid(t, "right", m)
           s == SideOf(t, m)
           p == Dad(t, m)
           pp == IF p = n THEN m ELSE p
           e == PutParent(PutChild(t, s, p, x), x, pp)
           v == Substituted(e, m, n)
<1>1. Sound(t, u, h) /\ Shape(t, u) /\ Order(t, u, d) /\ All(t, u) = T /\ Keys(t) = kk
  BY DEF TreeWith, Sound
<1>2. Exchange(t, u, d, n, m)
  BY <1>1 DEF Exchange
<1> HIDE DEF m
<1>3. m # n /\ m # Top(t) /\ n \in Node /\ n \in Ptr /\ m \in Ptr /\ Kid(t, "left", m) = Sentinel
  BY <1>2, Exchanges DEF ExchangeFacts
<1>4. t \in Tree
  BY <1>1 DEF Shape
<1> HIDE DEF x, s, p, pp, e, v
<1>5. Torn(v, d, T \ {n}, kk, x, Weight(t, m))
  BY <1>1, <1>2, Exchanged DEF x, s, p, pp, e, v
<1>6. Delete(t, n) = DeleteEnd(t, v, n, m, x)
  BY <1>3, <1>4, DeleteBoth DEF m, x, s, p, pp, e, v
<1> QED BY <1>3, <1>5, <1>6, DeleteEnded

LEMMA DeletedOne ==
  ASSUME NEW t, NEW u, NEW h, NEW d \in Ranks, NEW T, NEW kk, TreeWith(t, u, h, d, T, kk), NEW n \in T,
         Kid(t, "left", n) = Sentinel \/ Kid(t, "right", n) = Sentinel, n # Top(t)
  PROVE  IsTree(Delete(t, n), d, T \ {n}, [kk EXCEPT ![n] = 0])
<1> DEFINE q == IF Kid(t, "left", n) # Sentinel THEN "right" ELSE "left"
           x == IF Kid(t, "left", n) # Sentinel THEN Kid(t, "left", n) ELSE Kid(t, "right", n)
           s == SideOf(t, n)
           p == Dad(t, n)
           v == Spliced(t, s, p, x)
<1>1. Sound(t, u, h) /\ Shape(t, u) /\ Order(t, u, d) /\ All(t, u) = T /\ Keys(t) = kk
  BY DEF TreeWith, Sound
<1>2. t \in Tree /\ u \in Subs /\ n \in Node /\ n \in Ptr /\ Upward(t, u)
  BY <1>1, ShapeFacts DEF NodeFacts, Shape
<1>3. x = Kid(t, Other(q), n) /\ Kid(t, q, n) = Sentinel /\ q \in Side
  BY Sides
<1>4. Kid(t, s, p) = n /\ s \in Side
  BY <1>1, <1>2, Sides DEF Upward
<1> HIDE DEF q, x, s, p, v
<1>5. Splice(t, u, n, q, x, s, p)
  BY <1>1, <1>3, <1>4 DEF Splice, p
<1>6. PICK w : ShrunkIs(w, u, n)
  BY <1>2, Shrunk
<1>7. p \in Ptr /\ x \in Ptr /\ Weight(t, n) \in {0, 1}
  BY <1>2, <1>3, Fields, Sides DEF p
<1>8. SplicedIs(v, t, s, p, x)
  BY <1>2, <1>4, <1>7, Splices DEF v
<1>9. Order(v, w, d)
  BY <1>1, <1>5, <1>6, <1>8, SplicedOrder
<1>10. All(v, w) = T \ {n}
  <2>1. \A b : b \in All(v, w) <=> b \in All(t, u) /\ b # n
    BY <1>5, <1>6, <1>8, SplicingFacts DEF SpliceFacts
  <2> QED BY <1>1, <2>1
<1>11. Keys(v) = kk
  BY <1>1, <1>8 DEF SplicedIs
<1>12. Torn(v, d, T \ {n}, kk, x, Weight(t, n))
  <2>1. CASE Weight(t, n) = 0
    <3>1. Sound(v, w, h)
      BY <1>1, <1>5, <1>6, <1>8, <2>1, SplicedRed
    <3> QED BY <1>9, <1>10, <1>11, <2>1, <3>1 DEF Torn, TreeWith
  <2>2. CASE Weight(t, n) = 1
    <3>1. Holed(v, w, h, s, p, x)
      BY <1>1, <1>5, <1>6, <1>8, <2>2, SplicedBlack
    <3> QED BY <1>9, <1>10, <1>11, <2>2, <3>1 DEF Torn
  <2> QED BY <1>7, <2>1, <2>2
<1>13. Delete(t, n) = DeleteEnd(t, v, n, n, x)
  BY <1>2, DeleteOne DEF x, s, p, v
<1> QED BY <1>2, <1>12, <1>13, DeleteEnded

-------------------------------------------------------------------------------
(* The only child x of the root becomes the root.                          *)
LEMMA LoweredShape ==
  ASSUME NEW t, NEW u, Shape(t, u), NEW x \in Ptr, x = Sentinel \/ x \in All(t, u), NEW v, RootIs(v, t, x)
  PROVE  Shape(v, u) /\ All(v, u) = Sub(u, x) /\ \A b \in All(v, u) : b \in All(t, u)
<1>1. /\ t \in Tree /\ u \in Subs /\ (\A a \in All(t, u) : NodeFacts(t, u, a)) /\ Down(t, u) /\ Parts(t, u) /\ Nested(t, u) /\ Upward(t, u)
      /\ \A b : b \notin Sub(u, Sentinel)
  BY ShapeFacts DEF Shape
<1>2. v \in Tree /\ Top(v) = x /\ All(v, u) = Sub(u, x)
  BY DEF RootIs, All
<1>3. \A b \in Sub(u, x) : b \in All(t, u) /\ b \in Ptr
  BY <1>1 DEF NodeFacts
<1>4. \A b \in Sub(u, x) : x \in All(t, u) /\ \A c \in Sub(u, b) : c \in Sub(u, x)
  BY <1>1 DEF Nested
<1>5. /\ \A z \in Side, a \in Ptr : Kid(v, z, a) = Kid(t, z, a)
      /\ \A a \in Ptr : Dad(v, a) = Dad(t, a)
  BY DEF RootIs
<1>6. Down(v, u)
  <2>1. ASSUME NEW a \in Sub(u, x), NEW z \in Side, Kid(v, z, a) # Sentinel
        PROVE  Kid(v, z, a) \in Sub(u, x) /\ Dad(v, Kid(v, z, a)) = a /\ Kid(v, z, a) \in Sub(u, Kid(v, z, a))
    <3>1. a \in All(t, u) /\ Kid(v, z, a) = Kid(t, z, a)
      BY <1>3, <1>5
    <3>2. Kid(t, z, a) \in All(t, u) /\ Dad(t, Kid(t, z, a)) = a /\ Kid(t, z, a) \in Sub(u, Kid(t, z, a)) /\ Kid(t, z, a) \in Sub(u, a)
      BY <1>1, <2>1, <3>1 DEF Down, NodeFacts
    <3>3. Kid(t, z, a) \in Ptr
      BY <1>1, <3>2 DEF NodeFacts
    <3> QED BY <1>4, <1>5, <3>1, <3>2, <3>3
  <2> QED BY <1>2, <2>1 DEF Down
<1>7. Parts(v, u)
  <2>1. \A a \in All(v, u), z \in Side : a \in All(t, u) /\ Kid(v, z, a) = Kid(t, z, a) /\ Kid(v, Other(z), a) = Kid(t, Other(z), a)
    BY <1>2, <1>3, <1>5, Sides
  <2> QED BY <1>1, <2>1 DEF Parts
<1>8. Nested(v, u)
  <2>1. ASSUME NEW a \in All(v, u), NEW b \in Sub(u, a) PROVE (\A c \in Sub(u, b) : c \in Sub(u, a)) /\ (b # a => Dad(v, b) \in Sub(u, a))
    <3>1. a \in All(t, u) /\ b \in Sub(u, x)
      BY <1>2, <1>3, <1>4
    <3>2. b \in Ptr
      BY <1>3, <3>1
    <3> QED BY <1>1, <1>5, <3>1, <3>2 DEF Nested
  <2> QED BY <2>1 DEF Nested
<1>9. Upward(v, u)
  <2>1. ASSUME NEW a \in Sub(u, x), a # x PROVE Dad(v, a) \in Sub(u, x) /\ Kid(v, SideOf(v, a), Dad(v, a)) = a
    <3>1. x \in All(t, u) /\ a \in All(t, u) /\ a \in Ptr
      BY <1>3, <1>4
    <3>2. a # Top(t)
      BY <1>1, <2>1, <3>1 DEF NodeFacts
    <3>3. Dad(t, a) \in Sub(u, x) /\ Kid(t, SideOf(t, a), Dad(t, a)) = a /\ SideOf(t, a) \in Side
      BY <1>1, <2>1, <3>1, <3>2, Sides DEF Nested, Upward
    <3>4. Dad(v, a) = Dad(t, a) /\ Dad(t, a) \in Ptr
      BY <1>1, <1>5, <3>1, Fields
    <3>5. Kid(v, SideOf(t, a), Dad(v, a)) = a
      BY <1>5, <3>3, <3>4
    <3> QED BY <1>2, <3>1, <3>3, <3>4, <3>5, Fields
  <2> QED BY <1>2, <2>1 DEF Upward
<1>10. Top(v) # Sentinel => Top(v) \in All(v, u)
  BY <1>1, <1>2 DEF NodeFacts
<1> QED BY <1>1, <1>2, <1>3, <1>6, <1>7, <1>8, <1>9, <1>10 DEF Shape

LEMMA LoweredTree ==
  ASSUME NEW t, NEW u, NEW h, Sound(t, u, h), NEW d, Order(t, u, d), NEW x \in Ptr, x = Sentinel \/ x \in All(t, u),
         NEW v, v = Blackened(PutRoot(t, x), x)
  PROVE  \E k : TreeWith(v, u, k, d, Sub(u, x), Keys(t))
<1> DEFINE c == PutRoot(t, x)
<1>1. Shape(t, u) /\ Level(t, u, h, "left", Sentinel) /\ RedRule(t, u, Sentinel, Sentinel)
  BY DEF Sound
<1>2. t \in Tree
  BY <1>1 DEF Shape
<1>3. RootIs(c, t, x)
  BY <1>2, RootPut
<1> HIDE DEF c
<1>4. Shape(c, u) /\ All(c, u) = Sub(u, x) /\ \A b \in All(c, u) : b \in All(t, u)
  BY <1>1, <1>3, LoweredShape
<1>5. \A a \in All(c, u) : a \in Ptr /\ a \in All(t, u)
  BY <1>4, ShapeFacts DEF NodeFacts
<1>6. /\ \A a \in All(c, u), z \in Side : Kid(c, z, a) = Kid(t, z, a) /\ Kid(t, z, a) \in Ptr
      /\ \A a \in Ptr : Weight(c, a) = Weight(t, a)
      /\ Top(c) = x /\ Keys(c) = Keys(t) /\ Sentinel \in Ptr
  BY <1>2, <1>3, <1>5, Fields DEF RootIs, Ptr
<1>7. Level(c, u, h, "left", Sentinel)
  BY <1>1, <1>5, <1>6 DEF Level, LevelAt
<1>8. Order(c, u, d)
  BY <1>5, <1>6 DEF Order
<1>9. RedRule(c, u, x, x) /\ RedRule(c, u, Sentinel, Sentinel)
  <2>1. Weight(c, Sentinel) = 1
    BY <1>1, <1>6 DEF RedRule
  <2>2. \A a \in All(c, u), z \in Side : ~(Weight(c, a) = 0 /\ Weight(c, Kid(c, z, a)) = 0)
    <3>1. ASSUME NEW a \in All(c, u), NEW z \in Side, Weight(c, a) = 0, Weight(c, Kid(c, z, a)) = 0 PROVE FALSE
      <4>1. Weight(t, a) = 0 /\ Weight(t, Kid(t, z, a)) = 0 /\ a \in All(t, u)
        BY <1>5, <1>6, <3>1
      <4>2. Kid(t, z, a) = Sentinel \/ a = Sentinel
        BY <1>1, <4>1 DEF RedRule
      <4> QED BY <1>1, <4>1, <4>2 DEF RedRule
    <3> QED BY <3>1
  <2> QED BY <2>1, <2>2 DEF RedRule
<1>10. CASE x # Sentinel
  BY <1>4, <1>6, <1>7, <1>8, <1>9, <1>10, Crowned DEF c
<1>11. CASE x = Sentinel
  <2>1. WeightIs(v, c, x, 1) /\ c \in Tree
    BY <1>3, <1>6, WeightPut DEF RootIs, c
  <2>2. \A a \in Ptr : Weight(v, a) = Weight(c, a)
    BY <1>6, <1>9, <1>11, <2>1 DEF WeightIs, RedRule
  <2>3. LinksKept(v, c, u)
    BY <1>4, <2>1, PaintedLinks
  <2>4. FieldsKept(v, c, u)
    BY <1>5, <1>6, <2>2, <2>3 DEF FieldsKept
  <2>5. Keys(v) = Keys(t)
    BY <1>6, <2>1 DEF WeightIs
  <2>6. Weight(c, Top(c)) = 1
    BY <1>6, <1>9, <1>11 DEF RedRule
  <2>7. TreeWith(c, u, h, d, Sub(u, x), Keys(c))
    BY <1>4, <1>7, <1>8, <1>9, <2>6 DEF TreeWith, Sound
  <2>8. TreeWith(v, u, h, d, Sub(u, x), Keys(v))
    BY <2>4, <2>7, KeptTree
  <2> QED BY <2>5, <2>8
<1> QED BY <1>10, <1>11

LEMMA DeletedTop ==
  ASSUME NEW t, NEW u, NEW h, NEW d \in Ranks, NEW T, NEW kk, TreeWith(t, u, h, d, T, kk), NEW n \in T,
         Kid(t, "left", n) = Sentinel \/ Kid(t, "right", n) = Sentinel, n = Top(t)
  PROVE  IsTree(Delete(t, n), d, T \ {n}, [kk EXCEPT ![n] = 0])
<1> DEFINE x == IF Kid(t, "left", n) # Sentinel THEN Kid(t, "left", n) ELSE Kid(t, "right", n)
           v == Blackened(PutRoot(t, x), x)
<1>1. Sound(t, u, h) /\ Shape(t, u) /\ Order(t, u, d) /\ All(t, u) = T /\ Keys(t) = kk
  BY DEF TreeWith, Sound
<1>2. t \in Tree /\ n \in Node /\ n \in Ptr /\ Down(t, u) /\ Parts(t, u) /\ \A b : b \notin Sub(u, Sentinel)
  BY <1>1, ShapeFacts DEF NodeFacts, Shape
<1>3. x \in Ptr /\ (x = Sentinel \/ x \in All(t, u))
  BY <1>1, <1>2, Fields, Sides DEF Down
<1>4. /\ \A b : b \in Sub(u, n) <=> b = n \/ b \in Sub(u, Kid(t, "left", n)) \/ b \in Sub(u, Kid(t, "right", n))
      /\ n \notin Sub(u, Kid(t, "left", n)) /\ n \notin Sub(u, Kid(t, "right", n))
  BY <1>1, <1>2, Sides DEF Parts
<1>5. Sub(u, x) = T \ {n}
  <2>1. \A b : b \in Sub(u, x) <=> b \in Sub(u, n) /\ b # n
    BY <1>2, <1>4
  <2> QED BY <1>1, <2>1 DEF All
<1>6. Delete(t, n) = Forgotten(Cleared(v, n))
  BY <1>2, DeleteTop
<1> HIDE DEF x
<1>12. v = Blackened(PutRoot(t, x), x)
  OBVIOUS
<1> HIDE DEF v
<1>13. \E k : TreeWith(v, u, k, d, Sub(u, x), Keys(t))
  BY <1>1, <1>3, <1>12, LoweredTree
<1>7. PICK k : TreeWith(v, u, k, d, T \ {n}, kk)
  BY <1>1, <1>5, <1>13
<1>8. Torn(v, d, T \ {n}, kk, n, 0)
  BY <1>7 DEF Torn
<1>9. Torn(Cleared(v, n), d, T \ {n}, [kk EXCEPT ![n] = 0], n, 0)
  BY <1>2, <1>8, TornCleared
<1>14. \A c, S, k2 : Torn(c, d, S, k2, n, 0) => IsTree(c, d, S, k2)
  BY DEF Torn, IsTree
<1>10. IsTree(Cleared(v, n), d, T \ {n}, [kk EXCEPT ![n] = 0])
  BY <1>9, <1>14
<1> QED BY <1>6, <1>10, TreeForgotten

(* ngx_rbtree_delete().                                                    *)
LEMMA Deleted ==
  ASSUME NEW t, NEW d \in Ranks, NEW T, NEW kk, IsTree(t, d, T, kk), NEW n \in T
  PROVE  IsTree(Delete(t, n), d, T \ {n}, [kk EXCEPT ![n] = 0])
<1>1. PICK u, h : TreeWith(t, u, h, d, T, kk)
  BY DEF IsTree
<1> QED BY <1>1, DeletedBoth, DeletedOne, DeletedTop

-------------------------------------------------------------------------------
(* What holds of a node and is handed down to the children holds of all    *)
(* that is below it.                                                       *)
LEMMA HandedDown ==
  ASSUME NEW t, NEW u, Shape(t, u), NEW m \in All(t, u), NEW P, m \in P,
         \A b \in Sub(u, m) : b # m /\ Dad(t, b) \in P => b \in P
  PROVE  \A b \in Sub(u, m) : b \in P
<1> DEFINE S == {k \in 0 .. Size : \A b \in Sub(u, m) : Count(u, b) >= Size - k => b \in P}
<1>1. u \in Subs /\ Nested(t, u) /\ (\A a \in All(t, u) : NodeFacts(t, u, a)) /\ Size \in Nat
  BY ShapeFacts, SizeType DEF Shape
<1>2. \A b \in Sub(u, m) : b \in All(t, u) /\ b \in Ptr /\ Count(u, b) \in 0 .. Size
  BY <1>1, CountFacts DEF NodeFacts
<1>3. ASSUME NEW b \in Sub(u, m), b # m PROVE Dad(t, b) \in Sub(u, m) /\ Count(u, b) < Count(u, Dad(t, b))
  <2>1. Dad(t, b) \in Sub(u, m)
    BY <1>1, <1>3 DEF Nested
  <2>2. Dad(t, b) \in All(t, u) /\ b # Top(t)
    BY <1>1, <1>3, <2>1 DEF NodeFacts
  <2>3. Dad(t, b) \notin Sub(u, b) /\ (\A c \in Sub(u, b) : c \in Sub(u, Dad(t, b))) /\ Dad(t, b) \in Sub(u, Dad(t, b)) /\ Dad(t, b) \in Ptr
    BY <1>1, <1>2, <1>3, <2>2 DEF NodeFacts
  <2> QED BY <1>1, <1>2, <1>3, <2>1, <2>3, CountFacts
<1>4. 0 \in S
  <2>1. ASSUME NEW b \in Sub(u, m), Count(u, b) >= Size - 0 PROVE b \in P
    <3>1. CASE b = m
      BY <3>1
    <3>2. CASE b # m
      BY <1>1, <1>2, <1>3, <2>1, <3>2
    <3> QED BY <3>1, <3>2
  <2> QED BY <1>1, <2>1
<1>5. ASSUME NEW k \in 0 .. Size - 1, k \in S PROVE k + 1 \in S
  <2>1. \A b \in Sub(u, m) : Count(u, b) >= Size - k => b \in P
    BY <1>5
  <2>2. ASSUME NEW b \in Sub(u, m), Count(u, b) >= Size - (k + 1) PROVE b \in P
    <3>1. CASE b = m
      BY <3>1
    <3>2. CASE b # m
      <4>1. Dad(t, b) \in Sub(u, m) /\ Count(u, Dad(t, b)) >= Size - k
        BY <1>1, <1>2, <1>3, <2>2, <3>2
      <4> QED BY <2>1, <3>2, <4>1
    <3> QED BY <3>1, <3>2
  <2> QED BY <1>1, <2>2
<1> HIDE DEF S
<1>6. Size \in S
  BY <1>1, <1>4, <1>5, Steps
<1> QED BY <1>1, <1>2, <1>6 DEF S

(* Of two nodes with a common node below them one is below the other.      *)
LEMMA Laminar ==
  ASSUME NEW t, NEW u, Shape(t, u), NEW m \in All(t, u), NEW k \in All(t, u), NEW r \in Sub(u, m), r \in Sub(u, k)
  PROVE  m \in Sub(u, k) \/ k \in Sub(u, m)
<1> SUFFICES ASSUME k \notin Sub(u, m) PROVE m \in Sub(u, k)
  OBVIOUS
<1> DEFINE P == {b \in Sub(u, m) : b \in Sub(u, k) => m \in Sub(u, k)}
<1>1. Nested(t, u) /\ m \in Sub(u, m)
  BY ShapeFacts DEF Shape, NodeFacts
<1>2. ASSUME NEW b \in Sub(u, m), b # m, Dad(t, b) \in P PROVE b \in P
  BY <1>1, <1>2 DEF Nested
<1>3. m \in P
  BY <1>1
<1> HIDE DEF P
<1>4. r \in P
  BY <1>2, <1>3, HandedDown
<1> QED BY <1>4 DEF P

-------------------------------------------------------------------------------
(* Below() finds the nodes.                                                *)
LEMMA BelowRoundIs ==
  ASSUME NEW t \in Tree
  PROVE  /\ BelowRound(t) \in [SUBSET Node -> SUBSET Node]
         /\ \A B \in SUBSET Node : \A b : b \in BelowRound(t)[B] <=> b \in B \/ (b # Sentinel /\ \E s \in Side, a \in B : b = Kid(t, s, a))
<1>1. \A s \in Side, a \in Node : Kid(t, s, a) \in Ptr
  BY Fields DEF Ptr
<1>2. ASSUME NEW B \in SUBSET Node PROVE B \cup ({Kid(t, s, a) : s \in Side, a \in B} \ {Sentinel}) \in SUBSET Node
  BY <1>1, <1>2 DEF Ptr
<1>3. BelowRound(t) = [B \in SUBSET Node |-> B \cup ({Kid(t, s, a) : s \in Side, a \in B} \ {Sentinel})]
  BY DEF BelowRound, Kid
<1>4. BelowRound(t) \in [SUBSET Node -> SUBSET Node]
  BY <1>2, <1>3
<1>5. ASSUME NEW B \in SUBSET Node PROVE BelowRound(t)[B] = B \cup ({Kid(t, s, a) : s \in Side, a \in B} \ {Sentinel})
  BY <1>3
<1>6. ASSUME NEW B \in SUBSET Node, NEW b PROVE b \in BelowRound(t)[B] <=> b \in B \/ (b # Sentinel /\ \E s \in Side, a \in B : b = Kid(t, s, a))
  BY <1>5
<1> QED BY <1>4, <1>6

LEMMA BelowNothing ==
  ASSUME NEW t \in Tree
  PROVE  Below(t, Sentinel) = {}
<1>1. BelowRound(t)[{}] = {}
  <2>1. {} \in SUBSET Node
    OBVIOUS
  <2>2. \A b : b \in BelowRound(t)[{}] <=> b \in {} \/ (b # Sentinel /\ \E s \in Side, a \in {} : b = Kid(t, s, a))
    BY <2>1, BelowRoundIs
  <2>3. \A b : b \notin BelowRound(t)[{}]
    BY <2>2
  <2> QED BY <2>3
<1>2. Loop(BelowRound(t), {}) \in {{}}
  <2>1. {{}} \subseteq SUBSET Node /\ {} \in {{}} /\ \A x \in {{}} : BelowRound(t)[x] \in {{}}
    BY <1>1
  <2>2. BelowRound(t) \in [SUBSET Node -> SUBSET Node]
    BY BelowRoundIs
  <2> QED BY <2>1, <2>2, LoopKeeps
<1>3. {Sentinel} \ {Sentinel} = {}
  OBVIOUS
<1> QED BY <1>2, <1>3 DEF Below

LEMMA BelowIs ==
  ASSUME NEW t, NEW u, Shape(t, u), NEW a \in Spots(t, u)
  PROVE  Below(t, a) = Sub(u, a)
<1>1. t \in Tree /\ u \in Subs /\ Down(t, u) /\ Upward(t, u) /\ (\A b \in All(t, u) : NodeFacts(t, u, b)) /\ Nested(t, u) /\ \A b : b \notin Sub(u, Sentinel)
  BY ShapeFacts DEF Shape
<1>2. CASE a = Sentinel
  BY <1>1, <1>2, BelowNothing
<1>3. CASE a # Sentinel
  <2> DEFINE round == BelowRound(t)
             P == {B \in SUBSET Node : a \in B /\ \A b \in B : b \in Sub(u, a)}
             f == [B \in P |-> Cardinality(B)]
  <2>1. a \in All(t, u) /\ a \in Node /\ a \in Sub(u, a) /\ \A b \in Sub(u, a) : b \in Node /\ b \in All(t, u)
    BY <1>1, <1>3 DEF Spots, NodeFacts
  <2>2. round \in [SUBSET Node -> SUBSET Node]
        /\ \A B \in SUBSET Node : \A b : b \in round[B] <=> b \in B \/ (b # Sentinel /\ \E s \in Side, c \in B : b = Kid(t, s, c))
    BY <1>1, BelowRoundIs
  <2> HIDE DEF round
  <2>3. ASSUME NEW B \in P PROVE round[B] \in P /\ IsFiniteSet(B) /\ Cardinality(B) \in 1 .. Size
    <3>1. B \in SUBSET Node /\ a \in B /\ \A b \in B : b \in Sub(u, a)
      OBVIOUS
    <3>2. \A b \in B, s \in Side : Kid(t, s, b) # Sentinel => Kid(t, s, b) \in Sub(u, a)
      BY <1>1, <2>1, <3>1 DEF NodeFacts, Nested
    <3>3. round[B] \in SUBSET Node /\ a \in round[B] /\ \A b \in round[B] : b \in Sub(u, a)
      BY <2>2, <3>1, <3>2
    <3>4. IsFiniteSet(B) /\ Cardinality(B) <= Cardinality(Node)
      BY <3>1, RbTreeAssumption, FS_Subset
    <3>5. Cardinality(B) \in Nat /\ Cardinality(B) # 0
      BY <3>1, <3>4, FS_CardinalityType, FS_EmptySet
    <3> QED BY <3>3, <3>4, <3>5, SizeType DEF Size
  <2>4. f \in [P -> 1 .. Size] /\ \A B \in P : f[B] = Cardinality(B)
    BY <2>3
  <2> HIDE DEF f
  <2>5. ASSUME NEW B \in P, round[B] # B PROVE f[round[B]] > f[B]
    <3>1. B \subseteq round[B] /\ round[B] \in P /\ IsFiniteSet(round[B])
      <4>1. B \in SUBSET Node
        OBVIOUS
      <4>2. \A b \in B : b \in round[B]
        BY <2>2, <4>1
      <4> QED BY <2>3, <4>2
    <3>2. Cardinality(B) <= Cardinality(round[B]) /\ (Cardinality(B) = Cardinality(round[B]) => B = round[B])
      BY <3>1, FS_Subset
    <3>3. Cardinality(B) \in 1 .. Size /\ Cardinality(round[B]) \in 1 .. Size
      BY <2>3, <3>1
    <3> QED BY <2>4, <2>5, <3>1, <3>2, <3>3, SizeType
  <2>6. Grows(P, f, round)
    BY <2>3, <2>4, <2>5 DEF Grows
  <2>7. {a} \in P /\ P \in SUBSET (SUBSET Node)
    BY <2>1
  <2> DEFINE B == Loop(round, {a})
  <2> HIDE DEF P
  <2>8. B \in P /\ round[B] = B
    BY <2>2, <2>6, <2>7, GrowingEnds
  <2> HIDE DEF B
  <2>9. B \in SUBSET Node /\ a \in B /\ \A b \in B : b \in Sub(u, a)
    BY <2>8 DEF P
  <2>10. ASSUME NEW b \in Sub(u, a), b # a, Dad(t, b) \in B PROVE b \in B
    <3>1. b # Top(t) /\ b # Sentinel
      BY <1>1, <2>1, <2>10 DEF NodeFacts
    <3>2. Kid(t, SideOf(t, b), Dad(t, b)) = b /\ SideOf(t, b) \in Side
      BY <1>1, <2>1, <3>1, Sides DEF Upward
    <3> QED BY <2>2, <2>8, <2>9, <2>10, <3>1, <3>2
  <2>11. \A b \in Sub(u, a) : b \in B
    BY <2>1, <2>9, <2>10, HandedDown
  <2>12. Below(t, a) = B
    BY <1>3 DEF Below, B, round
  <2> QED BY <2>9, <2>11, <2>12
<1> QED BY <1>2, <1>3

-------------------------------------------------------------------------------
(* BlackHeight() finds the heights.                                        *)
LEMMA HeightRoundIs ==
  ASSUME NEW t \in Tree
  PROVE  /\ HeightRound(t) \in [Levels -> Levels]
         /\ \A k \in Levels : \A a \in Ptr :
              Lvl(HeightRound(t)[k], a) = IF a = Sentinel THEN 0 ELSE Lvl(k, Kid(t, "left", a)) + Weight(t, a)
<1>1. \A a \in Ptr : Kid(t, "left", a) \in Ptr /\ Weight(t, a) \in {0, 1}
  BY Fields, Sides
<1> DEFINE H(k) == [a \in Ptr |-> IF a = Sentinel THEN 0 ELSE Lvl(k, Kid(t, "left", a)) + Weight(t, a)]
<1>2. HeightRound(t) = [k \in Levels |-> H(k)]
  BY DEF HeightRound, Levels, Lvl, Kid, Weight
<1>3. ASSUME NEW k \in Levels PROVE H(k) \in Levels
  <2>1. \A a \in Ptr : (IF a = Sentinel THEN 0 ELSE Lvl(k, Kid(t, "left", a)) + Weight(t, a)) \in Nat
    <3>1. \A a \in Ptr : Lvl(k, Kid(t, "left", a)) \in Nat
      BY <1>1, LevelFacts
    <3> QED BY <1>1, <3>1
  <2> QED BY <2>1 DEF Levels
<1>4. ASSUME NEW k \in Levels, NEW a \in Ptr
      PROVE  Lvl(H(k), a) = IF a = Sentinel THEN 0 ELSE Lvl(k, Kid(t, "left", a)) + Weight(t, a)
  <2>1. \A g : Lvl(g, a) = g[a]
    BY DEF Lvl
  <2>2. H(k)[a] = IF a = Sentinel THEN 0 ELSE Lvl(k, Kid(t, "left", a)) + Weight(t, a)
    OBVIOUS
  <2> QED BY <2>1, <2>2
<1> HIDE DEF H
<1>5. HeightRound(t) \in [Levels -> Levels] /\ \A k \in Levels : HeightRound(t)[k] = H(k)
  BY <1>2, <1>3
<1> QED BY <1>4, <1>5

LEMMA BlackHeightIs ==
  ASSUME NEW t, NEW u, NEW h, NEW hs, Shape(t, u), Level(t, u, h, hs, Sentinel)
  PROVE  \A a \in Spots(t, u) : BlackHeight(t)[a] = Lvl(h, a)
<1>1. t \in Tree /\ u \in Subs /\ Down(t, u) /\ Nested(t, u) /\ (\A b \in All(t, u) : NodeFacts(t, u, b)) /\ Parts(t, u) /\ \A b : b \notin Sub(u, Sentinel)
  BY ShapeFacts DEF Shape
<1> DEFINE round == HeightRound(t)
           zero == [n \in Ptr |-> 0]
<1>2. zero \in Levels /\ \A a \in Ptr : Lvl(zero, a) = 0
  BY DEF Levels, Lvl
<1>3. round \in [Levels -> Levels] /\ \A k \in Levels : \A a \in Ptr :
        Lvl(round[k], a) = IF a = Sentinel THEN 0 ELSE Lvl(k, Kid(t, "left", a)) + Weight(t, a)
  BY <1>1, HeightRoundIs
<1>4. BlackHeight(t) = Loop(round, zero)
  BY DEF BlackHeight
<1> HIDE DEF round, zero
<1>5. PICK f : Rounds(f, Levels, round, zero) /\ Loop(round, zero) = f[Size]
  BY <1>2, <1>3, LoopRounds
<1>6. f \in [0 .. Size -> Levels] /\ f[0] = zero /\ \A n \in 1 .. Size : f[n] = round[f[n - 1]]
  BY <1>5 DEF Rounds
<1>7. /\ Lvl(h, Sentinel) = 0 /\ Sentinel \in Ptr
      /\ \A a \in All(t, u) : Lvl(h, a) = Lvl(h, Kid(t, "left", a)) + Weight(t, a)
  <2>1. Lvl(h, Sentinel) = 0 /\ \A a \in All(t, u) : LevelAt(t, h, hs, Sentinel, a)
    BY DEF Level
  <2>2. ASSUME NEW a \in All(t, u) PROVE Lvl(h, a) = Lvl(h, Kid(t, "left", a)) + Weight(t, a)
    <3>1. a # Sentinel /\ a \in Ptr
      BY <1>1 DEF NodeFacts
    <3>2. Gap("left", a, hs, Sentinel) = 0
      BY <3>1, NoGap
    <3>3. Kid(t, "left", a) \in Ptr /\ Weight(t, a) \in {0, 1} /\ h \in Levels
      BY <1>1, <3>1, Fields, Sides DEF Level
    <3>4. Lvl(h, Kid(t, "left", a)) \in Nat
      BY <3>3, LevelFacts
    <3>5. Lvl(h, a) = Lvl(h, Kid(t, "left", a)) + Weight(t, a) + Gap("left", a, hs, Sentinel)
      BY <2>1, Sides DEF LevelAt
    <3> QED BY <3>2, <3>3, <3>4, <3>5
  <2> QED BY <2>1, <2>2 DEF Ptr
<1> DEFINE S == {k \in 0 .. Size : \A a \in Spots(t, u) : Count(u, a) <= k => Lvl(f[k], a) = Lvl(h, a)}
<1>8. \A a \in Spots(t, u) : a \in Ptr /\ Count(u, a) \in 0 .. Size /\ (a # Sentinel => a \in All(t, u) /\ Count(u, a) >= 1)
  <2>1. \A a \in Spots(t, u) : a \in Ptr /\ (a # Sentinel => a \in All(t, u) /\ a \in Sub(u, a))
    BY <1>1 DEF NodeFacts, Spots, Ptr
  <2> QED BY <1>1, <2>1, CountFacts
<1>9. 0 \in S
  <2>1. ASSUME NEW a \in Spots(t, u), Count(u, a) <= 0 PROVE Lvl(f[0], a) = Lvl(h, a)
    <3>1. a = Sentinel
      BY <1>8, <2>1, SizeType
    <3> QED BY <1>2, <1>6, <1>7, <3>1
  <2> QED BY <2>1, SizeType
<1>10. ASSUME NEW k \in 0 .. Size - 1, k \in S PROVE k + 1 \in S
  <2>1. f[k] \in Levels /\ f[k + 1] = round[f[k]] /\ k + 1 \in 0 .. Size
    <3>1. k + 1 \in 1 .. Size /\ (k + 1) - 1 = k /\ k \in 0 .. Size
      BY SizeType
    <3> QED BY <1>6, <3>1
  <2>2. \A a \in Spots(t, u) : Count(u, a) <= k => Lvl(f[k], a) = Lvl(h, a)
    BY <1>10
  <2>3. ASSUME NEW a \in Spots(t, u), Count(u, a) <= k + 1 PROVE Lvl(f[k + 1], a) = Lvl(h, a)
    <3>1. CASE a = Sentinel
      BY <1>3, <1>7, <2>1, <3>1
    <3>2. CASE a # Sentinel
      <4> DEFINE c == Kid(t, "left", a)
      <4>1. a \in All(t, u) /\ a \in Ptr /\ Count(u, a) \in 0 .. Size
        BY <1>8, <3>2
      <4>2. c \in Spots(t, u)
        BY <1>1, <4>1, Sides DEF Down, Spots
      <4>3. a \in Sub(u, a) /\ a \notin Sub(u, c) /\ \A b \in Sub(u, c) : b \in Sub(u, a)
        BY <1>1, <4>1, Sides DEF NodeFacts, Parts
      <4>4. Count(u, c) < Count(u, a) /\ Count(u, c) \in 0 .. Size
        BY <1>1, <1>8, <4>1, <4>2, <4>3, CountFacts
      <4>5. Lvl(f[k], c) = Lvl(h, c)
        BY <2>2, <2>3, <4>1, <4>2, <4>4, SizeType
      <4> QED BY <1>3, <1>7, <2>1, <3>2, <4>1, <4>5
    <3> QED BY <3>1, <3>2
  <2> QED BY <2>1, <2>3
<1> HIDE DEF S
<1>11. Size \in S
  BY <1>9, <1>10, Steps, SizeType
<1>12. \A a \in Spots(t, u) : Lvl(f[Size], a) = Lvl(h, a)
  BY <1>8, <1>11, SizeType DEF S
<1>13. \A a : Lvl(f[Size], a) = f[Size][a]
  BY DEF Lvl
<1> QED BY <1>4, <1>5, <1>12, <1>13

(* A tree of the model is what TreeHoldsTheTimers asks for.                *)
LEMMA TreeIsRedBlack ==
  ASSUME NEW t, NEW d, NEW T, NEW kk, IsTree(t, d, T, kk)
  PROVE  IsRedBlack(t) /\ Below(t, Top(t)) = T
<1>1. PICK u, h : TreeWith(t, u, h, d, T, kk)
  BY DEF IsTree
<1>2. /\ Shape(t, u) /\ Level(t, u, h, "left", Sentinel) /\ RedRule(t, u, Sentinel, Sentinel) /\ Weight(t, Top(t)) = 1 /\ All(t, u) = T
  BY <1>1 DEF TreeWith, Sound
<1>3. t \in Tree /\ Top(t) \in Ptr /\ Down(t, u) /\ (\A b \in All(t, u) : NodeFacts(t, u, b)) /\ Top(t) \in Spots(t, u) /\ Sentinel \in Ptr
  BY <1>2, ShapeFacts DEF Shape, Spots, Ptr
<1>4. Below(t, Top(t)) = All(t, u)
  BY <1>2, <1>3, BelowIs DEF All
<1>5. \A a \in Spots(t, u) : BlackHeight(t)[a] = Lvl(h, a)
  BY <1>2, BlackHeightIs
<1> DEFINE height == BlackHeight(t)
<1> HIDE DEF height
<1>6. \A a \in Ptr : t.red[a] \in BOOLEAN /\ (t.red[a] <=> Weight(t, a) = 0)
  BY <1>3, IsBlack
<1>7. ~t.red[t.root] /\ ~t.red[Sentinel]
  BY <1>2, <1>3, <1>6 DEF RedRule, Top
<1>8. ASSUME NEW a \in All(t, u)
      PROVE  /\ height[Kid(t, "left", a)] = height[Kid(t, "right", a)]
             /\ \A s \in Side : Kid(t, s, a) # Sentinel => Dad(t, Kid(t, s, a)) = a /\ ~(t.red[a] /\ t.red[Kid(t, s, a)])
  <2>1. a \in Ptr /\ a # Sentinel /\ \A s \in Side : Kid(t, s, a) \in Ptr /\ Kid(t, s, a) \in Spots(t, u)
    <3>1. a \in Ptr /\ a # Sentinel
      BY <1>3 DEF NodeFacts
    <3>2. \A s \in Side : Kid(t, s, a) \in Spots(t, u)
      BY <1>3 DEF Down, Spots
    <3>3. \A s \in Side : Kid(t, s, a) \in Ptr
      BY <1>3, <3>1, Fields
    <3> QED BY <3>1, <3>2, <3>3
  <2>2. Lvl(h, Kid(t, "left", a)) = Lvl(h, Kid(t, "right", a))
    <3>1. h \in Levels /\ \A s \in Side : Lvl(h, a) = Lvl(h, Kid(t, s, a)) + Weight(t, a) + Gap(s, a, "left", Sentinel)
      BY <1>2 DEF Level, LevelAt
    <3>2. \A s \in Side : Gap(s, a, "left", Sentinel) = 0
      BY <2>1, NoGap
    <3>3. \A s \in Side : Lvl(h, Kid(t, s, a)) \in Nat
      BY <2>1, <3>1, LevelFacts
    <3>4. Weight(t, a) \in {0, 1}
      BY <1>3, <2>1, Fields
    <3>5. \A s \in Side : Lvl(h, a) = Lvl(h, Kid(t, s, a)) + Weight(t, a)
      BY <3>1, <3>2, <3>3, <3>4
    <3> QED BY <3>3, <3>4, <3>5, Sides
  <2>3. height[Kid(t, "left", a)] = height[Kid(t, "right", a)]
    BY <1>5, <2>1, <2>2, Sides DEF height
  <2>4. ASSUME NEW s \in Side, Kid(t, s, a) # Sentinel PROVE Dad(t, Kid(t, s, a)) = a /\ ~(t.red[a] /\ t.red[Kid(t, s, a)])
    <3>1. Dad(t, Kid(t, s, a)) = a
      BY <1>3, <2>4 DEF Down
    <3>2. ~(Weight(t, a) = 0 /\ Weight(t, Kid(t, s, a)) = 0)
      BY <1>2, <2>1, <2>4 DEF RedRule
    <3> QED BY <1>6, <2>1, <3>1, <3>2
  <2> QED BY <2>3, <2>4
<1>9. IsRedBlack(t)
  <2>1. \A s, a : t.child[s][a] = Kid(t, s, a)
    BY DEF Kid
  <2>2. \A a : t.parent[a] = Dad(t, a)
    BY DEF Dad
  <2>3. Below(t, t.root) = All(t, u)
    BY <1>4 DEF Top
  <2> QED BY <1>7, <1>8, <2>1, <2>2, <2>3 DEF IsRedBlack, height
<1> QED BY <1>2, <1>4, <1>9

(* The keys, by their signed difference, have the order d.                 *)
KeysAgree(kk, d, T) ==
  \A a \in T, b \in T : (Signed(kk[a], kk[b]) <= 0 <=> Rank(d, a) <= Rank(d, b)) /\ (Signed(kk[a], kk[b]) >= 0 <=> Rank(d, a) >= Rank(d, b))

LEMMA TreeIsOrdered ==
  ASSUME NEW t, NEW d, NEW T, NEW kk, IsTree(t, d, T, kk), KeysAgree(kk, d, T), d \in Ranks
  PROVE  IsOrdered(t)
<1>1. PICK u, h : TreeWith(t, u, h, d, T, kk)
  BY DEF IsTree
<1>2. Shape(t, u) /\ Order(t, u, d) /\ All(t, u) = T /\ Keys(t) = kk
  BY <1>1 DEF TreeWith, Sound
<1>3. t \in Tree /\ Down(t, u) /\ (\A b \in All(t, u) : NodeFacts(t, u, b)) /\ Top(t) \in Spots(t, u)
  BY <1>2, ShapeFacts DEF Shape, Spots
<1>4. Below(t, Top(t)) = All(t, u)
  BY <1>2, <1>3, BelowIs DEF All
<1>5. ASSUME NEW a \in All(t, u), NEW s \in Side PROVE Below(t, Kid(t, s, a)) = Sub(u, Kid(t, s, a)) /\ \A b \in Sub(u, Kid(t, s, a)) : b \in All(t, u)
  <2>1. Kid(t, s, a) \in Spots(t, u)
    BY <1>3 DEF Down, Spots
  <2> QED BY <1>2, <1>3, <2>1, BelowIs DEF NodeFacts
<1>6. ASSUME NEW a \in All(t, u), NEW s \in Side, NEW b \in Below(t, Kid(t, s, a))
      PROVE  IF s = "left" THEN Signed(kk[b], kk[a]) <= 0 ELSE Signed(kk[b], kk[a]) >= 0
  <2>1. b \in Sub(u, Kid(t, s, a)) /\ b \in All(t, u)
    BY <1>5
  <2>2. Apart(d, s, b, a)
    BY <1>2, <2>1 DEF Order
  <2>3. a \in Ptr /\ b \in Ptr
    BY <1>3, <2>1 DEF NodeFacts
  <2>4. Rank(d, a) \in Int /\ Rank(d, b) \in Int
    BY <2>3, ApartFacts, Sides
  <2> QED BY <1>2, <2>1, <2>2, <2>4 DEF Apart, KeysAgree
<1>7. \A s, a : t.child[s][a] = Kid(t, s, a)
  BY DEF Kid
<1>8. Below(t, t.root) = All(t, u) /\ t.key = kk
  BY <1>2, <1>4 DEF Top, Keys
<1>9. "left" \in Side /\ "right" \in Side /\ "left" # "right"
  BY Sides
<1>10. ASSUME NEW a \in All(t, u)
       PROVE  /\ \A b \in Below(t, Kid(t, "left", a)) : Signed(kk[b], kk[a]) <= 0
              /\ \A b \in Below(t, Kid(t, "right", a)) : Signed(kk[b], kk[a]) >= 0
  BY <1>6, <1>9
<1> QED BY <1>7, <1>8, <1>10 DEF IsOrdered

-------------------------------------------------------------------------------
(* What a walk has met before: b is before a and not below it.             *)
Ahead(t, u, b, a) == \E c \in All(t, u) : a \in Sub(u, Kid(t, "right", c)) /\ (b = c \/ b \in Sub(u, Kid(t, "left", c)))
Earlier(t, u, b, a) == Ahead(t, u, b, a) \/ b \in Sub(u, Kid(t, "left", a))
Through(t, u, b, a) == Ahead(t, u, b, a) \/ b \in Sub(u, a)

LEMMA AheadFacts ==
  ASSUME NEW t, NEW u, Shape(t, u), NEW b
  PROVE  /\ ~Ahead(t, u, b, Top(t))
         /\ \A a : Ahead(t, u, b, a) => b \in All(t, u)
         /\ ~Ahead(t, u, b, b)
<1>1. /\ Parts(t, u) /\ (\A c \in All(t, u) : NodeFacts(t, u, c)) /\ Down(t, u) /\ \A c : c \notin Sub(u, Sentinel)
  BY ShapeFacts DEF Shape
<1>2. "left" \in Side /\ "right" \in Side /\ Other("right") = "left"
  BY Sides
<1>3. \A c \in All(t, u) : Top(t) \notin Sub(u, Kid(t, "right", c))
  BY <1>1, <1>2 DEF NodeFacts, Down
<1>4. ASSUME NEW a, Ahead(t, u, b, a) PROVE b \in All(t, u)
  BY <1>1, <1>2, <1>4 DEF Ahead, NodeFacts
<1>5. \A c \in All(t, u) : b \in Sub(u, Kid(t, "right", c)) => b # c /\ b \notin Sub(u, Kid(t, "left", c))
  BY <1>1, <1>2 DEF Parts
<1> QED BY <1>3, <1>4, <1>5 DEF Ahead

LEMMA AheadKids ==
  ASSUME NEW t, NEW u, Shape(t, u), NEW g \in All(t, u), NEW z \in Side, NEW a, a = Kid(t, z, g), a # Sentinel, NEW b
  PROVE  /\ z = "left" => (Ahead(t, u, b, a) <=> Ahead(t, u, b, g))
         /\ z = "right" => (Ahead(t, u, b, a) <=> Earlier(t, u, b, g) \/ b = g)
<1>1. /\ Parts(t, u) /\ (\A c \in All(t, u) : NodeFacts(t, u, c)) /\ Down(t, u) /\ Nested(t, u) /\ \A c : c \notin Sub(u, Sentinel)
  BY ShapeFacts DEF Shape
<1>2. "left" \in Side /\ "right" \in Side /\ Other("right") = "left" /\ Other("left") = "right" /\ "left" # "right"
  BY Sides
<1>3. a \in All(t, u) /\ Dad(t, a) = g /\ a \in Sub(u, a) /\ a \in Sub(u, g) /\ SideOf(t, a) = z
  BY <1>1 DEF Down, NodeFacts
<1>4. ASSUME NEW c \in All(t, u), a \in Sub(u, Kid(t, "right", c)) PROVE g \in Sub(u, Kid(t, "right", c)) \/ (c = g /\ z = "right")
  <2>1. Kid(t, "right", c) # Sentinel /\ Kid(t, "right", c) \in All(t, u)
    BY <1>1, <1>2, <1>4 DEF Down
  <2>2. CASE a = Kid(t, "right", c)
    BY <1>1, <1>2, <1>3, <2>1, <2>2 DEF Down, NodeFacts
  <2>3. CASE a # Kid(t, "right", c)
    BY <1>1, <1>3, <1>4, <2>1, <2>3 DEF Nested
  <2> QED BY <2>2, <2>3
<1>5. ASSUME NEW c \in All(t, u), g \in Sub(u, Kid(t, "right", c)) PROVE a \in Sub(u, Kid(t, "right", c))
  <2>1. Kid(t, "right", c) \in All(t, u)
    BY <1>1, <1>2, <1>5 DEF Down
  <2> QED BY <1>1, <1>3, <1>5, <2>1 DEF Nested
<1>6. ASSUME z = "left" PROVE Ahead(t, u, b, a) <=> Ahead(t, u, b, g)
  BY <1>2, <1>4, <1>5, <1>6 DEF Ahead
<1>7. ASSUME z = "right" PROVE Ahead(t, u, b, a) <=> Earlier(t, u, b, g) \/ b = g
  <2>1. a \in Sub(u, Kid(t, "right", g))
    BY <1>3, <1>7
  <2>2. ASSUME Ahead(t, u, b, a) PROVE Earlier(t, u, b, g) \/ b = g
    <3>1. PICK c \in All(t, u) : a \in Sub(u, Kid(t, "right", c)) /\ (b = c \/ b \in Sub(u, Kid(t, "left", c)))
      BY <2>2 DEF Ahead
    <3>2. CASE g \in Sub(u, Kid(t, "right", c))
      BY <3>1, <3>2 DEF Earlier, Ahead
    <3>3. CASE c = g
      BY <3>1, <3>3 DEF Earlier
    <3> QED BY <1>4, <3>1, <3>2, <3>3
  <2>3. ASSUME Earlier(t, u, b, g) \/ b = g PROVE Ahead(t, u, b, a)
    <3>1. CASE Ahead(t, u, b, g)
      <4>1. PICK c \in All(t, u) : g \in Sub(u, Kid(t, "right", c)) /\ (b = c \/ b \in Sub(u, Kid(t, "left", c)))
        BY <3>1 DEF Ahead
      <4> QED BY <1>5, <4>1 DEF Ahead
    <3>2. CASE b = g \/ b \in Sub(u, Kid(t, "left", g))
      BY <2>1, <3>2 DEF Ahead
    <3> QED BY <2>3, <3>1, <3>2 DEF Earlier
  <2> QED BY <2>2, <2>3
<1> QED BY <1>6, <1>7

LEMMA AheadMin ==
  ASSUME NEW t, NEW u, Shape(t, u), NEW d \in Ranks, Order(t, u, d), NEW m \in All(t, u), NEW r, r = MinFrom(t, m), NEW b
  PROVE  /\ Earlier(t, u, b, r) <=> Ahead(t, u, b, m)
         /\ r \in All(t, u)
<1>1. /\ Parts(t, u) /\ (\A c \in All(t, u) : NodeFacts(t, u, c)) /\ Down(t, u) /\ Nested(t, u) /\ \A c : c \notin Sub(u, Sentinel)
  BY ShapeFacts DEF Shape
<1>2. "left" \in Side /\ "right" \in Side /\ Other("right") = "left" /\ Other("left") = "right" /\ "left" # "right"
  BY Sides
<1>3. /\ r \in Sub(u, m) /\ Kid(t, "left", r) = Sentinel
      /\ \A a \in Sub(u, m) : r \in Sub(u, a) => a = r \/ r \in Sub(u, Kid(t, "left", a))
  BY MinIsFirst
<1>4. r \in All(t, u)
  BY <1>1, <1>3 DEF NodeFacts
<1>5. ASSUME NEW c \in All(t, u), r \in Sub(u, Kid(t, "right", c)) PROVE m \in Sub(u, Kid(t, "right", c))
  <2>1. Kid(t, "right", c) # Sentinel /\ Kid(t, "right", c) \in All(t, u) /\ Dad(t, Kid(t, "right", c)) = c
    BY <1>1, <1>2, <1>5 DEF Down
  <2>2. r \in Sub(u, c) /\ r # c /\ r \notin Sub(u, Kid(t, "left", c))
    BY <1>1, <1>2, <1>5 DEF Parts
  <2>3. c \notin Sub(u, m)
    BY <1>3, <2>2
  <2>4. CASE Kid(t, "right", c) \in Sub(u, m)
    <3>1. Kid(t, "right", c) = m
      BY <1>1, <2>1, <2>3, <2>4 DEF Nested
    <3> QED BY <1>1, <2>1, <3>1 DEF NodeFacts
  <2> QED BY <1>3, <1>5, <2>1, <2>4, Laminar
<1>6. ASSUME NEW c \in All(t, u), m \in Sub(u, Kid(t, "right", c)) PROVE r \in Sub(u, Kid(t, "right", c))
  <2>1. Kid(t, "right", c) \in All(t, u)
    BY <1>1, <1>2, <1>6 DEF Down
  <2> QED BY <1>1, <1>3, <1>6, <2>1 DEF Nested
<1>7. Ahead(t, u, b, r) <=> Ahead(t, u, b, m)
  BY <1>5, <1>6 DEF Ahead
<1>8. b \notin Sub(u, Kid(t, "left", r))
  BY <1>1, <1>3
<1> QED BY <1>4, <1>7, <1>8 DEF Earlier

-------------------------------------------------------------------------------
(* ngx_rbtree_next(): the next node x is the one before which there are    *)
(* what was before a, and a.                                               *)
Follows(t, u, x, a) ==
  \/ x = Sentinel /\ \A b : b \in All(t, u) <=> Earlier(t, u, b, a) \/ b = a
  \/ x \in All(t, u) /\ \A b : Earlier(t, u, b, x) <=> Earlier(t, u, b, a) \/ b = a

LEMMA UpRoundIs ==
  ASSUME NEW t \in Tree
  PROVE  /\ UpRound(t) \in [Ptr -> Ptr]
         /\ \A x \in Ptr : UpRound(t)[x] = IF x = Top(t) \/ x = Kid(t, "left", Dad(t, x)) THEN x ELSE Dad(t, x)
<1>1. \A x \in Ptr : Dad(t, x) \in Ptr
  BY Fields
<1>2. UpRound(t) = [x \in Ptr |-> IF x = Top(t) \/ x = Kid(t, "left", Dad(t, x)) THEN x ELSE Dad(t, x)]
  BY DEF UpRound, IsTop, Top, Kid, Dad
<1> QED BY <1>1, <1>2

LEMMA AboveFollows ==
  ASSUME NEW t, NEW u, Shape(t, u), NEW a \in All(t, u), Kid(t, "right", a) = Sentinel
  PROVE  Follows(t, u, Above(t, a), a)
<1>1. /\ t \in Tree /\ u \in Subs /\ Parts(t, u) /\ (\A c \in All(t, u) : NodeFacts(t, u, c)) /\ Down(t, u) /\ Upward(t, u)
      /\ \A c : c \notin Sub(u, Sentinel)
  BY ShapeFacts DEF Shape
<1>2. "left" \in Side /\ "right" \in Side /\ Other("right") = "left" /\ Other("left") = "right" /\ "left" # "right"
  BY Sides
<1> DEFINE round == UpRound(t)
           P == {x \in All(t, u) : \A b : Through(t, u, b, x) <=> Earlier(t, u, b, a) \/ b = a}
           f == [x \in P |-> Count(u, x)]
<1>3. round \in [Ptr -> Ptr] /\ \A x \in Ptr : round[x] = IF x = Top(t) \/ x = Kid(t, "left", Dad(t, x)) THEN x ELSE Dad(t, x)
  BY <1>1, UpRoundIs
<1> HIDE DEF round
<1>4. \A x \in P : x \in All(t, u) /\ x \in Ptr /\ x \in Sub(u, x) /\ Count(u, x) \in 1 .. Size
  <2>1. \A x \in P : x \in All(t, u) /\ x \in Ptr /\ x \in Sub(u, x)
    BY <1>1 DEF NodeFacts
  <2>2. \A x \in P : Count(u, x) \in 0 .. Size /\ Count(u, x) >= 1
    BY <1>1, <2>1, CountFacts
  <2> QED BY <2>1, <2>2, SizeType
<1>5. f \in [P -> 1 .. Size] /\ \A x \in P : f[x] = Count(u, x)
  BY <1>4
<1> HIDE DEF f
<1>6. ASSUME NEW x \in P, round[x] # x
      PROVE  round[x] \in P /\ f[round[x]] > f[x]
  <2> DEFINE g == Dad(t, x)
  <2>1. x # Top(t) /\ x # Kid(t, "left", g) /\ round[x] = g
    BY <1>3, <1>4, <1>6
  <2>2. g \in All(t, u) /\ x = Kid(t, "right", g) /\ x # Sentinel
    <3>1. g \in All(t, u) /\ Kid(t, SideOf(t, x), g) = x /\ SideOf(t, x) \in Side
      BY <1>1, <1>4, <2>1, Sides DEF Upward
    <3>2. SideOf(t, x) = "right"
      BY <2>1, <3>1, Sides
    <3> QED BY <1>1, <1>4, <3>1, <3>2 DEF NodeFacts
  <2> HIDE DEF g
  <2>3. ASSUME NEW b PROVE Through(t, u, b, g) <=> Through(t, u, b, x)
    <3>1. Ahead(t, u, b, x) <=> Earlier(t, u, b, g) \/ b = g
      BY <1>2, <2>2, AheadKids
    <3>2. b \in Sub(u, g) <=> b = g \/ b \in Sub(u, Kid(t, "left", g)) \/ b \in Sub(u, x)
      BY <1>1, <1>2, <2>2 DEF Parts
    <3> QED BY <3>1, <3>2 DEF Through, Earlier
  <2>4. g \in P
    BY <2>2, <2>3
  <2>5. Count(u, x) < Count(u, g)
    <3>1. g \notin Sub(u, x) /\ (\A c \in Sub(u, x) : c \in Sub(u, g)) /\ g \in Sub(u, g) /\ g \in Ptr /\ x \in Ptr
      BY <1>1, <1>2, <2>2 DEF NodeFacts, Parts
    <3> QED BY <1>1, <3>1, CountFacts
  <2>6. f[g] = Count(u, g) /\ f[x] = Count(u, x) /\ Count(u, g) \in 1 .. Size /\ Count(u, x) \in 1 .. Size
    BY <1>4, <1>5, <2>4
  <2> QED BY <2>1, <2>4, <2>5, <2>6
<1>7. Grows(P, f, round)
  BY <1>5, <1>6 DEF Grows
<1>8. a \in P
  <2>1. ASSUME NEW b PROVE Through(t, u, b, a) <=> Earlier(t, u, b, a) \/ b = a
    <3>1. b \in Sub(u, a) <=> b = a \/ b \in Sub(u, Kid(t, "left", a))
      BY <1>1, <1>2 DEF Parts
    <3> QED BY <3>1 DEF Through, Earlier
  <2> QED BY <2>1
<1>9. P \in SUBSET Ptr
  BY <1>4
<1> DEFINE x == Loop(round, a)
<1>10. x \in P /\ round[x] = x
  <2> HIDE DEF P
  <2> QED BY <1>3, <1>7, <1>8, <1>9, GrowingEnds
<1> HIDE DEF x
<1>11. x \in All(t, u) /\ x \in Ptr /\ \A b : Through(t, u, b, x) <=> Earlier(t, u, b, a) \/ b = a
  BY <1>4, <1>10
<1>12. Above(t, a) = IF x = Top(t) THEN Sentinel ELSE Dad(t, x)
  BY DEF Above, x, round, Top, Dad
<1>13. CASE x = Top(t)
  <2>1. ASSUME NEW b PROVE b \in All(t, u) <=> Through(t, u, b, x)
    BY <1>13, AheadFacts DEF Through, All
  <2> QED BY <1>11, <1>12, <1>13, <2>1 DEF Follows
<1>14. CASE x # Top(t)
  <2> DEFINE g == Dad(t, x)
  <2>1. g \in All(t, u) /\ g # x /\ x # Sentinel
    BY <1>1, <1>11, <1>14 DEF NodeFacts, Upward
  <2>2. x = Kid(t, "left", g)
    BY <1>3, <1>10, <1>11, <1>14, <2>1
  <2> HIDE DEF g
  <2>3. ASSUME NEW b PROVE Earlier(t, u, b, g) <=> Through(t, u, b, x)
    BY <1>2, <2>1, <2>2, AheadKids DEF Earlier, Through
  <2> QED BY <1>11, <1>12, <1>14, <2>1, <2>3 DEF Follows, g
<1> QED BY <1>13, <1>14

LEMMA NextFollows ==
  ASSUME NEW t, NEW u, Shape(t, u), NEW d \in Ranks, Order(t, u, d), NEW a \in All(t, u)
  PROVE  Follows(t, u, NextOf(t, a), a)
<1>1. Down(t, u)
  BY DEF Shape
<1>2. NextOf(t, a) = IF Kid(t, "right", a) # Sentinel THEN MinFrom(t, Kid(t, "right", a)) ELSE Above(t, a)
  BY DEF NextOf, Kid
<1>3. CASE Kid(t, "right", a) # Sentinel
  <2> DEFINE r == MinFrom(t, Kid(t, "right", a))
  <2>1. Kid(t, "right", a) \in All(t, u)
    BY <1>1, <1>3, Sides DEF Down
  <2>2. r \in All(t, u) /\ \A b : Earlier(t, u, b, r) <=> Ahead(t, u, b, Kid(t, "right", a))
    BY <2>1, AheadMin
  <2> HIDE DEF r
  <2>3. \A b : Ahead(t, u, b, Kid(t, "right", a)) <=> Earlier(t, u, b, a) \/ b = a
    BY <1>3, AheadKids, Sides
  <2> QED BY <1>2, <1>3, <2>2, <2>3 DEF Follows, r
<1>4. CASE Kid(t, "right", a) = Sentinel
  BY <1>2, <1>4, AboveFollows
<1> QED BY <1>3, <1>4

-------------------------------------------------------------------------------
(* A walk with ngx_rbtree_next().                                          *)
LEMMA MinType ==
  ASSUME NEW t \in Tree, NEW a \in Ptr
  PROVE  MinFrom(t, a) \in Ptr
<1>1. \A x \in Ptr : Kid(t, "left", x) \in Ptr
  BY Fields, Sides
<1>2. MinRound(t) = [x \in Ptr |-> IF Kid(t, "left", x) = Sentinel THEN x ELSE Kid(t, "left", x)]
  BY DEF MinRound, Kid
<1>3. MinRound(t) \in [Ptr -> Ptr]
  BY <1>1, <1>2
<1>4. \A x \in Ptr : MinRound(t)[x] \in Ptr
  BY <1>3
<1> QED BY <1>3, <1>4, LoopKeeps DEF MinFrom

LEMMA NextType ==
  ASSUME NEW t \in Tree, NEW a \in Ptr
  PROVE  NextOf(t, a) \in Ptr
<1>1. Kid(t, "right", a) \in Ptr /\ Sentinel \in Ptr
  BY Fields, Sides DEF Ptr
<1>2. MinFrom(t, Kid(t, "right", a)) \in Ptr
  BY <1>1, MinType
<1>3. UpRound(t) \in [Ptr -> Ptr] /\ \A x \in Ptr : UpRound(t)[x] \in Ptr
  BY UpRoundIs
<1>4. Loop(UpRound(t), a) \in Ptr
  BY <1>3, LoopKeeps
<1>5. Dad(t, Loop(UpRound(t), a)) \in Ptr
  BY <1>4, Fields
<1>6. Above(t, a) \in Ptr
  BY <1>1, <1>5 DEF Above, Dad
<1> QED BY <1>2, <1>6 DEF NextOf, Kid

Walks == [seen : SUBSET Node, at : Ptr]
SeenBy(w) == w.seen
WhereIs(w) == w.at

LEMMA WalkRoundIs ==
  ASSUME NEW t \in Tree
  PROVE  /\ WalkRound(t) \in [Walks -> Walks]
         /\ \A w \in Walks : /\ SeenBy(w) \in SUBSET Node /\ WhereIs(w) \in Ptr
                             /\ WhereIs(w) = Sentinel => WalkRound(t)[w] = w
                             /\ WhereIs(w) # Sentinel => /\ SeenBy(WalkRound(t)[w]) = SeenBy(w) \cup {WhereIs(w)}
                                                         /\ WhereIs(WalkRound(t)[w]) = NextOf(t, WhereIs(w))
<1>1. \A w \in Walks : SeenBy(w) \in SUBSET Node /\ WhereIs(w) \in Ptr
  BY DEF Walks, SeenBy, WhereIs
<1>2. WalkRound(t) = [w \in Walks |-> IF WhereIs(w) = Sentinel THEN w
                                      ELSE [seen |-> SeenBy(w) \cup {WhereIs(w)}, at |-> NextOf(t, WhereIs(w))]]
  BY DEF WalkRound, Walks, SeenBy, WhereIs
<1>3. ASSUME NEW w \in Walks, WhereIs(w) # Sentinel
      PROVE  [seen |-> SeenBy(w) \cup {WhereIs(w)}, at |-> NextOf(t, WhereIs(w))] \in Walks
  <2>1. NextOf(t, WhereIs(w)) \in Ptr
    BY <1>1, NextType
  <2>2. WhereIs(w) \in Node
    BY <1>1, <1>3 DEF Ptr
  <2> QED BY <1>1, <2>1, <2>2 DEF Walks
<1>4. WalkRound(t) \in [Walks -> Walks]
  BY <1>2, <1>3
<1>5. \A a, b : SeenBy([seen |-> a, at |-> b]) = a /\ WhereIs([seen |-> a, at |-> b]) = b
  BY DEF SeenBy, WhereIs
<1>6. \A w \in Walks : WhereIs(w) = Sentinel => WalkRound(t)[w] = w
  BY <1>2
<1>7. \A w \in Walks : WhereIs(w) # Sentinel =>
        WalkRound(t)[w] = [seen |-> SeenBy(w) \cup {WhereIs(w)}, at |-> NextOf(t, WhereIs(w))]
  BY <1>2
<1> HIDE DEF WalkRound
<1>8. ASSUME NEW w \in Walks, WhereIs(w) # Sentinel
      PROVE  SeenBy(WalkRound(t)[w]) = SeenBy(w) \cup {WhereIs(w)} /\ WhereIs(WalkRound(t)[w]) = NextOf(t, WhereIs(w))
  <2>1. WalkRound(t)[w] = [seen |-> SeenBy(w) \cup {WhereIs(w)}, at |-> NextOf(t, WhereIs(w))]
    BY <1>7, <1>8
  <2> HIDE DEF SeenBy, WhereIs
  <2>2. SeenBy(WalkRound(t)[w]) = SeenBy(w) \cup {WhereIs(w)}
    BY <1>5, <2>1
  <2>3. WhereIs(WalkRound(t)[w]) = NextOf(t, WhereIs(w))
    BY <1>5, <2>1
  <2> QED BY <2>2, <2>3
<1> QED BY <1>1, <1>4, <1>6, <1>8

(* What the walk has met is what is before the place where it is.          *)
WalksAt(t, u, w) ==
  /\ w \in Walks
  /\ \/ WhereIs(w) = Sentinel /\ \A b : b \in SeenBy(w) <=> b \in All(t, u)
     \/ WhereIs(w) \in All(t, u) /\ \A b : b \in SeenBy(w) <=> Earlier(t, u, b, WhereIs(w))

LEMMA WalkGoesOn ==
  ASSUME NEW t, NEW u, Shape(t, u), NEW d \in Ranks, Order(t, u, d), NEW w, WalksAt(t, u, w), WhereIs(w) # Sentinel
  PROVE  /\ WalksAt(t, u, WalkRound(t)[w]) /\ WhereIs(w) \notin SeenBy(w) /\ WhereIs(w) \in Node
         /\ SeenBy(WalkRound(t)[w]) = SeenBy(w) \cup {WhereIs(w)}
<1> DEFINE v == WalkRound(t)[w]
           a == WhereIs(w)
<1>1. t \in Tree /\ (\A b \in All(t, u) : NodeFacts(t, u, b)) /\ Parts(t, u)
  BY ShapeFacts DEF Shape
<1>2. w \in Walks /\ a \in All(t, u) /\ \A b : b \in SeenBy(w) <=> Earlier(t, u, b, a)
  BY DEF WalksAt
<1>3. v \in Walks /\ SeenBy(v) = SeenBy(w) \cup {a} /\ WhereIs(v) = NextOf(t, a)
  BY <1>1, <1>2, WalkRoundIs
<1> HIDE DEF v, a
<1>4. Follows(t, u, NextOf(t, a), a)
  BY <1>2, NextFollows
<1>5. \A b : b \in SeenBy(v) <=> Earlier(t, u, b, a) \/ b = a
  BY <1>2, <1>3
<1>6. WalksAt(t, u, v)
  BY <1>3, <1>4, <1>5 DEF Follows, WalksAt
<1>7. ~Earlier(t, u, a, a)
  BY <1>1, <1>2, AheadFacts, Sides DEF Earlier, Parts
<1>8. a \in Node
  BY <1>1, <1>2 DEF NodeFacts
<1> QED BY <1>2, <1>3, <1>6, <1>7, <1>8 DEF v, a

LEMMA WalkMeetsAll ==
  ASSUME NEW t, NEW d \in Ranks, NEW T, NEW kk, IsTree(t, d, T, kk), T # {}
  PROVE  WalkFrom(t, MinFrom(t, Top(t))) = T /\ MinFrom(t, Top(t)) \in T /\ Top(t) # Sentinel
<1>1. PICK u, h : TreeWith(t, u, h, d, T, kk)
  BY DEF IsTree
<1>2. Shape(t, u) /\ Order(t, u, d) /\ All(t, u) = T
  BY <1>1 DEF TreeWith, Sound
<1>3. t \in Tree /\ (\A b \in All(t, u) : NodeFacts(t, u, b)) /\ Top(t) \in All(t, u) /\ Top(t) # Sentinel
  BY <1>2, ShapeFacts DEF Shape, All
<1> DEFINE r == MinFrom(t, Top(t))
           w0 == [seen |-> {}, at |-> r]
           round == WalkRound(t)
<1>4. r \in All(t, u) /\ \A b : Earlier(t, u, b, r) <=> Ahead(t, u, b, Top(t))
  BY <1>2, <1>3, AheadMin
<1>5. \A b : ~Earlier(t, u, b, r)
  BY <1>2, <1>4, AheadFacts
<1>6. r \in Ptr
  BY <1>3, <1>4 DEF NodeFacts
<1> HIDE DEF r
<1>7. w0 \in Walks /\ SeenBy(w0) = {} /\ WhereIs(w0) = r
  BY <1>6 DEF Walks, SeenBy, WhereIs
<1>8. WalkFrom(t, r) = SeenBy(Loop(round, w0))
  BY DEF WalkFrom, SeenBy
<1> HIDE DEF w0
<1>9. WalksAt(t, u, w0)
  BY <1>4, <1>5, <1>7 DEF WalksAt
<1>10. round \in [Walks -> Walks] /\ \A w \in Walks : WhereIs(w) = Sentinel => round[w] = w
  BY <1>3, WalkRoundIs
<1>11. ASSUME NEW w, WalksAt(t, u, w), WhereIs(w) # Sentinel
       PROVE  WalksAt(t, u, round[w]) /\ WhereIs(w) \notin SeenBy(w) /\ WhereIs(w) \in Node /\ SeenBy(round[w]) = SeenBy(w) \cup {WhereIs(w)}
  BY <1>2, <1>11, WalkGoesOn
<1> HIDE DEF round
<1>12. PICK f : Rounds(f, Walks, round, w0) /\ Loop(round, w0) = f[Size]
  BY <1>7, <1>10, LoopRounds
<1>13. f[0] = w0 /\ \A n \in 1 .. Size : f[n] = round[f[n - 1]]
  BY <1>12 DEF Rounds
<1> DEFINE S == {k \in 0 .. Size : WalksAt(t, u, f[k]) /\ (WhereIs(f[k]) = Sentinel \/ (IsFiniteSet(SeenBy(f[k])) /\ Cardinality(SeenBy(f[k])) = k))}
<1>14. 0 \in S
  BY <1>7, <1>9, <1>13, SizeType, FS_EmptySet
<1>15. ASSUME NEW k \in 0 .. Size - 1, k \in S PROVE k + 1 \in S
  <2>1. f[k + 1] = round[f[k]] /\ k + 1 \in 0 .. Size
    <3>1. k + 1 \in 1 .. Size /\ (k + 1) - 1 = k
      BY SizeType
    <3> QED BY <1>13, <3>1
  <2>2. WalksAt(t, u, f[k]) /\ (WhereIs(f[k]) = Sentinel \/ (IsFiniteSet(SeenBy(f[k])) /\ Cardinality(SeenBy(f[k])) = k))
    BY <1>15
  <2>3. CASE WhereIs(f[k]) = Sentinel
    <3>1. f[k + 1] = f[k]
      BY <1>10, <2>1, <2>2, <2>3 DEF WalksAt
    <3> QED BY <2>1, <2>2, <2>3, <3>1
  <2>4. CASE WhereIs(f[k]) # Sentinel
    <3>1. WalksAt(t, u, f[k + 1]) /\ WhereIs(f[k]) \notin SeenBy(f[k]) /\ SeenBy(f[k + 1]) = SeenBy(f[k]) \cup {WhereIs(f[k])}
      BY <1>11, <2>1, <2>2, <2>4
    <3>2. IsFiniteSet(SeenBy(f[k + 1])) /\ Cardinality(SeenBy(f[k + 1])) = k + 1
      BY <2>2, <2>4, <3>1, FS_AddElement
    <3> QED BY <2>1, <3>1, <3>2
  <2> QED BY <2>3, <2>4
<1>16. Size \in S
  <2> HIDE DEF S
  <2> QED BY <1>14, <1>15, Steps, SizeType
<1>17. WhereIs(f[Size]) = Sentinel
  <2>1. SUFFICES ASSUME WhereIs(f[Size]) # Sentinel PROVE FALSE
    OBVIOUS
  <2>2. WalksAt(t, u, f[Size]) /\ IsFiniteSet(SeenBy(f[Size])) /\ Cardinality(SeenBy(f[Size])) = Size
    BY <1>16, <2>1
  <2>3. WhereIs(f[Size]) \notin SeenBy(f[Size]) /\ WhereIs(f[Size]) \in Node
    BY <1>11, <2>1, <2>2
  <2>4. SeenBy(f[Size]) \subseteq Node
    BY <2>2 DEF WalksAt, Walks, SeenBy
  <2>5. SeenBy(f[Size]) = Node
    BY <2>2, <2>4, RbTreeAssumption, FS_Subset DEF Size
  <2> QED BY <2>3, <2>5
<1>18. \A b : b \in SeenBy(f[Size]) <=> b \in All(t, u)
  <2>1. Sentinel \notin All(t, u)
    BY <1>3 DEF NodeFacts
  <2> QED BY <1>16, <1>17, <2>1 DEF WalksAt
<1>19. SeenBy(f[Size]) = T
  BY <1>2, <1>18
<1> QED BY <1>2, <1>3, <1>4, <1>8, <1>12, <1>19 DEF r

-------------------------------------------------------------------------------
(* Times on the clock.                                                     *)
LEMMA ModOnce ==
  ASSUME NEW w \in Nat, w > 0, NEW x \in Int, x >= -w, x < 2 * w
  PROVE  /\ x < 0 => x % w = x + w
         /\ 0 <= x /\ x < w => x % w = x
         /\ x >= w => x % w = x - w
<1>1. x % w \in 0 .. w - 1 /\ x = w * (x \div w) + (x % w) /\ x \div w \in Int
  OBVIOUS
<1>2. PICK q \in Int, r \in 0 .. w - 1 : q = x \div w /\ r = x % w /\ x = w * q + r
  BY <1>1
<1>3. q >= -1
  <2>1. SUFFICES ASSUME q <= -2 PROVE FALSE
    OBVIOUS
  <2>2. w * q <= w * (-2)
    BY <2>1, Z3
  <2> QED BY <1>2, <2>2
<1>4. q <= 1
  <2>1. SUFFICES ASSUME q >= 2 PROVE FALSE
    OBVIOUS
  <2>2. w * q >= w * 2
    BY <2>1, Z3
  <2> QED BY <1>2, <2>2
<1>5. CASE q = -1
  BY <1>2, <1>5
<1>6. CASE q = 0
  BY <1>2, <1>6
<1>7. CASE q = 1
  BY <1>2, <1>7
<1> QED BY <1>3, <1>4, <1>5, <1>6, <1>7

LEMMA SignedIs ==
  ASSUME NEW a \in Key, NEW b \in Key
  PROVE  /\ a - b >= Half => Signed(a, b) = a - b - Modulus
         /\ -Half <= a - b /\ a - b < Half => Signed(a, b) = a - b
         /\ a - b < -Half => Signed(a, b) = a - b + Modulus
         /\ Signed(a, b) \in -Half .. Half - 1
<1>1. Half \in Nat /\ Half > 0 /\ Modulus = 2 * Half /\ a \in 0 .. Modulus - 1 /\ b \in 0 .. Modulus - 1
  BY RbTreeAssumption DEF Modulus, Key
<1>2. /\ a - b < 0 => (a - b) % Modulus = a - b + Modulus
      /\ a - b >= 0 => (a - b) % Modulus = a - b
  BY <1>1, ModOnce
<1> DEFINE m == (a - b) % Modulus
<1>3. Signed(a, b) = IF m >= Half THEN m - Modulus ELSE m
  BY DEF Signed
<1>4. (a - b < 0 => m = a - b + Modulus) /\ (a - b >= 0 => m = a - b)
  BY <1>2
<1> HIDE DEF m
<1> QED BY <1>1, <1>3, <1>4

(* A time that is d after the time a.                                      *)
LEMMA SignedAfter ==
  ASSUME NEW a \in Key, NEW d \in Nat, d < Half
  PROVE  /\ (a + d) % Modulus \in Key /\ Signed((a + d) % Modulus, a) = d
<1>1. Half \in Nat /\ Half > 0 /\ Modulus = 2 * Half /\ a \in 0 .. Modulus - 1
  BY RbTreeAssumption DEF Modulus, Key
<1> DEFINE k == (a + d) % Modulus
<1>2. (a + d < Modulus => k = a + d) /\ (a + d >= Modulus => k = a + d - Modulus)
  BY <1>1, ModOnce
<1> HIDE DEF k
<1>3. k \in Key
  BY <1>1, <1>2 DEF Key
<1>4. Signed(k, a) = d
  BY <1>1, <1>2, <1>3, SignedIs
<1> QED BY <1>3, <1>4 DEF k

(* What is s after the time a is s - d after the time d later.             *)
LEMMA SignedLater ==
  ASSUME NEW a \in Key, NEW k \in Key, NEW d \in Nat, d < Half, Signed(k, a) - d >= -Half
  PROVE  Signed(k, (a + d) % Modulus) = Signed(k, a) - d
<1>1. Half \in Nat /\ Half > 0 /\ Modulus = 2 * Half /\ a \in 0 .. Modulus - 1 /\ k \in 0 .. Modulus - 1
  BY RbTreeAssumption DEF Modulus, Key
<1> DEFINE b == (a + d) % Modulus
<1>2. (a + d < Modulus => b = a + d) /\ (a + d >= Modulus => b = a + d - Modulus)
  BY <1>1, ModOnce
<1>3. b \in Key
  BY SignedAfter
<1> HIDE DEF b
<1>4. b \in 0 .. Modulus - 1
  BY <1>3 DEF Key
<1> DEFINE s == Signed(k, a)
           r == Signed(k, b)
<1>5. /\ k - a >= Half => s = k - a - Modulus
      /\ -Half <= k - a /\ k - a < Half => s = k - a
      /\ k - a < -Half => s = k - a + Modulus
      /\ s \in -Half .. Half - 1
  BY SignedIs
<1>6. /\ k - b >= Half => r = k - b - Modulus
      /\ -Half <= k - b /\ k - b < Half => r = k - b
      /\ k - b < -Half => r = k - b + Modulus
      /\ r \in -Half .. Half - 1
  BY <1>3, SignedIs
<1>7. s - d >= -Half
  OBVIOUS
<1> HIDE DEF s, r
<1>8. r = s - d
  BY <1>1, <1>2, <1>4, <1>5, <1>6, <1>7
<1> QED BY <1>8 DEF s, r, b

(* Two times that are less than half of the clock apart.                   *)
LEMMA SignedBetween ==
  ASSUME NEW a \in Key, NEW k \in Key, NEW j \in Key, Signed(k, a) - Signed(j, a) >= -Half, Signed(k, a) - Signed(j, a) < Half
  PROVE  Signed(k, j) = Signed(k, a) - Signed(j, a)
<1>1. Half \in Nat /\ Half > 0 /\ Modulus = 2 * Half /\ a \in 0 .. Modulus - 1 /\ k \in 0 .. Modulus - 1 /\ j \in 0 .. Modulus - 1
  BY RbTreeAssumption DEF Modulus, Key
<1> DEFINE s == Signed(k, a)
           r == Signed(j, a)
           q == Signed(k, j)
<1>2. /\ k - a >= Half => s = k - a - Modulus
      /\ -Half <= k - a /\ k - a < Half => s = k - a
      /\ k - a < -Half => s = k - a + Modulus
      /\ s \in -Half .. Half - 1
  BY SignedIs
<1>3. /\ j - a >= Half => r = j - a - Modulus
      /\ -Half <= j - a /\ j - a < Half => r = j - a
      /\ j - a < -Half => r = j - a + Modulus
      /\ r \in -Half .. Half - 1
  BY SignedIs
<1>4. /\ k - j >= Half => q = k - j - Modulus
      /\ -Half <= k - j /\ k - j < Half => q = k - j
      /\ k - j < -Half => q = k - j + Modulus
      /\ q \in -Half .. Half - 1
  BY SignedIs
<1>5. s - r >= -Half /\ s - r < Half
  OBVIOUS
<1> HIDE DEF s, r, q
<1>6. q = s - r
  BY <1>1, <1>2, <1>3, <1>4, <1>5
<1> QED BY <1>6 DEF s, r, q

-------------------------------------------------------------------------------
(* Other ranks, other keys, no nodes.                                      *)
LEMMA Reranked ==
  ASSUME NEW t, NEW d \in Ranks, NEW e \in Ranks, NEW T, NEW kk, IsTree(t, d, T, kk),
         \A a \in T, b \in T : Rank(d, a) <= Rank(d, b) => Rank(e, a) <= Rank(e, b)
  PROVE  IsTree(t, e, T, kk)
<1>1. PICK u, h : TreeWith(t, u, h, d, T, kk)
  BY DEF IsTree
<1>2. Sound(t, u, h) /\ Order(t, u, d) /\ All(t, u) = T /\ Keys(t) = kk /\ Shape(t, u)
  BY <1>1 DEF TreeWith, Sound
<1>3. \A a \in All(t, u) : NodeFacts(t, u, a)
  BY <1>2, ShapeFacts
<1>4. ASSUME NEW a \in All(t, u), NEW s \in Side, NEW b \in Sub(u, Kid(t, s, a)) PROVE Apart(e, s, b, a)
  <2>1. b \in T /\ a \in T
    BY <1>2, <1>3 DEF NodeFacts
  <2> QED BY <1>2, <2>1 DEF Order, Apart
<1>5. Order(t, u, e)
  BY <1>4 DEF Order
<1> QED BY <1>2, <1>5 DEF TreeWith, IsTree

LEMMA Rekeyed ==
  ASSUME NEW t, NEW d, NEW T, NEW kk, IsTree(t, d, T, kk), NEW n \in Node, NEW k \in Key
  PROVE  IsTree(PutKey(t, n, k), d, T, [kk EXCEPT ![n] = k])
<1>1. PICK u, h : TreeWith(t, u, h, d, T, kk)
  BY DEF IsTree
<1>2. Shape(t, u) /\ Keys(t) = kk
  BY <1>1 DEF TreeWith, Sound
<1>3. t \in Tree /\ n \in Ptr /\ \A a \in All(t, u) : a \in Ptr
  BY <1>2, ShapeFacts DEF NodeFacts, Ptr
<1> DEFINE v == PutKey(t, n, k)
<1>4. KeyIs(v, t, n, k)
  BY <1>3, KeyPut
<1> HIDE DEF v
<1>5. Sentinel \in Ptr
  BY DEF Ptr
<1>6. FieldsKept(v, t, u) /\ Keys(v) = [kk EXCEPT ![n] = k]
  BY <1>2, <1>3, <1>4, <1>5 DEF KeyIs, FieldsKept, LinksKept
<1>7. TreeWith(v, u, h, d, T, Keys(v))
  BY <1>1, <1>2, <1>6, KeptTree
<1>8. IsTree(v, d, T, Keys(v))
  BY <1>7 DEF IsTree
<1> QED BY <1>6, <1>8 DEF v

LEMMA EmptyIsTree ==
  ASSUME NEW d
  PROVE  IsTree(EmptyTree, d, {}, Keys(EmptyTree))
<1> DEFINE u == [a \in Ptr |-> {}]
           h == [a \in Ptr |-> 0]
           t == EmptyTree
<1>1. Sentinel \in Ptr /\ 0 \in Key /\ FALSE \in BOOLEAN
  BY RbTreeAssumption DEF Ptr, Key, Modulus
<1>2. t \in Tree /\ Top(t) = Sentinel /\ Weight(t, Sentinel) = 1
  BY <1>1 DEF EmptyTree, Tree, Top, Weight
<1>3. u \in Subs /\ (\A a \in Ptr : \A b : b \notin Sub(u, a)) /\ h \in Levels /\ Lvl(h, Sentinel) = 0
  BY <1>1 DEF Subs, Sub, Levels, Lvl
<1> HIDE DEF u, h, t
<1>4. \A b : b \notin All(t, u)
  BY <1>1, <1>2, <1>3 DEF All
<1>5. Down(t, u) /\ Parts(t, u) /\ Nested(t, u) /\ Upward(t, u)
  BY <1>4 DEF Down, Parts, Nested, Upward
<1>6. Shape(t, u)
  BY <1>1, <1>2, <1>3, <1>5 DEF Shape
<1>7. Level(t, u, h, "left", Sentinel) /\ RedRule(t, u, Sentinel, Sentinel) /\ Order(t, u, d)
  BY <1>2, <1>3, <1>4 DEF Level, RedRule, Order
<1>8. All(t, u) = {}
  BY <1>4
<1>9. TreeWith(t, u, h, d, {}, Keys(t))
  BY <1>2, <1>6, <1>7, <1>8 DEF TreeWith, Sound
<1> QED BY <1>9 DEF IsTree, t

LEMMA IsTreeFacts ==
  ASSUME NEW t, NEW d \in Ranks, NEW T, NEW kk, IsTree(t, d, T, kk)
  PROVE  /\ t \in Tree /\ Keys(t) = kk /\ kk \in [Ptr -> Key] /\ T \in SUBSET Node /\ (Top(t) = Sentinel <=> T = {})
         /\ T # {} => MinFrom(t, Top(t)) \in T /\ \A a \in T : Rank(d, MinFrom(t, Top(t))) <= Rank(d, a)
<1>1. PICK u, h : TreeWith(t, u, h, d, T, kk)
  BY DEF IsTree
<1>2. Order(t, u, d) /\ All(t, u) = T /\ Keys(t) = kk /\ Shape(t, u)
  BY <1>1 DEF TreeWith, Sound
<1>3. t \in Tree /\ (\A a \in All(t, u) : NodeFacts(t, u, a)) /\ \A b : b \notin Sub(u, Sentinel)
  BY <1>2, ShapeFacts DEF Shape
<1>4. kk \in [Ptr -> Key]
  BY <1>2, <1>3, Fields
<1>5. T \in SUBSET Node
  BY <1>2, <1>3 DEF NodeFacts
<1>6. Top(t) # Sentinel => Top(t) \in T
  BY <1>2 DEF Shape
<1>7. Top(t) = Sentinel => T = {}
  BY <1>2, <1>3 DEF All
<1>8. ASSUME T # {} PROVE MinFrom(t, Top(t)) \in T /\ \A a \in T : Rank(d, MinFrom(t, Top(t))) <= Rank(d, a)
  <2>1. Top(t) \in All(t, u)
    BY <1>2, <1>6, <1>7, <1>8
  <2>2. MinFrom(t, Top(t)) \in Sub(u, Top(t)) /\ \A b \in Sub(u, Top(t)) : Apart(d, "left", MinFrom(t, Top(t)), b)
    BY <1>2, <2>1, MinIsFirst
  <2> QED BY <1>2, <2>2 DEF All, Apart
<1> QED BY <1>2, <1>3, <1>4, <1>5, <1>6, <1>7, <1>8

-------------------------------------------------------------------------------
(* The tree of the timers at a time of the clock.                          *)

KeyAt(kk, a) == kk[a]
Distances(now, kk) == [a \in Ptr |-> Signed(kk[a], now)]

(* No time of a timer that is set is further away than the clock can tell. *)
InReach(now, floor, kk, T) ==
  \A a \in T : floor <= Signed(KeyAt(kk, a), now) /\ Signed(KeyAt(kk, a), now) + Lag < Half

Holds(now, floor, t, T) == IsTree(t, Distances(now, Keys(t)), T, Keys(t)) /\ InReach(now, floor, Keys(t), T)

LEMMA Bounds ==
  /\ Half \in Nat /\ Half > 0 /\ Lag \in Nat /\ Lag < Half
  /\ \A d \in Delays : d \in Nat /\ d >= 1 /\ d + Lag < Half
<1>1. Half \in Nat /\ Half > 0 /\ Modulus = 2 * Half
  BY RbTreeAssumption DEF Modulus
<1>2. \A d \in Delays : d \in Nat /\ d >= 1 /\ d + Lag < Half
  BY <1>1, TimersAssumption
<1>3. Lag \in Nat /\ Delays # {}
  BY TimersAssumption
<1>4. Lag < Half
  BY <1>1, <1>2, <1>3
<1> QED BY <1>1, <1>2, <1>3, <1>4

LEMMA DistancesAre ==
  ASSUME NEW now \in Key, NEW kk \in [Ptr -> Key]
  PROVE  /\ Distances(now, kk) \in Ranks
         /\ \A a \in Ptr : KeyAt(kk, a) \in Key /\ Signed(KeyAt(kk, a), now) \in Int
                           /\ Rank(Distances(now, kk), a) = Signed(KeyAt(kk, a), now)
<1>1. ASSUME NEW a \in Ptr PROVE KeyAt(kk, a) \in Key /\ Signed(KeyAt(kk, a), now) \in Int
  <2>1. KeyAt(kk, a) \in Key
    BY DEF KeyAt
  <2>2. Signed(KeyAt(kk, a), now) \in -Half .. Half - 1
    BY <2>1, SignedIs
  <2> QED BY <2>1, <2>2, Bounds
<1>2. Distances(now, kk) = [a \in Ptr |-> Signed(KeyAt(kk, a), now)]
  BY DEF Distances, KeyAt
<1> QED BY <1>1, <1>2 DEF Ranks, Rank

LEMMA HoldsFacts ==
  ASSUME NEW now \in Key, NEW floor, NEW t, NEW T, Holds(now, floor, t, T)
  PROVE  /\ t \in Tree /\ Keys(t) \in [Ptr -> Key] /\ Distances(now, Keys(t)) \in Ranks
         /\ T \in SUBSET Node /\ \A a \in T : a \in Ptr /\ a \in Node
         /\ \A a \in Ptr : KeyAt(Keys(t), a) \in Key /\ Signed(KeyAt(Keys(t), a), now) \in Int
                           /\ Rank(Distances(now, Keys(t)), a) = Signed(KeyAt(Keys(t), a), now)
<1> DEFINE kk == Keys(t)
           d == Distances(now, kk)
<1>1. PICK u, h : TreeWith(t, u, h, d, T, kk)
  BY DEF Holds, IsTree
<1>2. t \in Tree
  BY <1>1 DEF TreeWith, Sound, Shape
<1>3. kk \in [Ptr -> Key]
  BY <1>2 DEF Tree, Keys
<1>4. d \in Ranks
  BY <1>3, DistancesAre
<1>5. T \in SUBSET Node
  BY <1>4, IsTreeFacts DEF Holds
<1>6. \A a \in T : a \in Ptr /\ a \in Node
  BY <1>5 DEF Ptr
<1> QED BY <1>2, <1>3, <1>4, <1>5, <1>6, DistancesAre

(* The same tree at another time, or with other keys outside of it.        *)
LEMMA HoldsAgain ==
  ASSUME NEW now \in Key, NEW d \in Ranks, NEW t, NEW T, NEW kk, IsTree(t, d, T, kk),
         \A a \in T, b \in T : Rank(d, a) <= Rank(d, b) => Signed(KeyAt(kk, a), now) <= Signed(KeyAt(kk, b), now),
         NEW floor, InReach(now, floor, kk, T)
  PROVE  Holds(now, floor, t, T)
<1>1. kk \in [Ptr -> Key] /\ Keys(t) = kk /\ T \in SUBSET Node
  BY IsTreeFacts
<1>2. \A a \in T : a \in Ptr
  BY <1>1 DEF Ptr
<1>3. Distances(now, kk) \in Ranks
  BY <1>1, DistancesAre
<1>4. \A a \in T, b \in T : Rank(d, a) <= Rank(d, b) => Rank(Distances(now, kk), a) <= Rank(Distances(now, kk), b)
  BY <1>1, <1>2, DistancesAre
<1>5. IsTree(t, Distances(now, kk), T, kk)
  BY <1>3, <1>4, Reranked
<1> QED BY <1>1, <1>5 DEF Holds

LEMMA HoldsDeleted ==
  ASSUME NEW now \in Key, NEW floor, NEW t, NEW T, Holds(now, floor, t, T), NEW n \in T
  PROVE  Holds(now, floor, Delete(t, n), T \ {n})
<1> DEFINE kk == Keys(t)
           d == Distances(now, kk)
           w == [kk EXCEPT ![n] = 0]
<1>1. IsTree(t, d, T, kk) /\ InReach(now, floor, kk, T)
  BY DEF Holds
<1>2. kk \in [Ptr -> Key] /\ d \in Ranks /\ (\A a \in T : a \in Ptr) /\ \A a \in Ptr : Rank(d, a) = Signed(KeyAt(kk, a), now)
  BY HoldsFacts
<1> HIDE DEF kk, d
<1>3. IsTree(Delete(t, n), d, T \ {n}, w)
  BY <1>1, <1>2, Deleted
<1>4. \A a \in T \ {n} : KeyAt(w, a) = KeyAt(kk, a)
  BY <1>2 DEF KeyAt
<1> HIDE DEF w
<1>5. InReach(now, floor, w, T \ {n})
  BY <1>1, <1>4 DEF InReach
<1>6. \A a \in T \ {n} : Rank(d, a) = Signed(KeyAt(w, a), now)
  BY <1>2, <1>4
<1> QED BY <1>2, <1>3, <1>5, <1>6, HoldsAgain

LEMMA HoldsKeyed ==
  ASSUME NEW now \in Key, NEW floor, NEW t, NEW T, Holds(now, floor, t, T), NEW n \in Node, n \notin T, NEW k \in Key
  PROVE  Holds(now, floor, PutKey(t, n, k), T) /\ KeyAt(Keys(PutKey(t, n, k)), n) = k
<1> DEFINE kk == Keys(t)
           d == Distances(now, kk)
           w == [kk EXCEPT ![n] = k]
<1>1. IsTree(t, d, T, kk) /\ InReach(now, floor, kk, T)
  BY DEF Holds
<1>2. kk \in [Ptr -> Key] /\ d \in Ranks /\ (\A a \in T : a \in Ptr) /\ (\A a \in Ptr : Rank(d, a) = Signed(KeyAt(kk, a), now)) /\ n \in Ptr
  BY HoldsFacts DEF Ptr
<1> HIDE DEF kk, d
<1>3. IsTree(PutKey(t, n, k), d, T, w)
  BY <1>1, Rekeyed
<1>4. (\A a \in T : KeyAt(w, a) = KeyAt(kk, a)) /\ KeyAt(w, n) = k
  BY <1>2 DEF KeyAt
<1> HIDE DEF w
<1>5. InReach(now, floor, w, T)
  BY <1>1, <1>4 DEF InReach
<1>6. \A a \in T : Rank(d, a) = Signed(KeyAt(w, a), now)
  BY <1>2, <1>4
<1>7. Holds(now, floor, PutKey(t, n, k), T)
  BY <1>2, <1>3, <1>5, <1>6, HoldsAgain
<1>8. Keys(PutKey(t, n, k)) = w
  BY <1>2, <1>3, IsTreeFacts
<1> QED BY <1>4, <1>7, <1>8

(* The signed difference of two near times is that of their distances.     *)
LEMMA InReachDiffer ==
  ASSUME NEW now \in Key, NEW floor \in Int, floor >= -Lag, NEW a \in Key, NEW b \in Key,
         floor <= Signed(a, now), Signed(a, now) + Lag < Half, floor <= Signed(b, now), Signed(b, now) + Lag < Half
  PROVE  Signed(a, b) = Signed(a, now) - Signed(b, now)
<1>1. Signed(a, now) \in Int /\ Signed(b, now) \in Int
  BY SignedIs, Bounds
<1> DEFINE r == Signed(a, now)
           s == Signed(b, now)
<1> HIDE DEF r, s
<1>2. r - s >= -Half /\ r - s < Half
  BY <1>1, Bounds DEF r, s
<1> QED BY <1>2, SignedBetween DEF r, s

LEMMA HoldsInserted ==
  ASSUME NEW now \in Key, NEW floor \in Int, floor >= -Lag, NEW t, NEW T, Holds(now, floor, t, T), NEW n \in Node, n \notin T,
         floor <= Signed(KeyAt(Keys(t), n), now), Signed(KeyAt(Keys(t), n), now) + Lag < Half
  PROVE  Holds(now, floor, Insert(t, n), T \cup {n})
<1> DEFINE kk == Keys(t)
           d == Distances(now, kk)
<1>1. IsTree(t, d, T, kk) /\ InReach(now, floor, kk, T)
  BY DEF Holds
<1>2. /\ kk \in [Ptr -> Key] /\ d \in Ranks /\ \A a \in T : a \in Ptr
      /\ \A a \in Ptr : KeyAt(kk, a) \in Key /\ Signed(KeyAt(kk, a), now) \in Int /\ Rank(d, a) = Signed(KeyAt(kk, a), now)
      /\ n \in Ptr
  BY HoldsFacts DEF Ptr
<1> HIDE DEF kk, d
<1>3. ASSUME NEW a \in T PROVE GoesLeft(kk[n], kk[a]) <=> Rank(d, n) < Rank(d, a)
  <2>1. Signed(KeyAt(kk, n), KeyAt(kk, a)) = Signed(KeyAt(kk, n), now) - Signed(KeyAt(kk, a), now)
    BY <1>1, <1>2, InReachDiffer DEF InReach, kk
  <2>2. Signed(KeyAt(kk, n), KeyAt(kk, a)) = Rank(d, n) - Rank(d, a) /\ Rank(d, n) \in Int /\ Rank(d, a) \in Int
    BY <1>2, <2>1
  <2>3. GoesLeft(kk[n], kk[a]) <=> Signed(KeyAt(kk, n), KeyAt(kk, a)) < 0
    BY DEF GoesLeft, KeyAt
  <2> QED BY <2>2, <2>3
<1>4. IsTree(Insert(t, n), d, T \cup {n}, kk)
  BY <1>1, <1>2, <1>3, Inserted
<1>5. InReach(now, floor, kk, T \cup {n})
  BY <1>1 DEF InReach, kk
<1>6. \A a \in T \cup {n} : Rank(d, a) = Signed(KeyAt(kk, a), now)
  BY <1>2
<1> QED BY <1>2, <1>4, <1>5, <1>6, HoldsAgain

(* The time goes on, not too far.                                          *)
LEMMA HoldsLater ==
  ASSUME NEW now \in Key, NEW floor \in Int, floor >= -Lag, NEW t, NEW T, Holds(now, floor, t, T), NEW d \in Nat, d < Half,
         NEW low \in Int, low >= -Lag, \A a \in T : Signed(KeyAt(Keys(t), a), now) - d >= low
  PROVE  Holds((now + d) % Modulus, low, t, T)
<1> DEFINE kk == Keys(t)
           e == Distances(now, kk)
           later == (now + d) % Modulus
<1>1. IsTree(t, e, T, kk) /\ InReach(now, floor, kk, T)
  BY DEF Holds
<1>2. /\ kk \in [Ptr -> Key] /\ e \in Ranks /\ \A a \in T : a \in Ptr
      /\ \A a \in Ptr : KeyAt(kk, a) \in Key /\ Signed(KeyAt(kk, a), now) \in Int /\ Rank(e, a) = Signed(KeyAt(kk, a), now)
  BY HoldsFacts
<1> HIDE DEF kk, e
<1>3. later \in Key
  BY SignedAfter
<1>4. \A a \in T : Signed(KeyAt(kk, a), now) - d >= -Half
  BY <1>2, Bounds DEF kk
<1>5. \A a \in T : Signed(KeyAt(kk, a), later) = Signed(KeyAt(kk, a), now) - d
  BY <1>2, <1>4, SignedLater
<1> HIDE DEF later
<1>6. InReach(later, low, kk, T)
  BY <1>1, <1>2, <1>5, Bounds DEF InReach, kk
<1>7. \A a \in T, b \in T : Rank(e, a) <= Rank(e, b) => Signed(KeyAt(kk, a), later) <= Signed(KeyAt(kk, b), later)
  BY <1>2, <1>5
<1>8. Holds(later, low, t, T)
  BY <1>1, <1>2, <1>3, <1>6, <1>7, HoldsAgain
<1> QED BY <1>8 DEF later

-------------------------------------------------------------------------------
(* The handlers of ngx_event_timer.h.                                      *)

SetIn(S) == {e \in Node : S[e]}
TreeIn(b) == b.tree
FlagsIn(b) == b.set

(* A tree of the timers that are set, none of them before floor.           *)
GoodAt(now, floor, t, S) == S \in [Node -> BOOLEAN] /\ Holds(now, floor, t, SetIn(S))

LEMMA FlagsPut ==
  ASSUME NEW S \in [Node -> BOOLEAN], NEW e \in Node
  PROVE  /\ [S EXCEPT ![e] = FALSE] \in [Node -> BOOLEAN] /\ SetIn([S EXCEPT ![e] = FALSE]) = SetIn(S) \ {e}
         /\ [S EXCEPT ![e] = TRUE] \in [Node -> BOOLEAN] /\ SetIn([S EXCEPT ![e] = TRUE]) = SetIn(S) \cup {e}
BY DEF SetIn

LEMMA DeletedIs ==
  ASSUME NEW b, NEW e
  PROVE  TreeIn(TimerDeleted(b, e)) = Delete(TreeIn(b), e) /\ FlagsIn(TimerDeleted(b, e)) = [FlagsIn(b) EXCEPT ![e] = FALSE]
BY DEF TimerDeleted, Both, TreeIn, FlagsIn

LEMMA GoodDeleted ==
  ASSUME NEW now \in Key, NEW floor, NEW b, GoodAt(now, floor, TreeIn(b), FlagsIn(b)), NEW e \in SetIn(FlagsIn(b))
  PROVE  GoodAt(now, floor, TreeIn(TimerDeleted(b, e)), FlagsIn(TimerDeleted(b, e)))
<1>1. e \in Node /\ FlagsIn(b) \in [Node -> BOOLEAN] /\ Holds(now, floor, TreeIn(b), SetIn(FlagsIn(b)))
  BY DEF GoodAt, SetIn
<1>2. Holds(now, floor, Delete(TreeIn(b), e), SetIn(FlagsIn(b)) \ {e})
  BY <1>1, HoldsDeleted
<1> DEFINE S == FlagsIn(b)
           w == [S EXCEPT ![e] = FALSE]
<1>3. w \in [Node -> BOOLEAN] /\ SetIn(w) = SetIn(S) \ {e}
  BY <1>1, FlagsPut
<1>4. TreeIn(TimerDeleted(b, e)) = Delete(TreeIn(b), e) /\ FlagsIn(TimerDeleted(b, e)) = w
  BY DeletedIs
<1> HIDE DEF w
<1> QED BY <1>2, <1>3, <1>4 DEF GoodAt

(* What a timer is added to: a timer that is set is deleted first.         *)
Without(b, e) == IF b.set[e] THEN TimerDeleted(b, e) ELSE b
Added(t, e, key) == Insert(PutKey(t, e, key), e)
TimeAfter(delay) == (ngx_current_msec + delay) % Modulus

LEMMA AddedIs ==
  ASSUME NEW b, NEW e, NEW delay
  PROVE  \/ TimerAdded(b, e, delay) = b
         \/ /\ TreeIn(TimerAdded(b, e, delay)) = Added(TreeIn(Without(b, e)), e, TimeAfter(delay))
            /\ FlagsIn(TimerAdded(b, e, delay)) = [FlagsIn(b) EXCEPT ![e] = TRUE]
BY DEF TimerAdded, Without, Added, PutKey, TimeAfter, Both, TreeIn, FlagsIn

LEMMA WithoutIs ==
  ASSUME NEW now \in Key, NEW floor, NEW b, GoodAt(now, floor, TreeIn(b), FlagsIn(b)), NEW e \in Node
  PROVE  Holds(now, floor, TreeIn(Without(b, e)), SetIn(FlagsIn(b)) \ {e})
<1>1. CASE FlagsIn(b)[e]
  <2>1. e \in SetIn(FlagsIn(b)) /\ Without(b, e) = TimerDeleted(b, e)
    BY <1>1 DEF SetIn, Without, FlagsIn
  <2> QED BY <2>1, DeletedIs, HoldsDeleted DEF GoodAt
<1>2. CASE ~FlagsIn(b)[e]
  <2>1. SetIn(FlagsIn(b)) \ {e} = SetIn(FlagsIn(b)) /\ Without(b, e) = b
    BY <1>2 DEF SetIn, Without, FlagsIn
  <2> QED BY <2>1 DEF GoodAt
<1> QED BY <1>1, <1>2

LEMMA GoodAdded ==
  ASSUME ngx_current_msec \in Key, NEW floor \in Int, -Lag <= floor, floor <= 1,
         NEW b, GoodAt(ngx_current_msec, floor, TreeIn(b), FlagsIn(b)), NEW e \in Node, NEW delay \in Delays
  PROVE  LET c == TimerAdded(b, e, delay) IN GoodAt(ngx_current_msec, floor, TreeIn(c), FlagsIn(c))
<1> DEFINE c == TimerAdded(b, e, delay)
           key == TimeAfter(delay)
           w == TreeIn(Without(b, e))
           T == SetIn(FlagsIn(b)) \ {e}
<1>1. CASE c = b
  BY <1>1
<1>2. CASE TreeIn(c) = Added(w, e, key) /\ FlagsIn(c) = [FlagsIn(b) EXCEPT ![e] = TRUE]
  <2>1. delay \in Nat /\ delay >= 1 /\ delay + Lag < Half /\ delay < Half
    BY Bounds
  <2>2. key \in Key /\ Signed(key, ngx_current_msec) = delay
    BY <2>1, SignedAfter DEF TimeAfter
  <2>3. Holds(ngx_current_msec, floor, w, T) /\ e \notin T
    BY WithoutIs
  <2> HIDE DEF c, key, w
  <2>4. Holds(ngx_current_msec, floor, PutKey(w, e, key), T) /\ KeyAt(Keys(PutKey(w, e, key)), e) = key
    BY <2>2, <2>3, HoldsKeyed
  <2>5. floor <= delay
    BY <2>1
  <2>6. Holds(ngx_current_msec, floor, Added(w, e, key), T \cup {e})
    BY <2>1, <2>2, <2>3, <2>4, <2>5, HoldsInserted DEF Added
  <2>7. FlagsIn(b) \in [Node -> BOOLEAN]
    BY DEF GoodAt
  <2>8. T \cup {e} = SetIn(FlagsIn(b)) \cup {e}
    OBVIOUS
  <2> DEFINE S == [FlagsIn(b) EXCEPT ![e] = TRUE]
  <2>9. S \in [Node -> BOOLEAN] /\ SetIn(S) = T \cup {e}
    BY <2>7, <2>8, FlagsPut
  <2> HIDE DEF S, T
  <2>10. TreeIn(c) = Added(w, e, key) /\ FlagsIn(c) = S
    BY <1>2 DEF S, c, w, key
  <2> QED BY <2>6, <2>9, <2>10 DEF GoodAt, c
<1> QED BY <1>1, <1>2, AddedIs

LEMMA GoodHandled ==
  ASSUME ngx_current_msec \in Key, NEW floor \in Int, -Lag <= floor, floor <= 1,
         NEW b, GoodAt(ngx_current_msec, floor, TreeIn(b), FlagsIn(b)), NEW c \in Handled(b)
  PROVE  GoodAt(ngx_current_msec, floor, TreeIn(c), FlagsIn(c))
<1>1. CASE c = b
  BY <1>1
<1>2. ASSUME NEW e \in Node, NEW d \in Delays, c = TimerAdded(b, e, d)
      PROVE  GoodAt(ngx_current_msec, floor, TreeIn(c), FlagsIn(c))
  BY <1>2, GoodAdded
<1>3. ASSUME NEW e \in Node, b.set[e], c = TimerDeleted(b, e)
      PROVE  GoodAt(ngx_current_msec, floor, TreeIn(c), FlagsIn(c))
  <2>1. e \in SetIn(FlagsIn(b))
    BY <1>3 DEF SetIn, FlagsIn
  <2> QED BY <1>3, <2>1, GoodDeleted
<1>4. \/ c = b
      \/ \E e \in Node, d \in Delays : c = TimerAdded(b, e, d)
      \/ \E e \in Node : b.set[e] /\ c = TimerDeleted(b, e)
  BY DEF Handled
<1> QED BY <1>1, <1>2, <1>3, <1>4

-------------------------------------------------------------------------------
(* The rounds of the event loop.                                           *)

(* Once the due timers are called, all that are set are still to come.     *)
Floor(p) == IF p = "posted" THEN 1 ELSE -Lag

TimersIInv ==
  /\ ngx_current_msec \in Key /\ phase \in {"posted", "events", "expire"}
  /\ late \in Int /\ 0 <= late /\ late <= Lag
  /\ GoodAt(ngx_current_msec, Floor(phase), timers, timer_set)

LEMMA FloorIs ==
  ASSUME NEW p
  PROVE  Floor(p) \in Int /\ -Lag <= Floor(p) /\ Floor(p) <= 1
BY Bounds DEF Floor

(* ngx_rbtree_min() finds the timer that comes first.                      *)
LEMMA FirstIs ==
  ASSUME TimersIInv
  PROVE  /\ timers.root = Sentinel <=> SetIn(timer_set) = {}
         /\ timers.root # Sentinel =>
              /\ First \in SetIn(timer_set)
              /\ \A a \in SetIn(timer_set) : Until(timers.key[First]) <= Until(timers.key[a])
         /\ \A a \in SetIn(timer_set) :
              /\ a \in Node /\ Until(timers.key[a]) \in Int
              /\ Until(timers.key[a]) = Signed(KeyAt(Keys(timers), a), ngx_current_msec)
              /\ Floor(phase) <= Until(timers.key[a])
<1> DEFINE d == Distances(ngx_current_msec, Keys(timers))
           T == SetIn(timer_set)
<1>1. ngx_current_msec \in Key /\ Holds(ngx_current_msec, Floor(phase), timers, T)
  BY DEF TimersIInv, GoodAt
<1>2. IsTree(timers, d, T, Keys(timers)) /\ InReach(ngx_current_msec, Floor(phase), Keys(timers), T)
  BY <1>1 DEF Holds
<1>3. d \in Ranks /\ T \in SUBSET Node
  BY <1>1, HoldsFacts
<1>4. \A a \in T : /\ a \in Node /\ Signed(KeyAt(Keys(timers), a), ngx_current_msec) \in Int
                   /\ Rank(d, a) = Signed(KeyAt(Keys(timers), a), ngx_current_msec)
  BY <1>1, HoldsFacts
<1> HIDE DEF d, T
<1>5. \A a : Until(timers.key[a]) = Signed(KeyAt(Keys(timers), a), ngx_current_msec)
  BY DEF Until, KeyAt, Keys
<1>6. Top(timers) = timers.root /\ First = MinFrom(timers, Top(timers))
  BY DEF Top, First
<1>7. (Top(timers) = Sentinel <=> T = {}) /\ (T # {} => First \in T /\ \A a \in T : Rank(d, First) <= Rank(d, a))
  BY <1>2, <1>3, <1>6, IsTreeFacts
<1>8. \A a \in T : Floor(phase) <= Until(timers.key[a])
  BY <1>2, <1>5 DEF InReach
<1> QED BY <1>4, <1>5, <1>6, <1>7, <1>8 DEF T

LEMMA WaitKeeps ==
  ASSUME TimersIInv, Wait
  PROVE  TimersIInv'
<1> DEFINE T == SetIn(timer_set)
<1>1. /\ ngx_current_msec \in Key /\ phase = "posted"
      /\ timer_set \in [Node -> BOOLEAN] /\ Holds(ngx_current_msec, 1, timers, T)
  BY DEF TimersIInv, GoodAt, Floor, Wait
<1>2. PICK d \in 1 .. Half - 1 : (FindTimer >= 0 => d <= FindTimer + Lag) /\ ngx_current_msec' = (ngx_current_msec + d) % Modulus
  BY DEF Wait
<1>3. d \in Nat /\ d < Half /\ Lag \in Nat
  BY <1>2, Bounds
<1>4. ASSUME NEW a \in T PROVE Signed(KeyAt(Keys(timers), a), ngx_current_msec) - d >= -Lag
  <2>1. timers.root # Sentinel /\ First \in T
    BY FirstIs
  <2>2. /\ Until(timers.key[First]) \in Int /\ Until(timers.key[a]) \in Int /\ Until(timers.key[First]) <= Until(timers.key[a])
        /\ Until(timers.key[a]) = Signed(KeyAt(Keys(timers), a), ngx_current_msec)
        /\ 1 <= Until(timers.key[First])
    BY <1>1, <2>1, FirstIs DEF Floor
  <2>3. FindTimer = Until(timers.key[First])
    BY <2>1, <2>2 DEF FindTimer
  <2> QED BY <1>2, <1>3, <2>2, <2>3
<1> HIDE DEF T
<1>5. Holds(ngx_current_msec', -Lag, timers, T)
  BY <1>1, <1>2, <1>3, <1>4, HoldsLater
<1>6. ngx_current_msec' \in Key
  BY <1>1, <1>2, <1>3, SignedAfter
<1>7. GoodAt(ngx_current_msec', Floor("events"), timers, timer_set)
  BY <1>1, <1>5 DEF GoodAt, Floor, T
<1> QED BY <1>3, <1>6, <1>7 DEF TimersIInv, Wait

LEMMA HandleKeeps ==
  ASSUME TimersIInv, Handle
  PROVE  TimersIInv'
<1>1. PICK b \in Handled(Now) : timers' = TreeIn(b) /\ timer_set' = FlagsIn(b)
  BY DEF Handle, Kept, TreeIn, FlagsIn
<1>2. TreeIn(Now) = timers /\ FlagsIn(Now) = timer_set
  BY DEF Now, Both, TreeIn, FlagsIn
<1>3. ngx_current_msec \in Key /\ GoodAt(ngx_current_msec, Floor(phase), TreeIn(Now), FlagsIn(Now))
  BY <1>2 DEF TimersIInv
<1>4. GoodAt(ngx_current_msec, Floor(phase), TreeIn(b), FlagsIn(b))
  BY <1>1, <1>3, FloorIs, GoodHandled
<1> QED BY <1>1, <1>4 DEF TimersIInv, Handle

LEMMA ExpireTimerKeeps ==
  ASSUME TimersIInv, ExpireTimer
  PROVE  TimersIInv'
<1>1. PICK b \in Handled(TimerDeleted(Now, First)) : timers' = TreeIn(b) /\ timer_set' = FlagsIn(b)
  BY DEF ExpireTimer, Kept, TreeIn, FlagsIn
<1>2. TreeIn(Now) = timers /\ FlagsIn(Now) = timer_set
  BY DEF Now, Both, TreeIn, FlagsIn
<1>3. ngx_current_msec \in Key /\ GoodAt(ngx_current_msec, Floor(phase), TreeIn(Now), FlagsIn(Now))
  BY <1>2 DEF TimersIInv
<1>4. First \in SetIn(FlagsIn(Now)) /\ Until(timers.key[First]) <= 0 /\ Until(timers.key[First]) \in Int
      /\ Floor(phase) <= Until(timers.key[First])
  BY <1>2, FirstIs DEF ExpireTimer, Due
<1> DEFINE w == TimerDeleted(Now, First)
<1>5. GoodAt(ngx_current_msec, Floor(phase), TreeIn(w), FlagsIn(w))
  BY <1>3, <1>4, GoodDeleted
<1> HIDE DEF w
<1>6. GoodAt(ngx_current_msec, Floor(phase), TreeIn(b), FlagsIn(b))
  BY <1>1, <1>3, <1>5, FloorIs, GoodHandled DEF w
<1>7. late' \in Int /\ 0 <= late' /\ late' <= Lag
  <2>1. late' = -Until(timers.key[First]) /\ Floor(phase) = -Lag
    BY DEF ExpireTimer, Floor
  <2> QED BY <1>4, <2>1, Bounds
<1> QED BY <1>1, <1>6, <1>7 DEF TimersIInv, ExpireTimer

LEMMA ExpiredKeeps ==
  ASSUME TimersIInv, Expired
  PROVE  TimersIInv'
<1>1. ngx_current_msec \in Key /\ timer_set \in [Node -> BOOLEAN] /\ Holds(ngx_current_msec, Floor(phase), timers, SetIn(timer_set))
  BY DEF TimersIInv, GoodAt
<1>2. ASSUME NEW a \in SetIn(timer_set) PROVE 1 <= Signed(KeyAt(Keys(timers), a), ngx_current_msec)
  <2>1. timers.root # Sentinel
    BY FirstIs
  <2>2. First \in SetIn(timer_set)
    BY <2>1, FirstIs
  <2>3. Until(timers.key[First]) > 0
    BY <2>1, FirstIs, <2>2 DEF Expired, Due
  <2>4. Until(timers.key[First]) <= Until(timers.key[a]) /\ Until(timers.key[First]) \in Int /\ Until(timers.key[a]) \in Int
    BY <2>1, <2>2, FirstIs
  <2> QED BY <2>3, <2>4, FirstIs
<1>3. Holds(ngx_current_msec, 1, timers, SetIn(timer_set))
  BY <1>1, <1>2 DEF Holds, InReach
<1>4. GoodAt(ngx_current_msec, Floor("posted"), timers, timer_set)
  BY <1>1, <1>3 DEF GoodAt, Floor
<1>5. 0 \in Int /\ 0 <= 0 /\ 0 <= Lag
  BY Bounds
<1> QED BY <1>4, <1>5 DEF TimersIInv, Expired

LEMMA ExpireKeeps ==
  ASSUME TimersIInv, Expire
  PROVE  TimersIInv'
<1>1. Floor(phase) = Floor("expire") /\ phase' = "expire"
  BY DEF Expire, Floor
<1> QED BY <1>1 DEF TimersIInv, Expire

LEMMA TimersInitHolds ==
  ASSUME TimersInit
  PROVE  TimersIInv
<1>1. timers = EmptyTree /\ SetIn(timer_set) = {} /\ timer_set \in [Node -> BOOLEAN]
  BY DEF TimersInit, SetIn
<1>2. Holds(ngx_current_msec, Floor(phase), timers, {})
  BY <1>1, EmptyIsTree DEF Holds, InReach
<1>3. 0 \in Int /\ 0 <= 0 /\ 0 <= Lag
  BY Bounds
<1> QED BY <1>1, <1>2, <1>3 DEF TimersIInv, GoodAt, TimersInit

(* The timers of any number of events, whatever handlers do with them: the *)
(* tree is a red-black tree of those that are set, by their distance from  *)
(* ngx_current_msec, and none is out of the reach of the signed difference.*)
THEOREM TimersInvariant == TimersSpec => []TimersIInv
<1>1. TimersInit => TimersIInv
  BY TimersInitHolds
<1>2. TimersIInv /\ [TimersNext]_timerVars => TimersIInv'
  <2> SUFFICES ASSUME TimersIInv, [TimersNext]_timerVars PROVE TimersIInv'
    OBVIOUS
  <2>1. CASE Wait
    BY <2>1, WaitKeeps
  <2>2. CASE Handle
    BY <2>2, HandleKeeps
  <2>3. CASE Expire
    BY <2>3, ExpireKeeps
  <2>4. CASE ExpireTimer
    BY <2>4, ExpireTimerKeeps
  <2>5. CASE Expired
    BY <2>5, ExpiredKeeps
  <2>6. CASE UNCHANGED timerVars
    BY <2>6 DEF TimersIInv, timerVars
  <2> QED BY <2>1, <2>2, <2>3, <2>4, <2>5, <2>6 DEF TimersNext
<1> QED BY <1>1, <1>2, PTL DEF TimersSpec

(* ngx_event_expire_timers() calls a handler in the round that its time    *)
(* ends, at most Lag late, and leaves no timer that has passed.            *)
THEOREM TimersOnTime == TimersSpec => []TimersAreOnTime
<1>1. TimersIInv => TimersAreOnTime
  <2> SUFFICES ASSUME TimersIInv PROVE TimersAreOnTime
    OBVIOUS
  <2>1. ASSUME phase = "posted", NEW e \in Node, timer_set[e] PROVE Until(timers.key[e]) > 0
    <3>1. e \in SetIn(timer_set)
      BY <2>1 DEF SetIn
    <3>2. Until(timers.key[e]) \in Int /\ 1 <= Until(timers.key[e])
      BY <2>1, <3>1, FirstIs DEF Floor
    <3> QED BY <3>2
  <2>2. 0 <= late /\ late <= Lag
    BY DEF TimersIInv
  <2> QED BY <2>1, <2>2 DEF TimersAreOnTime
<1> QED BY <1>1, TimersInvariant, PTL

(* The one that expires is set, due, and no timer that is set is earlier.  *)
CallsTheEarliest ==
  ExpireTimer => /\ First \in Node /\ timer_set[First] /\ Until(timers.key[First]) <= 0
                 /\ \A e \in Node : timer_set[e] => Until(timers.key[First]) <= Until(timers.key[e])

(* The loop of ngx_event_expire_timers() calls the handlers in the order   *)
(* of their times, though they set and delete timers while it runs.        *)
THEOREM TimersExpireInOrder == TimersSpec => [][CallsTheEarliest]_timerVars
<1>1. TimersIInv => CallsTheEarliest
  <2> SUFFICES ASSUME TimersIInv, ExpireTimer
               PROVE  /\ First \in Node /\ timer_set[First] /\ Until(timers.key[First]) <= 0
                      /\ \A e \in Node : timer_set[e] => Until(timers.key[First]) <= Until(timers.key[e])
    BY DEF CallsTheEarliest
  <2>1. timers.root # Sentinel /\ Until(timers.key[First]) <= 0
    BY DEF ExpireTimer, Due
  <2>2. First \in SetIn(timer_set) /\ \A a \in SetIn(timer_set) : Until(timers.key[First]) <= Until(timers.key[a])
    BY <2>1, FirstIs
  <2> QED BY <2>1, <2>2 DEF SetIn
<1> QED BY <1>1, TimersInvariant, PTL DEF TimersSpec

LEMMA KeysDoAgree ==
  ASSUME NEW now \in Key, NEW floor \in Int, floor >= -Lag, NEW t, NEW T, Holds(now, floor, t, T)
  PROVE  KeysAgree(Keys(t), Distances(now, Keys(t)), T)
<1> DEFINE kk == Keys(t)
           d == Distances(now, kk)
<1>1. InReach(now, floor, kk, T)
  BY DEF Holds
<1>2. \A a \in T : KeyAt(kk, a) \in Key /\ Signed(KeyAt(kk, a), now) \in Int /\ Rank(d, a) = Signed(KeyAt(kk, a), now)
  BY HoldsFacts
<1> HIDE DEF kk, d
<1>3. ASSUME NEW a \in T, NEW b \in T
      PROVE  Signed(kk[a], kk[b]) = Rank(d, a) - Rank(d, b) /\ Rank(d, a) \in Int /\ Rank(d, b) \in Int
  <2>1. Signed(KeyAt(kk, a), KeyAt(kk, b)) = Signed(KeyAt(kk, a), now) - Signed(KeyAt(kk, b), now)
    BY <1>1, <1>2, InReachDiffer DEF InReach
  <2> QED BY <1>2, <2>1 DEF KeyAt
<1>4. KeysAgree(kk, d, T)
  BY <1>3 DEF KeysAgree
<1> QED BY <1>4 DEF kk, d

(* ngx_rbtree_insert() and ngx_rbtree_delete() keep the balance, the order *)
(* and every node, equal keys and the end of the clock included, and a     *)
(* walk with ngx_rbtree_next() meets them all.                             *)
THEOREM TreeOfTheTimers == TimersSpec => []TreeHoldsTheTimers
<1>1. TimersIInv => TreeHoldsTheTimers
  <2> SUFFICES ASSUME TimersIInv PROVE TreeHoldsTheTimers
    OBVIOUS
  <2> DEFINE T == SetIn(timer_set)
             d == Distances(ngx_current_msec, Keys(timers))
  <2>1. ngx_current_msec \in Key /\ Holds(ngx_current_msec, Floor(phase), timers, T)
    BY DEF TimersIInv, GoodAt
  <2>2. IsTree(timers, d, T, Keys(timers)) /\ d \in Ranks
    BY <2>1, HoldsFacts DEF Holds
  <2>3. KeysAgree(Keys(timers), d, T)
    BY <2>1, FloorIs, KeysDoAgree
  <2> HIDE DEF d
  <2>4. Top(timers) = timers.root /\ First = MinFrom(timers, Top(timers))
    BY DEF Top, First
  <2>5. IsRedBlack(timers) /\ Below(timers, timers.root) = T
    BY <2>2, <2>4, TreeIsRedBlack
  <2>6. IsOrdered(timers)
    BY <2>2, <2>3, TreeIsOrdered
  <2>7. ASSUME T # {} PROVE WalkFrom(timers, First) = T /\ ~NoTimersLeft(T \ {First})
    <3>1. WalkFrom(timers, First) = T /\ First \in T /\ timers.root # Sentinel
      BY <2>2, <2>4, <2>7, WalkMeetsAll
    <3> QED BY <3>1 DEF NoTimersLeft
  <2> QED BY <2>5, <2>6, <2>7 DEF TreeHoldsTheTimers, SetIn
<1> QED BY <1>1, TimersInvariant, PTL
===============================================================================
