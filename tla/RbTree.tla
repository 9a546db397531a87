-------------------------------- MODULE RbTree --------------------------------
(***************************************************************************)
(* The red-black tree of the timers (core/ngx_rbtree.c), pointer by        *)
(* pointer.  What the code writes twice, once for each side, is written    *)
(* once here, with the side as a parameter.                                *)
(***************************************************************************)
EXTENDS Integers, FiniteSets

CONSTANTS
  Node,      \* the nodes, one in every event
  Sentinel,  \* not among them
  Half       \* half of the numbers that a key may be: 2^63 for ngx_msec_t

ASSUME RbTreeAssumption == IsFiniteSet(Node) /\ Sentinel \notin Node /\ Half \in Nat \ {0}

Side == {"left", "right"}
Other(s) == IF s = "left" THEN "right" ELSE "left"

Modulus == 2 * Half
Key == 0 .. Modulus - 1

(* The difference of two keys as a signed number: (ngx_msec_int_t) (a - b).*)
Signed(a, b) == LET d == (a - b) % Modulus IN IF d >= Half THEN d - Modulus ELSE d

Ptr == Node \cup {Sentinel}

(* child[s][n] is n->left or n->right; what nobody reads, in the nodes     *)
(* that are not in the tree, is the sentinel here.                         *)
Tree == [root : Ptr, child : [Side -> [Ptr -> Ptr]], parent : [Ptr -> Ptr], red : [Ptr -> BOOLEAN], key : [Ptr -> Key]]

EmptyTree == [root   |-> Sentinel,
              child  |-> [s \in Side |-> [n \in Ptr |-> Sentinel]],
              parent |-> [n \in Ptr |-> Sentinel],
              red    |-> [n \in Ptr |-> FALSE],
              key    |-> [n \in Ptr |-> 0]]

(* A loop of the code: round is its body, as a function that leaves what   *)
(* has ended as it is.  No loop goes round more often than there are nodes.*)
After(round, b) ==
  LET after[k \in 0 .. Cardinality(Node)] == IF k = 0 THEN b ELSE round[after[k - 1]]
  IN after
Loop(round, b) == After(round, b)[Cardinality(Node)]

Painted(t, n, red) == [t EXCEPT !.red[n] = red]
SideOf(t, n) == IF n = t.child["left"][t.parent[n]] THEN "left" ELSE "right"

(* n takes the place of old below the parent of old.                       *)
Hang(t, old, n) ==
  IF old = t.root THEN [t EXCEPT !.root = n]
  ELSE [t EXCEPT !.child[SideOf(t, old)][t.parent[old]] = n]

Adopt(t, n, p) == IF n = Sentinel THEN t ELSE [t EXCEPT !.parent[n] = p]

(* ngx_rbtree_left_rotate() and ngx_rbtree_right_rotate().                 *)
Rotate(t, s, n) ==
  LET temp  == t.child[Other(s)][n]
      inner == t.child[s][temp]
      hung  == Hang(t, n, temp)
  IN Adopt([hung EXCEPT !.child[Other(s)][n] = inner, !.child[s][temp] = n,
                        !.parent[temp] = t.parent[n], !.parent[n] = temp],
           inner, n)

(* ngx_rbtree_min().                                                       *)
MinRound(t) == [n \in Ptr |-> IF t.child["left"][n] = Sentinel THEN n ELSE t.child["left"][n]]
MinFrom(t, n) == Loop(MinRound(t), n)

(* The loop of ngx_rbtree_next() goes up to the root or a left child.      *)
IsTop(t, n) == n = t.root \/ n = t.child["left"][t.parent[n]]
UpRound(t) == [n \in Ptr |-> IF IsTop(t, n) THEN n ELSE t.parent[n]]
Above(t, n) == LET top == Loop(UpRound(t), n) IN IF top = t.root THEN Sentinel ELSE t.parent[top]

(* ngx_rbtree_next(): the sentinel stands for NULL.                        *)
NextOf(t, n) == IF t.child["right"][n] # Sentinel THEN MinFrom(t, t.child["right"][n]) ELSE Above(t, n)

-------------------------------------------------------------------------------
(* Insertion.                                                              *)

(* Mutant: the keys are compared as they are, without the overflow.        *)
GoesLeft_Unsigned(a, b) == a < b

GoesLeft(a, b) == Signed(a, b) < 0

(* ngx_rbtree_insert_timer_value(): the place is below temp, on the side   *)
(* where nothing is yet.                                                   *)
SideFor(t, temp, n) == IF GoesLeft(t.key[n], t.key[temp]) THEN "left" ELSE "right"
PlaceRound(t, n) ==
  [temp \in Ptr |-> LET next == t.child[SideFor(t, temp, n)][temp] IN IF next = Sentinel THEN temp ELSE next]

PlaceBelow(t, root, n) ==
  LET temp == Loop(PlaceRound(t, n), root)
  IN [t EXCEPT !.child[SideFor(t, temp, n)][temp] = n, !.child["left"][n] = Sentinel, !.child["right"][n] = Sentinel,
               !.parent[n] = temp, !.red[n] = TRUE]

(* Where a loop of the tree is: at a node of it.                           *)
Cursor == [tree : Tree, at : Ptr]
At(t, n) == [tree |-> t, at |-> n]

(* The parent and the sibling of the parent are red: the parent of both    *)
(* is red in their place.                                                  *)
Recoloured(t, p, uncle, g) == At([t EXCEPT !.red[p] = FALSE, !.red[uncle] = FALSE, !.red[g] = TRUE], g)

(* A node between its parent and its grandparent is turned outside first.  *)
Raised(t, s, n) ==
  LET p == t.parent[n]
      g == t.parent[p]
      inner == n = t.child[Other(s)][p]
      turned == IF inner THEN Rotate(t, s, p) ELSE t
      low == IF inner THEN p ELSE n
  IN At(Rotate([turned EXCEPT !.red[turned.parent[low]] = FALSE, !.red[g] = TRUE], Other(s), g), low)

(* The loop of ngx_rbtree_insert().                                        *)
InsertEnds(b) == b.at = b.tree.root \/ ~b.tree.red[b.tree.parent[b.at]]
InsertRound ==
  [b \in Cursor |->
    LET t == b.tree
        p == t.parent[b.at]
        g == t.parent[p]
        s == SideOf(t, p)
        uncle == t.child[Other(s)][g]
    IN IF InsertEnds(b) THEN b
       ELSE IF t.red[uncle] THEN Recoloured(t, p, uncle, g) ELSE Raised(t, s, b.at)]

(* ngx_rbtree_insert().                                                    *)
Insert(t, n) ==
  IF t.root = Sentinel
  THEN [t EXCEPT !.root = n, !.child["left"][n] = Sentinel, !.child["right"][n] = Sentinel, !.red[n] = FALSE]
  ELSE LET done == Loop(InsertRound, At(PlaceBelow(t, t.root, n), n)).tree IN Painted(done, done.root, FALSE)

-------------------------------------------------------------------------------
(* Deletion.                                                               *)

(* The sibling w is red: it takes the place of the parent p, and a black   *)
(* one becomes the sibling.                                                *)
Siblinged(t, s, p, w) == Rotate([t EXCEPT !.red[w] = FALSE, !.red[p] = TRUE], s, p)

(* Mutant: the sibling keeps its own colour.                               *)
Borrow_KeepsColour(t, s, p) ==
  LET w == t.child[Other(s)][p]
  IN Rotate([t EXCEPT !.red[p] = FALSE, !.red[t.child[Other(s)][w]] = FALSE], s, p)

(* The far child of the sibling is red.                                    *)
Borrow(t, s, p) ==
  LET w == t.child[Other(s)][p]
  IN Rotate([t EXCEPT !.red[w] = t.red[p], !.red[p] = FALSE, !.red[t.child[Other(s)][w]] = FALSE], s, p)

(* Only its near child may be red: it takes the place of the sibling.      *)
Turned(t, s, w) ==
  LET near == t.child[s][w]
  IN IF t.red[t.child[Other(s)][w]] THEN t
     ELSE Rotate([t EXCEPT !.red[near] = FALSE, !.red[w] = TRUE], Other(s), w)

(* The sibling is black.                                                   *)
Repaired(t, s, p) ==
  LET w == t.child[Other(s)][p]
      done == Borrow(Turned(t, s, w), s, p)
  IN IF ~t.red[t.child["left"][w]] /\ ~t.red[t.child["right"][w]] THEN At(Painted(t, w, TRUE), p) ELSE At(done, done.root)

(* The loop of ngx_rbtree_delete(): below temp there is one black node     *)
(* less than elsewhere.                                                    *)
DeleteEnds(b) == b.at = b.tree.root \/ b.tree.red[b.at]
DeleteRound ==
  [b \in Cursor |->
    LET t == b.tree
        s == SideOf(t, b.at)
        p == t.parent[b.at]
        w == t.child[Other(s)][p]
    IN IF DeleteEnds(b) THEN b
       ELSE Repaired(IF t.red[w] THEN Siblinged(t, s, p, w) ELSE t, s, p)]

DeleteFixup(t, temp) == LET done == Loop(DeleteRound, At(t, temp)) IN Painted(done.tree, done.at, FALSE)

(* What the code clears as "DEBUG stuff", and the colour too, which nobody *)
(* reads before it is set.                                                 *)
Cleared(t, n) == [t EXCEPT !.child["left"][n] = Sentinel, !.child["right"][n] = Sentinel,
                           !.parent[n] = Sentinel, !.key[n] = 0, !.red[n] = FALSE]

(* Nor does anybody read the parents of the root and of the sentinel.      *)
Forgotten(t) == [t EXCEPT !.parent[t.root] = Sentinel, !.parent[Sentinel] = Sentinel]

(* subst goes to the place of n, with its colour.                          *)
Substituted(t, subst, n) ==
  LET moved == [t EXCEPT !.child["left"][subst] = t.child["left"][n],
                         !.child["right"][subst] = t.child["right"][n],
                         !.parent[subst] = t.parent[n], !.red[subst] = t.red[n]]
      hung == Hang(moved, n, subst)
  IN Adopt(Adopt(hung, hung.child["left"][subst], subst), hung.child["right"][subst], subst)

(* ngx_rbtree_delete().                                                    *)
Delete(t, n) ==
  LET both  == t.child["left"][n] # Sentinel /\ t.child["right"][n] # Sentinel
      subst == IF both THEN MinFrom(t, t.child["right"][n]) ELSE n
      temp  == IF t.child["left"][subst] # Sentinel THEN t.child["left"][subst] ELSE t.child["right"][subst]
      out   == [t EXCEPT !.child[SideOf(t, subst)][t.parent[subst]] = temp]
      gone  == IF subst = n THEN [out EXCEPT !.parent[temp] = out.parent[subst]]
               ELSE Substituted([out EXCEPT !.parent[temp] = IF t.parent[subst] = n THEN subst
                                                             ELSE t.parent[subst]], subst, n)
  IN Forgotten(IF subst = t.root THEN Cleared([t EXCEPT !.root = temp, !.red[temp] = FALSE], n)
               ELSE IF t.red[subst] THEN Cleared(gone, n)
               ELSE DeleteFixup(Cleared(gone, n), temp))

-------------------------------------------------------------------------------
(* What makes it a red-black tree.                                         *)

(* n and all that is below it.                                             *)
BelowRound(t) == [B \in SUBSET Node |-> B \cup ({t.child[s][m] : s \in Side, m \in B} \ {Sentinel})]
Below(t, n) == Loop(BelowRound(t), {n} \ {Sentinel})

(* The number of black nodes on the way from n down to the left.           *)
HeightRound(t) ==
  [H \in [Ptr -> Nat] |->
    [n \in Ptr |-> IF n = Sentinel THEN 0 ELSE H[t.child["left"][n]] + (IF t.red[n] THEN 0 ELSE 1)]]
BlackHeight(t) == Loop(HeightRound(t), [n \in Ptr |-> 0])

(* Every way down from a node has as many black nodes, and a red node has  *)
(* black children.                                                         *)
IsRedBlack(t) ==
  LET height == BlackHeight(t)
  IN /\ ~t.red[t.root] /\ ~t.red[Sentinel]
     /\ \A n \in Below(t, t.root) :
          /\ height[t.child["left"][n]] = height[t.child["right"][n]]
          /\ \A s \in Side :
               LET c == t.child[s][n]
               IN c # Sentinel => t.parent[c] = n /\ ~(t.red[n] /\ t.red[c])

(* By the signed difference: left of a node nothing is later, right of it  *)
(* nothing is earlier.                                                     *)
IsOrdered(t) ==
  \A n \in Below(t, t.root) :
    /\ \A m \in Below(t, t.child["left"][n]) : Signed(t.key[m], t.key[n]) <= 0
    /\ \A m \in Below(t, t.child["right"][n]) : Signed(t.key[m], t.key[n]) >= 0
===============================================================================
