--------------------------- MODULE Accounts_proofs ---------------------------
(***************************************************************************)
(* Where the money is: BookBalances of PaperBook, for any instruments,     *)
(* threads, quantities and prices and any number of fills and resets;      *)
(* PayoutsLeaveARecord of Transfers; MoneyConserved of Backtest.  They     *)
(* share no state; Accounts has their parameters.                          *)
(*                                                                         *)
(* The book's totals are folds over the instruments, and what a fold sums  *)
(* is an induction over its set.  The proofs take it by a smallest         *)
(* counterexample: strict inclusion is well-founded on the subsets of a    *)
(* finite set.  The book itself: what it has cost to hold what is held,    *)
(* with what came in, is what was realized, but for the fill under way.    *)
(***************************************************************************)
EXTENDS Accounts, Sequences, FiniteSetTheorems, NaturalsInduction, SequenceTheorems, TLAPS

-----------------------------------------------------------------------------
(* Sums over finite sets.                                                  *)

(* g sums v over the subsets of D, from the element pick gives on.         *)
Sums(D, pick, v, g) ==
  g = [u \in SUBSET D |-> IF u = {} THEN 0 ELSE v[pick[u]] + g[u \ {pick[u]}]]
\* pick has an element of every set that has one.
Picks(D, pick) == \A u \in SUBSET D : u # {} => pick[u] \in u

\* v is of integers, x of the sums of v and w, and w differs from v only at e.
Ints(D, v) == \A d \in D : v[d] \in Int
IsSum(D, v, w, x) == \A d \in D : x[d] = v[d] + w[d]
SameBut(D, v, w, e) == \A d \in D : d # e => w[d] = v[d]

(* Some set of a family of subsets of a finite set has none below it.      *)
LEMMA Smallest ==
  ASSUME NEW D, IsFiniteSet(D), NEW B \in SUBSET (SUBSET D), B # {}
  PROVE  \E u \in B : \A w \in B : w \subseteq u => w = u
<1>1. FiniteSubsetsOf(D) = SUBSET D
  BY FS_FiniteSubsetsOfFinite
<1>2. IsWellFoundedOn(StrictSubsetOrdering(D), SUBSET D)
  BY <1>1, FS_StrictSubsetOrderingWellFounded
<1>3. PICK u \in B : \A w \in B : ~ (<<w, u>> \in StrictSubsetOrdering(D))
  BY <1>2, WFMin
<1>4. \A w \in B : w \subseteq u => w = u
  BY <1>3 DEF StrictSubsetOrdering
<1> QED
  BY <1>4

(* A sum of nothing.                                                       *)
LEMMA SumsEmpty ==
  ASSUME NEW D, NEW pick, NEW v, NEW g, Sums(D, pick, v, g)
  PROVE  g[{}] = 0
  BY DEF Sums

(* One step of it.                                                         *)
LEMMA SumsRec ==
  ASSUME NEW D, NEW pick, NEW v, NEW g, Sums(D, pick, v, g), Picks(D, pick),
         NEW u \in SUBSET D, u # {}
  PROVE  /\ pick[u] \in u /\ pick[u] \in D
         /\ u \ {pick[u]} \in SUBSET D /\ u \ {pick[u]} # u
         /\ g[u] = v[pick[u]] + g[u \ {pick[u]}]
<1> DEFINE Body(x) == IF x = {} THEN 0 ELSE v[pick[x]] + g[x \ {pick[x]}]
<1>1. g = [x \in SUBSET D |-> Body(x)]
  BY DEF Sums
<1> HIDE DEF Body
<1>2. g[u] = Body(u)
  BY <1>1
<1> QED
  BY <1>2 DEF Body, Picks

(* Two of them that sum the same agree where both are defined.             *)
LEMMA SumsUnique ==
  ASSUME NEW D, IsFiniteSet(D), NEW pick, Picks(D, pick),
         NEW S \in SUBSET D, NEW T \in SUBSET D,
         NEW v, NEW w, \A d \in S \cap T : v[d] = w[d],
         NEW g, Sums(S, pick, v, g), NEW h, Sums(T, pick, w, h)
  PROVE  \A u \in SUBSET (S \cap T) : g[u] = h[u]
<1> DEFINE Bad == {u \in SUBSET (S \cap T) : g[u] # h[u]}
<1>1. Picks(S, pick) /\ Picks(T, pick)
  BY DEF Picks
<1> SUFFICES ASSUME Bad # {} PROVE FALSE
  OBVIOUS
<1>2. PICK u \in Bad : \A x \in Bad : x \subseteq u => x = u
  <2>1. Bad \in SUBSET (SUBSET D)
    OBVIOUS
  <2> HIDE DEF Bad
  <2> QED
    BY <2>1, Smallest
<1>3. u \in SUBSET S /\ u \in SUBSET T /\ g[u] # h[u]
  OBVIOUS
<1>4. u # {}
  BY <1>1, <1>3, SumsEmpty
<1>5. /\ pick[u] \in u /\ u \ {pick[u]} # u
      /\ g[u] = v[pick[u]] + g[u \ {pick[u]}] /\ h[u] = w[pick[u]] + h[u \ {pick[u]}]
  BY <1>1, <1>3, <1>4, SumsRec
<1>6. u \ {pick[u]} \notin Bad
  BY <1>2, <1>5
<1>7. g[u \ {pick[u]}] = h[u \ {pick[u]}]
  BY <1>3, <1>6
<1> QED
  BY <1>3, <1>5, <1>7

(* The same sum over a set and over what it is a part of.                  *)
LEMMA SumsSame ==
  ASSUME NEW D, IsFiniteSet(D), NEW pick, Picks(D, pick), NEW v,
         NEW S \in SUBSET D, NEW T \in SUBSET S,
         NEW g, Sums(S, pick, v, g), NEW h, Sums(T, pick, v, h)
  PROVE  g[T] = h[T]
<1>1. T \in SUBSET D /\ T \in SUBSET (S \cap T) /\ \A d \in S \cap T : v[d] = v[d]
  OBVIOUS
<1> QED
  BY <1>1, SumsUnique

(* There is one, for any finite set and whichever element is picked.       *)
LEMMA SumsExist ==
  ASSUME NEW D, IsFiniteSet(D), NEW pick, Picks(D, pick), NEW v
  PROVE  \E g : Sums(D, pick, v, g)
<1> DEFINE Bad == {T \in SUBSET D : ~ \E g : Sums(T, pick, v, g)}
<1> SUFFICES ASSUME Bad # {} PROVE FALSE
  OBVIOUS
<1>1. PICK T \in Bad : \A x \in Bad : x \subseteq T => x = T
  <2>1. Bad \in SUBSET (SUBSET D)
    OBVIOUS
  <2> HIDE DEF Bad
  <2> QED
    BY <2>1, Smallest
<1> DEFINE Of(u) == CHOOSE g : Sums(u, pick, v, g)
           Rest(u) == u \ {pick[u]}
           next == [u \in SUBSET T |-> IF u = {} THEN 0 ELSE v[pick[u]] + Of(Rest(u))[Rest(u)]]
<1>2. \A u \in SUBSET T : u # T => Sums(u, pick, v, Of(u))
  <2> SUFFICES ASSUME NEW u \in SUBSET T, u # T PROVE \E g : Sums(u, pick, v, g)
    OBVIOUS
  <2> QED
    BY <1>1
<1>3. \A u \in SUBSET T : u # {} => pick[u] \in u /\ Rest(u) \in SUBSET T /\ Rest(u) # T
  BY DEF Picks
<1> HIDE DEF Of, Rest
<1>4. ASSUME NEW u \in SUBSET T, u # {} PROVE next[Rest(u)] = Of(Rest(u))[Rest(u)]
  <2> DEFINE x == Rest(u)
  <2>1. x \in SUBSET T /\ x # T /\ Sums(x, pick, v, Of(x)) /\ Picks(x, pick)
    BY <1>2, <1>3, <1>4 DEF Picks
  <2> HIDE DEF x
  <2>2. CASE x = {}
    <3>1. Of(x)[{}] = 0
      BY <2>1, SumsEmpty
    <3>2. next[{}] = 0
      OBVIOUS
    <3> HIDE DEF next
    <3> QED
      BY <2>2, <3>1, <3>2 DEF x
  <2>3. CASE x # {}
    <3>1. Of(x)[x] = v[pick[x]] + Of(x)[Rest(x)] /\ pick[x] \in x /\ Rest(x) \in SUBSET x
      BY <2>1, <2>3, SumsRec DEF Rest
    <3>2. Sums(Rest(x), pick, v, Of(Rest(x))) /\ Rest(x) \in SUBSET T
      BY <1>2, <1>3, <2>1, <2>3
    <3>3. Of(x)[Rest(x)] = Of(Rest(x))[Rest(x)]
      <4>1. x \in SUBSET D
        BY <2>1
      <4> QED
        BY <2>1, <3>1, <3>2, <4>1, SumsSame
    <3>4. next[x] = v[pick[x]] + Of(Rest(x))[Rest(x)]
      BY <2>1, <2>3
    <3> HIDE DEF next
    <3> QED
      BY <3>1, <3>3, <3>4 DEF x
  <2> QED
    BY <2>2, <2>3 DEF x
<1>5. Sums(T, pick, v, next)
  <2> DEFINE body(u) == IF u = {} THEN 0 ELSE v[pick[u]] + next[u \ {pick[u]}]
  <2>1. \A u \in SUBSET T : next[u] = body(u)
    BY <1>4 DEF Rest
  <2>2. next = [u \in SUBSET T |-> next[u]]
    OBVIOUS
  <2> HIDE DEF next
  <2>3. next = [u \in SUBSET T |-> body(u)]
    BY <2>1, <2>2
  <2> QED
    BY <2>3 DEF Sums
<1> QED
  BY <1>5

(* A sum of integers is one.                                               *)
LEMMA SumsInt ==
  ASSUME NEW D, IsFiniteSet(D), NEW pick, Picks(D, pick),
         NEW v, Ints(D, v), NEW g, Sums(D, pick, v, g)
  PROVE  \A u \in SUBSET D : g[u] \in Int
<1> DEFINE Bad == {u \in SUBSET D : g[u] \notin Int}
<1> SUFFICES ASSUME Bad # {} PROVE FALSE
  OBVIOUS
<1>1. PICK u \in Bad : \A x \in Bad : x \subseteq u => x = u
  <2>1. Bad \in SUBSET (SUBSET D)
    OBVIOUS
  <2> HIDE DEF Bad
  <2> QED
    BY <2>1, Smallest
<1>2. /\ u \in SUBSET D /\ g[u] \notin Int
      /\ \A y \in SUBSET D : y \subseteq u /\ y # u => g[y] \in Int
  BY <1>1
<1>u. u \in SUBSET D
  BY <1>1
<1> HIDE DEF Bad
<1>3. u # {}
  <2>1. g[{}] = 0
    BY SumsEmpty
  <2>2. g[{}] \in Int
    BY <2>1
  <2> QED
    BY <1>2, <2>2, Zenon
<1>4. /\ pick[u] \in D /\ u \ {pick[u]} \in SUBSET D /\ u \ {pick[u]} # u
      /\ g[u] = v[pick[u]] + g[u \ {pick[u]}]
  BY <1>u, <1>3, SumsRec
<1>5. g[u \ {pick[u]}] \in Int
  BY <1>2, <1>4
<1> QED
  BY <1>2, <1>4, <1>5 DEF Ints

(* A sum of sums.                                                          *)
LEMMA SumsAdd ==
  ASSUME NEW D, IsFiniteSet(D), NEW pick, Picks(D, pick), NEW v, NEW w, NEW x,
         Ints(D, v), Ints(D, w), IsSum(D, v, w, x),
         NEW f, Sums(D, pick, v, f), NEW g, Sums(D, pick, w, g), NEW h, Sums(D, pick, x, h)
  PROVE  \A u \in SUBSET D : h[u] = f[u] + g[u]
<1> DEFINE Bad == {u \in SUBSET D : h[u] # f[u] + g[u]}
<1> SUFFICES ASSUME Bad # {} PROVE FALSE
  OBVIOUS
<1>1. PICK u \in Bad : \A y \in Bad : y \subseteq u => y = u
  <2>1. Bad \in SUBSET (SUBSET D)
    OBVIOUS
  <2> HIDE DEF Bad
  <2> QED
    BY <2>1, Smallest
<1>2. u \in SUBSET D /\ h[u] # f[u] + g[u] /\ \A y \in SUBSET D : y \subseteq u /\ y # u => h[y] = f[y] + g[y]
  BY <1>1
<1>u. u \in SUBSET D
  BY <1>1
<1> HIDE DEF Bad
<1>3. u # {}
  <2>1. f[{}] = 0 /\ g[{}] = 0 /\ h[{}] = 0
    BY SumsEmpty
  <2>2. h[{}] = f[{}] + g[{}]
    BY <2>1
  <2> QED
    BY <1>2, <2>2, Zenon
<1> DEFINE rest == u \ {pick[u]}
<1>4. /\ pick[u] \in D /\ rest \in SUBSET D /\ rest # u
      /\ f[u] = v[pick[u]] + f[rest]
  BY <1>u, <1>3, SumsRec
<1>5. g[u] = w[pick[u]] + g[rest]
  BY <1>u, <1>3, SumsRec
<1>6. h[u] = x[pick[u]] + h[rest]
  BY <1>u, <1>3, SumsRec
<1>r. rest \subseteq u
  OBVIOUS
<1> HIDE DEF rest
<1>7. h[rest] = f[rest] + g[rest]
  BY <1>2, <1>4, <1>r, Zenon
<1>8. f[rest] \in Int /\ g[rest] \in Int
  BY <1>4, SumsInt
<1> QED
  BY <1>2, <1>4, <1>5, <1>6, <1>7, <1>8 DEF Ints, IsSum

(* One element changes, and the sums with it by as much.                   *)
LEMMA SumsChange ==
  ASSUME NEW D, IsFiniteSet(D), NEW pick, Picks(D, pick), NEW v, NEW w, NEW e \in D,
         Ints(D, v), Ints(D, w), SameBut(D, v, w, e),
         NEW f, Sums(D, pick, v, f), NEW g, Sums(D, pick, w, g)
  PROVE  \A u \in SUBSET D : g[u] = f[u] + (IF e \in u THEN w[e] - v[e] ELSE 0)
<1> DEFINE change(u) == IF e \in u THEN w[e] - v[e] ELSE 0
           Bad == {u \in SUBSET D : g[u] # f[u] + change(u)}
<1> SUFFICES ASSUME Bad # {} PROVE FALSE
  OBVIOUS
<1>1. PICK u \in Bad : \A y \in Bad : y \subseteq u => y = u
  <2>1. Bad \in SUBSET (SUBSET D)
    OBVIOUS
  <2> HIDE DEF Bad
  <2> QED
    BY <2>1, Smallest
<1>2. /\ u \in SUBSET D /\ g[u] # f[u] + change(u)
      /\ \A y \in SUBSET D : y \subseteq u /\ y # u => g[y] = f[y] + change(y)
  BY <1>1
<1>u. u \in SUBSET D
  BY <1>1
<1> HIDE DEF Bad
<1>3. u # {}
  <2>1. f[{}] = 0 /\ g[{}] = 0
    BY SumsEmpty
  <2>2. g[{}] = f[{}] + change({})
    BY <2>1
  <2> QED
    BY <1>2, <2>2, Zenon
<1> DEFINE rest == u \ {pick[u]}
<1>4. /\ pick[u] \in u /\ pick[u] \in D /\ rest \in SUBSET D /\ rest # u
      /\ f[u] = v[pick[u]] + f[rest]
  BY <1>u, <1>3, SumsRec
<1>5. g[u] = w[pick[u]] + g[rest]
  BY <1>u, <1>3, SumsRec
<1>6. /\ pick[u] = e => e \in u /\ e \notin rest
      /\ pick[u] # e => (e \in u <=> e \in rest)
  BY <1>4
<1>r. rest \subseteq u
  OBVIOUS
<1> HIDE DEF rest
<1>7. g[rest] = f[rest] + change(rest)
  BY <1>2, <1>4, <1>r, Zenon
<1>8. f[rest] \in Int
  BY <1>4, SumsInt
<1> QED
  BY <1>2, <1>4, <1>5, <1>6, <1>7, <1>8 DEF Ints, SameBut

Position == [quantity : Int, average : Int, last : Int]
Fill == [pc : {"idle", "book", "store"}, symbol : Instrument, signed : Int, price : Int,
         position : Position]

\* The average a fill leaves comes out whole.
Whole(f) ==
  LET closing == Book!Closing(f.position.quantity, f.signed)
      opening == Book!Abs(f.signed) - closing
      remaining == Book!Abs(f.position.quantity) - closing
  IN  opening > 0 =>
        Book!Averaged(f) * (remaining + opening) = f.position.average * remaining + f.price * opening

-----------------------------------------------------------------------------
(* The arithmetic of a fill.                                               *)

(* What is multiplied in the four cases of a fill: an opening on the long  *)
(* side, on the short side, a partial close, a flip.                       *)
LEMMA LongSide ==
  ASSUME NEW q \in Int, NEW a \in Int, NEW s \in Int, NEW p \in Int, NEW new \in Int,
         new * (q + s) = a * q + p * s
  PROVE  (q + s) * new = q * a + s * p + (p - a) * 0
  OBVIOUS

LEMMA ShortSide ==
  ASSUME NEW q \in Int, NEW a \in Int, NEW s \in Int, NEW p \in Int, NEW new \in Int,
         new * (-q + -s) = a * (-q) + p * (-s)
  PROVE  (q + s) * new = q * a + s * p + (p - a) * 0
  OBVIOUS

LEMMA PartialClose ==
  ASSUME NEW q \in Int, NEW a \in Int, NEW s \in Int, NEW p \in Int, NEW new \in Int,
         q + s = 0 \/ new = a
  PROVE  (q + s) * new = q * a + s * p + (p - a) * (-s)
<1>1. (q + s) * new = (q + s) * a
  <2>1. CASE new = a
    BY <2>1
  <2>2. CASE q + s = 0
    <3>1. \A x \in Int : 0 * x = 0
      OBVIOUS
    <3> QED
      BY <2>2, <3>1
  <2> QED
    BY <2>1, <2>2
<1>2. (q + s) * a = q * a + s * p + (p - a) * (-s)
  OBVIOUS
<1> QED
  BY <1>1, <1>2

LEMMA Flip ==
  ASSUME NEW q \in Int, NEW a \in Int, NEW s \in Int, NEW p \in Int, NEW new \in Int,
         new * (q + s) = p * (q + s) \/ new * (-s - q) = p * (-s - q)
  PROVE  (q + s) * new = q * a + s * p + (p - a) * q
  OBVIOUS

(* The sign of the side.                                                   *)
LEMMA TimesSign ==
  \A x, y \in Int : x * y * (-1) = x * (-y) /\ x * y * 1 = x * y
  OBVIOUS

(* What of a fill closes: nothing on the side already held, and otherwise  *)
(* the smaller of the two.                                                 *)
LEMMA ClosingIs ==
  ASSUME NEW q \in Int, NEW s \in Int
  PROVE  /\ q >= 0 /\ s >= 0 => Book!Closing(q, s) = 0
         /\ q <= 0 /\ s <= 0 => Book!Closing(q, s) = 0
         /\ q > 0 /\ s < 0 => Book!Closing(q, s) = IF -s < q THEN -s ELSE q
         /\ q < 0 /\ s > 0 => Book!Closing(q, s) = IF s < -q THEN s ELSE -q
  BY DEF Book!Closing, Book!Abs, Book!Least

\* new is the average that s bought (or sold) at p leaves of q held at a.
Averages(q, a, s, p, new) ==
  /\ Book!Abs(s) - Book!Closing(q, s) > 0 =>
       new * ((Book!Abs(q) - Book!Closing(q, s)) + (Book!Abs(s) - Book!Closing(q, s)))
         = a * (Book!Abs(q) - Book!Closing(q, s)) + p * (Book!Abs(s) - Book!Closing(q, s))
  /\ ~ (Book!Abs(s) - Book!Closing(q, s) > 0) => q + s = 0 \/ new = a

(* Openings, extensions, partial closes and flips, on either side: what is *)
(* held at the new average is what was held, what was traded at its price  *)
(* and the gain on what closed.                                            *)
LEMMA FillArithmetic ==
  ASSUME NEW q \in Int, NEW a \in Int, NEW s \in Int, NEW p \in Int, NEW new \in Int,
         Averages(q, a, s, p, new)
  PROVE  (q + s) * new
           = q * a + s * p + (p - a) * Book!Closing(q, s) * (IF q > 0 THEN 1 ELSE -1)
<1> DEFINE c == Book!Closing(q, s)
           abs == Book!Abs(q)
           size == Book!Abs(s)
           closed == (p - a) * c * (IF q > 0 THEN 1 ELSE -1)
           Goal(x) == (q + s) * new = q * a + s * p + (p - a) * x
<1>1. /\ q >= 0 /\ s >= 0 => c = 0
      /\ q <= 0 /\ s <= 0 => c = 0
      /\ q > 0 /\ s < 0 => c = IF -s < q THEN -s ELSE q
      /\ q < 0 /\ s > 0 => c = IF s < -q THEN s ELSE -q
  BY ClosingIs
<1>2. /\ abs = IF q < 0 THEN -q ELSE q
      /\ size = IF s < 0 THEN -s ELSE s
  BY DEF Book!Abs
<1>3. /\ size - c > 0 => new * ((abs - c) + (size - c)) = a * (abs - c) + p * (size - c)
      /\ ~ (size - c > 0) => q + s = 0 \/ new = a
  BY DEF Averages
<1> HIDE DEF c, abs, size
<1>4. /\ c \in Int
      /\ q > 0 => closed = (p - a) * c
      /\ ~ (q > 0) => closed = (p - a) * (-c)
  <2>1. c \in Int
    BY <1>1
  <2> QED
    BY <2>1, TimesSign
<1>5. \A x \in Int : Goal(x) /\ (q > 0 => c = x) /\ (~ (q > 0) => -c = x)
                      => (q + s) * new = q * a + s * p + closed
  <2> SUFFICES ASSUME NEW x \in Int, Goal(x), q > 0 => c = x, ~ (q > 0) => -c = x
               PROVE  (q + s) * new = q * a + s * p + closed
    OBVIOUS
  <2>1. closed = (p - a) * x
    BY <1>4
  <2> HIDE DEF closed
  <2> QED
    BY <2>1
<1> HIDE DEF Goal
<1>6. ASSUME s = 0 \/ (q > 0 /\ s < 0 /\ -s <= q) \/ (q < 0 /\ s > 0 /\ s <= -q)
      PROVE  \E x \in Int : Goal(x) /\ (q > 0 => c = x) /\ (~ (q > 0) => -c = x)
  <2>1. /\ ~ (size - c > 0)
        /\ q > 0 => c = -s
        /\ ~ (q > 0) => -c = -s
    BY <1>1, <1>2, <1>6
  <2>2. Goal(-s)
    BY <1>3, <2>1, PartialClose DEF Goal
  <2> QED
    BY <2>1, <2>2
<1>7. ASSUME (q >= 0 /\ s > 0) \/ (q <= 0 /\ s < 0)
      PROVE  \E x \in Int : Goal(x) /\ (q > 0 => c = x) /\ (~ (q > 0) => -c = x)
  <2>1. c = 0 /\ -c = 0
    BY <1>1, <1>7
  <2>2. ASSUME q >= 0, s > 0 PROVE Goal(0)
    <3>1. abs - c = q /\ size - c = s /\ size - c > 0
      BY <1>2, <2>1, <2>2
    <3>2. new * (q + s) = a * q + p * s
      BY <1>3, <3>1
    <3> QED
      BY <3>2, LongSide DEF Goal
  <2>3. ASSUME q <= 0, s < 0 PROVE Goal(0)
    <3>1. abs - c = -q /\ size - c = -s /\ size - c > 0
      BY <1>2, <2>1, <2>3
    <3>2. new * (-q + -s) = a * (-q) + p * (-s)
      BY <1>3, <3>1
    <3> QED
      BY <3>2, ShortSide DEF Goal
  <2> QED
    BY <1>7, <2>1, <2>2, <2>3
<1>8. ASSUME (q > 0 /\ s < 0 /\ q < -s) \/ (q < 0 /\ s > 0 /\ -q < s)
      PROVE  \E x \in Int : Goal(x) /\ (q > 0 => c = x) /\ (~ (q > 0) => -c = x)
  <2>1. /\ q > 0 => c = q
        /\ ~ (q > 0) => -c = q
    BY <1>1, <1>8
  <2> DEFINE o == IF q > 0 THEN -s - q ELSE q + s
  <2>2. o \in Int /\ (q > 0 => o = -s - q) /\ (~ (q > 0) => o = q + s)
    OBVIOUS
  <2> HIDE DEF o
  <2>3. abs - c = 0 /\ size - c = o /\ size - c > 0 /\ 0 + o = o
    BY <1>1, <1>2, <1>8, <2>2
  <2>4. new * (0 + o) = a * 0 + p * o
    BY <1>3, <2>3
  <2>5. a * 0 = 0 /\ p * o \in Int
    BY <2>2
  <2>6. new * o = p * o
    BY <2>3, <2>4, <2>5
  <2>7. Goal(q)
    <3>1. new * (q + s) = p * (q + s) \/ new * (-s - q) = p * (-s - q)
      BY <2>2, <2>6
    <3> QED
      BY <3>1, Flip DEF Goal
  <2> QED
    BY <2>1, <2>7
<1>9. \E x \in Int : Goal(x) /\ (q > 0 => c = x) /\ (~ (q > 0) => -c = x)
  <2>1. \/ s = 0 \/ (q > 0 /\ s < 0 /\ -s <= q) \/ (q < 0 /\ s > 0 /\ s <= -q)
        \/ (q >= 0 /\ s > 0) \/ (q <= 0 /\ s < 0)
        \/ (q > 0 /\ s < 0 /\ q < -s) \/ (q < 0 /\ s > 0 /\ -q < s)
    OBVIOUS
  <2> QED
    BY <1>6, <1>7, <1>8, <2>1
<1> QED
  BY <1>5, <1>9 DEF c

(* A fill on a position: what it costs to hold is what it cost before, the *)
(* price of what was bought or sold, and what was booked.                  *)
LEMMA FillIsMoney ==
  ASSUME NEW f \in Fill, Whole(f), Book!Averaged(f) \in Int
  PROVE  (f.position.quantity + f.signed) * Book!Averaged(f)
           = f.position.quantity * f.position.average + f.signed * f.price + Book!Booked(f)
<1> DEFINE q == f.position.quantity
           a == f.position.average
           s == f.signed
           p == f.price
           new == Book!Averaged(f)
<1>1. q \in Int /\ a \in Int /\ s \in Int /\ p \in Int /\ new \in Int
  BY DEF Fill, Position
<1>2. Averages(q, a, s, p, new)
  BY DEF Whole, Book!Averaged, Averages
<1>3. Book!Booked(f) = (p - a) * Book!Closing(q, s) * (IF q > 0 THEN 1 ELSE -1)
  BY DEF Book!Booked
<1> HIDE DEF q, a, s, p, new
<1>4. (q + s) * new = q * a + s * p + (p - a) * Book!Closing(q, s) * (IF q > 0 THEN 1 ELSE -1)
  BY <1>1, <1>2, FillArithmetic
<1> QED
  BY <1>3, <1>4 DEF q, a, s, p, new
-----------------------------------------------------------------------------
(* The sums of the book.                                                   *)
First == [u \in SUBSET Instrument |-> CHOOSE s \in u : TRUE]

(* The folds of a map take the elements CHOOSE takes.                      *)
LEMMA FirstPicks == Picks(Instrument, First)
  BY DEF Picks, First

(* Total of PaperBook is such a sum.                                       *)
LEMMA TotalIs ==
  ASSUME IsFiniteSet(Instrument), NEW f
  PROVE  \E g : Sums(Instrument, First, f, g) /\ Book!Total(f) = g[Instrument]
<1> DEFINE iter == CHOOSE g : g = [u \in SUBSET Instrument |->
                     IF u = {} THEN 0
                     ELSE f[CHOOSE s \in u : TRUE] + g[u \ {CHOOSE s \in u : TRUE}]]
<1>1. Book!Total(f) = iter[Instrument]
  BY DEF Book!Total, Book!MapThenSumSet, Book!MapThenFoldSet
<1>2. PICK g : Sums(Instrument, First, f, g)
  BY FirstPicks, SumsExist
<1>3. g = [u \in SUBSET Instrument |->
            IF u = {} THEN 0 ELSE f[CHOOSE s \in u : TRUE] + g[u \ {CHOOSE s \in u : TRUE}]]
  BY <1>2 DEF Sums, First
<1>4. iter = [u \in SUBSET Instrument |->
            IF u = {} THEN 0
            ELSE f[CHOOSE s \in u : TRUE] + iter[u \ {CHOOSE s \in u : TRUE}]]
  BY <1>3
<1> HIDE DEF iter
<1>5. Sums(Instrument, First, f, iter)
  BY <1>4 DEF Sums, First
<1> QED
  BY <1>1, <1>5

(* A total of integers is an integer.                                      *)
LEMMA TotalInt ==
  ASSUME IsFiniteSet(Instrument), NEW f \in [Instrument -> Int]
  PROVE  Book!Total(f) \in Int
<1>1. PICK g : Sums(Instrument, First, f, g) /\ Book!Total(f) = g[Instrument]
  BY TotalIs
<1>2. Ints(Instrument, f) /\ Instrument \in SUBSET Instrument
  BY DEF Ints
<1> QED
  BY <1>1, <1>2, FirstPicks, SumsInt

(* The total of sums is the sum of the totals.                             *)
LEMMA TotalAdd ==
  ASSUME IsFiniteSet(Instrument), NEW f \in [Instrument -> Int], NEW g \in [Instrument -> Int],
         NEW h \in [Instrument -> Int], \A s \in Instrument : h[s] = f[s] + g[s]
  PROVE  Book!Total(h) = Book!Total(f) + Book!Total(g)
<1>1. PICK sf : Sums(Instrument, First, f, sf) /\ Book!Total(f) = sf[Instrument]
  BY TotalIs
<1>2. PICK sg : Sums(Instrument, First, g, sg) /\ Book!Total(g) = sg[Instrument]
  BY TotalIs
<1>3. PICK sh : Sums(Instrument, First, h, sh) /\ Book!Total(h) = sh[Instrument]
  BY TotalIs
<1>4. Ints(Instrument, f) /\ Ints(Instrument, g) /\ IsSum(Instrument, f, g, h) /\ Instrument \in SUBSET Instrument
  BY DEF Ints, IsSum
<1>5. sh[Instrument] = sf[Instrument] + sg[Instrument]
  BY <1>1, <1>2, <1>3, <1>4, FirstPicks, SumsAdd
<1> QED
  BY <1>1, <1>2, <1>3, <1>5

(* A total changes by what one of its parts changes by.                    *)
LEMMA TotalChange ==
  ASSUME IsFiniteSet(Instrument), NEW f \in [Instrument -> Int], NEW g \in [Instrument -> Int],
         NEW e \in Instrument, \A s \in Instrument : s # e => g[s] = f[s]
  PROVE  Book!Total(g) = Book!Total(f) + (g[e] - f[e])
<1>1. PICK sf : Sums(Instrument, First, f, sf) /\ Book!Total(f) = sf[Instrument]
  BY TotalIs
<1>2. PICK sg : Sums(Instrument, First, g, sg) /\ Book!Total(g) = sg[Instrument]
  BY TotalIs
<1>3. Ints(Instrument, f) /\ Ints(Instrument, g) /\ SameBut(Instrument, f, g, e) /\ Instrument \in SUBSET Instrument
  BY DEF Ints, SameBut
<1>4. sg[Instrument] = sf[Instrument] + (IF e \in Instrument THEN g[e] - f[e] ELSE 0)
  BY <1>1, <1>2, <1>3, FirstPicks, SumsChange
<1> QED
  BY <1>1, <1>2, <1>4

LEMMA TwiceIsZero == \A x \in Int : x = x + x => x = 0
  OBVIOUS

(* A total of zeros.                                                       *)
LEMMA TotalZero ==
  ASSUME IsFiniteSet(Instrument), NEW f \in [Instrument -> Int], \A s \in Instrument : f[s] = 0
  PROVE  Book!Total(f) = 0
<1>1. Book!Total(f) \in Int
  BY TotalInt
<1>2. Book!Total(f) = Book!Total(f) + Book!Total(f)
  BY TotalAdd
<1> QED
  BY <1>1, <1>2, TwiceIsZero
-----------------------------------------------------------------------------
(* The book.                                                               *)

\* What it cost to hold what is held, with what came in.
Cost == [s \in Instrument |-> cash[s] + positions[s].quantity * positions[s].average]

BookTypes ==
  /\ positions \in [Instrument -> Position] /\ cash \in [Instrument -> Int]
  /\ realized \in Int /\ ledger \in Int /\ forgotten \in Int
  /\ fill \in [Thread -> Fill]
  /\ resetting \in BOOLEAN /\ torn \in BOOLEAN

Locked == \A t \in Thread : fill[t].pc # "idle" <=> lock = t
LedgerHasAll == ledger = forgotten + realized

\* Up to a fill's booking the book is what it cost, and then it is that with
\* what the fill has booked, until the position is stored.
Balanced ==
  ~torn =>
    /\ resetting => lock = "free" /\ positions = [s \in Instrument |-> Book!Flat]
    /\ lock = "free" /\ ~resetting => realized = Book!Total(Cost)
    /\ \A t \in Thread : fill[t].pc # "idle" =>
         /\ fill[t].position = positions[fill[t].symbol]
         /\ realized = Book!Total(Cost) + IF fill[t].pc = "store" THEN Book!Booked(fill[t]) ELSE 0

BookInv == BookTypes /\ Locked /\ LedgerHasAll /\ Balanced

\* PaperBook counts money in units small enough for the averages of a run to
\* be whole: of every fill under way it is.
WholeAverages == \A t \in Thread : fill[t].pc = "store" => Whole(fill[t])

(* What a fill books is an integer.                                        *)
LEMMA BookedInt == \A f \in Fill : Book!Booked(f) \in Int
<1> SUFFICES ASSUME NEW f \in Fill PROVE Book!Booked(f) \in Int
  OBVIOUS
<1> DEFINE c == Book!Closing(f.position.quantity, f.signed)
           d == f.price - f.position.average
<1>1. f.position.quantity \in Int /\ f.signed \in Int /\ d \in Int
  BY DEF Fill, Position
<1>2. c \in Int
  BY <1>1 DEF Book!Closing, Book!Abs, Book!Least
<1>3. Book!Booked(f) = d * c * (IF f.position.quantity > 0 THEN 1 ELSE -1)
  BY DEF Book!Booked
<1> HIDE DEF c, d
<1> QED
  BY <1>1, <1>2, <1>3

(* So is the average it leaves, rounded or not.                            *)
LEMMA AveragedInt == \A f \in Fill : Book!Averaged(f) \in Int
<1> SUFFICES ASSUME NEW f \in Fill PROVE Book!Averaged(f) \in Int
  OBVIOUS
<1> DEFINE p == f.position
           closing == Book!Closing(p.quantity, f.signed)
           opening == Book!Abs(f.signed) - closing
           remaining == Book!Abs(p.quantity) - closing
           whole == p.average * remaining + f.price * opening
<1>1. p.quantity \in Int /\ p.average \in Int /\ f.signed \in Int /\ f.price \in Int
  BY DEF Fill, Position
<1>2. closing \in Int /\ opening \in Int /\ remaining \in Int /\ remaining >= 0
  BY <1>1 DEF Book!Closing, Book!Abs, Book!Least
<1>3. Book!Averaged(f) = IF opening > 0 THEN whole \div (remaining + opening)
                    ELSE IF p.quantity + f.signed = 0 THEN 0 ELSE p.average
  BY DEF Book!Averaged
<1> HIDE DEF closing, opening, remaining
<1>4. whole \in Int
  BY <1>1, <1>2
<1> HIDE DEF whole
<1>5. opening > 0 => whole \div (remaining + opening) \in Int
  BY <1>2, <1>4
<1> QED
  BY <1>1, <1>3, <1>5

(* And what the book has cost.                                             *)
LEMMA CostInt == BookTypes => Cost \in [Instrument -> Int]
  BY DEF BookTypes, Cost, Position

(* An empty book has cost nothing.                                         *)
LEMMA EmptyBook ==
  ASSUME IsFiniteSet(Instrument), positions = [s \in Instrument |-> Book!Flat], cash = [s \in Instrument |-> 0]
  PROVE  Book!Total(Cost) = 0
<1>1. Cost \in [Instrument -> Int] /\ \A s \in Instrument : Cost[s] = 0
  BY DEF Cost, Book!Flat
<1> QED
  BY <1>1, TotalZero

(* An empty book is in order.                                              *)
LEMMA InitBook == LawfulBook /\ Book!Init => BookInv
<1> SUFFICES ASSUME LawfulBook, Book!Init PROVE BookInv
  OBVIOUS
<1>1. Book!Flat \in Position /\ \A s \in Instrument : Book!NoFill(s) \in Fill /\ Book!NoFill(s).pc = "idle"
  BY DEF Book!Flat, Book!NoFill, Position, Fill
<1>2. PICK s \in Instrument : fill = [t \in Thread |-> Book!NoFill(s)]
  BY DEF Book!Init
<1>3. BookTypes
  <2>1. positions \in [Instrument -> Position] /\ cash \in [Instrument -> Int]
    BY <1>1 DEF Book!Init
  <2>2. fill \in [Thread -> Fill]
    BY <1>1, <1>2
  <2> QED
    BY <2>1, <2>2 DEF Book!Init, BookTypes
<1>4. Book!Total(Cost) = 0
  BY EmptyBook DEF Book!Init, LawfulBook
<1> QED
  BY <1>1, <1>2, <1>3, <1>4 DEF Book!Init, LawfulBook, BookInv, Locked, LedgerHasAll, Balanced

(* The lock is taken: the fill knows the position as it is.                *)
LEMMA StepTakeLock ==
  ASSUME LawfulBook, BookInv, NEW t \in Thread, NEW s \in Instrument, NEW q \in Int, NEW p \in Price,
         Book!TakeLock(t, s, q, p)
  PROVE  BookInv'
<1> DEFINE f == [pc |-> "book", symbol |-> s, signed |-> q, price |-> p,
                 position |-> positions[s]]
<1>1. /\ lock = "free" /\ fill[t].pc = "idle" /\ lock' = t /\ fill' = [fill EXCEPT ![t] = f]
      /\ torn' = (torn \/ resetting)
      /\ UNCHANGED <<positions, realized, ledger, resetting, resets, cash, forgotten>>
  BY DEF Book!TakeLock
<1>2. f \in Fill /\ f.pc = "book" /\ f.symbol = s /\ f.position = positions[s]
  BY DEF BookInv, BookTypes, LawfulBook, Fill
<1> HIDE DEF f
<1>3. BookTypes'
  BY <1>1, <1>2 DEF BookInv, BookTypes
<1>4. /\ fill'[t] = f
      /\ \A r \in Thread : r # t => fill'[r] = fill[r] /\ fill[r].pc = "idle"
  BY <1>1 DEF BookInv, BookTypes, Locked, LawfulBook
<1>5. Locked'
  BY <1>1, <1>2, <1>4 DEF Locked, LawfulBook
<1>6. LedgerHasAll'
  BY <1>1 DEF BookInv, LedgerHasAll
<1>7. Cost' = Cost /\ Book!Total(Cost') = Book!Total(Cost)
  <2>1. Cost' = Cost
    BY <1>1 DEF Cost
  <2> QED
    BY <2>1
<1>8. Balanced'
  <2> SUFFICES ASSUME ~torn' PROVE /\ ~resetting' /\ lock' # "free"
                                   /\ \A r \in Thread : fill'[r].pc # "idle" =>
                                        /\ fill'[r].position = positions'[fill'[r].symbol]
                                        /\ fill'[r].pc = "book" /\ realized' = Book!Total(Cost')
    <3>1. CASE torn'
      BY <3>1 DEF Balanced
    <3>2. CASE ~torn'
      <4>1. Book!Total(Cost') \in Int
        BY <1>3, CostInt, TotalInt DEF LawfulBook, BookTypes, Cost, Position
      <4> QED
        BY <3>2, <4>1 DEF Balanced
    <3> QED
      BY <3>1, <3>2
  <2>1. ~torn /\ ~resetting
    BY <1>1
  <2>2. realized = Book!Total(Cost)
    BY <1>1, <2>1 DEF BookInv, Balanced
  <2> QED
    BY <1>1, <1>2, <1>4, <1>7, <2>1, <2>2 DEF LawfulBook
<1> QED
  BY <1>3, <1>5, <1>6, <1>8 DEF BookInv

(* What is booked is booked in both ledgers.                               *)
LEMMA StepBook ==
  ASSUME LawfulBook, BookInv, NEW t \in Thread, Book!Book(t)
  PROVE  BookInv'
<1> DEFINE f == fill[t]
           b == Book!Booked(fill[t])
<1>1. /\ f.pc = "book" /\ realized' = realized + b /\ ledger' = ledger + b
      /\ fill' = [fill EXCEPT ![t].pc = "store"]
      /\ UNCHANGED <<positions, lock, resetting, fills, resets, cash, forgotten, torn>>
  BY DEF Book!Book
<1>2. f \in Fill /\ b \in Int
  BY BookedInt DEF BookInv, BookTypes
<1>3. /\ fill'[t] \in Fill /\ fill'[t].pc = "store" /\ fill'[t].symbol = f.symbol
      /\ fill'[t].position = f.position /\ Book!Booked(fill'[t]) = b
      /\ \A r \in Thread : r # t => fill'[r] = fill[r] /\ fill[r].pc = "idle"
  <2>1. fill'[t] = [f EXCEPT !.pc = "store"]
    BY <1>1 DEF BookInv, BookTypes
  <2>2. /\ fill'[t] \in Fill /\ fill'[t].pc = "store" /\ fill'[t].symbol = f.symbol
        /\ fill'[t].position = f.position /\ fill'[t].signed = f.signed
        /\ fill'[t].price = f.price
    BY <1>2, <2>1 DEF Fill
  <2>3. Book!Booked(fill'[t]) = b
    BY <2>2 DEF Book!Booked
  <2>4. \A r \in Thread : r # t => fill'[r] = fill[r] /\ fill[r].pc = "idle"
    BY <1>1 DEF BookInv, BookTypes, Locked
  <2> QED
    BY <2>2, <2>3, <2>4
<1> HIDE DEF f, b
<1>4. BookTypes'
  BY <1>1, <1>2, <1>3 DEF BookInv, BookTypes
<1>5. Locked'
  BY <1>1, <1>3 DEF BookInv, Locked, f
<1>6. LedgerHasAll'
  BY <1>1, <1>2 DEF BookInv, BookTypes, LedgerHasAll
<1>7. Cost' = Cost /\ Book!Total(Cost') = Book!Total(Cost)
  <2>1. Cost' = Cost
    BY <1>1 DEF Cost
  <2> QED
    BY <2>1
<1>8. Balanced'
  <2> SUFFICES ASSUME ~torn' PROVE Balanced'
    BY DEF Balanced
  <2>1. Book!Total(Cost) \in Int
    BY CostInt, TotalInt DEF LawfulBook, BookInv
  <2>2. /\ f.position = positions[f.symbol] /\ realized = Book!Total(Cost)
        /\ ~resetting /\ lock # "free"
    BY <1>1, <2>1 DEF BookInv, Balanced, Locked, LawfulBook, f
  <2>3. realized' = Book!Total(Cost') + b
    BY <1>1, <1>7, <2>2
  <2> QED
    BY <1>1, <1>3, <2>2, <2>3 DEF Balanced
<1> QED
  BY <1>4, <1>5, <1>6, <1>8 DEF BookInv

(* The position is stored: it has cost what it cost before, what was paid  *)
(* for the fill and what was booked.                                       *)
LEMMA StepStore ==
  ASSUME LawfulBook, BookInv, NEW t \in Thread, Book!Store(t), Whole(fill[t])
  PROVE  BookInv'
<1> DEFINE f == fill[t]
           held == f.position.quantity + f.signed
           new == IF held = 0 THEN Book!Flat
                  ELSE [quantity |-> held, average |-> Book!Averaged(f), last |-> f.price]
<1>1. /\ f.pc = "store" /\ positions' = [positions EXCEPT ![f.symbol] = new]
      /\ cash' = [cash EXCEPT ![f.symbol] = @ - f.signed * f.price]
      /\ fill' = [fill EXCEPT ![t] = Book!NoFill(f.symbol)] /\ lock' = "free"
      /\ UNCHANGED <<realized, ledger, resetting, fills, resets, forgotten, torn>>
  BY DEF Book!Store
<1>2. /\ f \in Fill /\ Book!Booked(f) \in Int /\ Book!Averaged(f) \in Int /\ f.symbol \in Instrument
      /\ held \in Int /\ f.signed \in Int /\ f.price \in Int
      /\ f.position.quantity \in Int /\ f.position.average \in Int
  BY BookedInt, AveragedInt DEF BookInv, BookTypes, Fill, Position
<1>3. /\ new \in Position
      /\ new.quantity * new.average = held * Book!Averaged(f)
  <2>1. CASE held = 0
    <3>1. held * Book!Averaged(f) = 0 /\ 0 * 0 = 0
      BY <1>2, <2>1
    <3> QED
      BY <2>1, <3>1 DEF Book!Flat, Position
  <2>2. CASE held # 0
    BY <1>2, <2>2 DEF Position
  <2> QED
    BY <2>1, <2>2
<1>4. held * Book!Averaged(f)
        = f.position.quantity * f.position.average + f.signed * f.price + Book!Booked(f)
  BY <1>2, FillIsMoney
<1>5. /\ Book!NoFill(f.symbol) \in Fill /\ Book!NoFill(f.symbol).pc = "idle"
  BY <1>2 DEF Book!NoFill, Fill, Book!Flat, Position
<1>6. \A r \in Thread : fill'[r] \in Fill /\ fill'[r].pc = "idle"
  <2>1. ASSUME NEW r \in Thread, r # t PROVE fill'[r] = fill[r] /\ fill[r].pc = "idle"
    BY <1>1, <2>1 DEF BookInv, BookTypes, Locked
  <2>2. fill'[t] = Book!NoFill(f.symbol)
    BY <1>1 DEF BookInv, BookTypes
  <2> QED
    BY <1>5, <2>1, <2>2 DEF BookInv, BookTypes
<1> HIDE DEF new
<1>7. /\ f.signed * f.price \in Int /\ held * Book!Averaged(f) \in Int
      /\ f.position.quantity * f.position.average \in Int
  BY <1>2
<1>8. BookTypes'
  <2>1. positions' \in [Instrument -> Position] /\ cash' \in [Instrument -> Int]
    BY <1>1, <1>2, <1>3, <1>7 DEF BookInv, BookTypes
  <2>2. fill' \in [Thread -> Fill]
    BY <1>1, <1>6 DEF BookInv, BookTypes
  <2> QED
    BY <1>1, <2>1, <2>2 DEF BookInv, BookTypes
<1>9. Locked'
  BY <1>1, <1>6 DEF Locked, LawfulBook
<1>10. LedgerHasAll'
  BY <1>1 DEF BookInv, LedgerHasAll
<1>11. Balanced'
  <2> SUFFICES ASSUME ~torn' PROVE realized' = Book!Total(Cost') /\ ~resetting'
    BY <1>6 DEF Balanced
  <2>1. Cost \in [Instrument -> Int] /\ Cost' \in [Instrument -> Int] /\ Book!Total(Cost) \in Int
    BY <1>8, CostInt, TotalInt DEF LawfulBook, BookInv, BookTypes, Cost, Position
  <2>2. /\ f.position = positions[f.symbol] /\ realized = Book!Total(Cost) + Book!Booked(f)
        /\ ~resetting
    BY <1>1 DEF BookInv, Balanced, Locked, LawfulBook
  <2> DEFINE e == f.symbol
  <2>3. /\ Cost[e] = cash[e] + f.position.quantity * f.position.average
        /\ Cost'[e] = (cash[e] - f.signed * f.price) + new.quantity * new.average
        /\ \A s \in Instrument : s # e => Cost'[s] = Cost[s]
    BY <1>1, <1>2, <2>2 DEF BookInv, BookTypes, Cost
  <2>4. cash[e] \in Int
    BY <1>2 DEF BookInv, BookTypes
  <2>5. Book!Total(Cost') = Book!Total(Cost) + (Cost'[e] - Cost[e])
    BY <1>2, <2>1, <2>3, TotalChange DEF LawfulBook
  <2>6. Cost'[e] - Cost[e] = Book!Booked(f)
    BY <1>2, <1>3, <1>4, <1>7, <2>3, <2>4
  <2> QED
    BY <1>1, <2>2, <2>5, <2>6
<1> QED
  BY <1>8, <1>9, <1>10, <1>11 DEF BookInv

(* A reset empties the positions, then the result.                         *)
LEMMA StepResets ==
  ASSUME LawfulBook, BookInv, Book!ResetPositions \/ Book!ResetRealized
  PROVE  BookInv'
<1>1. CASE Book!ResetPositions
  <2>1. Book!Flat \in Position
    BY DEF Book!Flat, Position
  <2>2. BookTypes'
    BY <1>1, <2>1 DEF Book!ResetPositions, BookInv, BookTypes
  <2>3. Locked' /\ LedgerHasAll'
    BY <1>1 DEF Book!ResetPositions, BookInv, Locked, LedgerHasAll
  <2>4. Balanced'
    <3> SUFFICES ASSUME ~torn' PROVE lock = "free" /\ resetting'
                                     /\ positions' = [s \in Instrument |-> Book!Flat]
      BY <1>1 DEF Book!ResetPositions, BookInv, Locked, Balanced, LawfulBook
    <3> QED
      BY <1>1 DEF Book!ResetPositions
  <2> QED
    BY <2>2, <2>3, <2>4 DEF BookInv
<1>2. CASE Book!ResetRealized
  <2>1. BookTypes'
    <3>1. torn' \in BOOLEAN
      BY <1>2 DEF Book!ResetRealized
    <3>2. forgotten' \in Int /\ realized' \in Int /\ cash' \in [Instrument -> Int]
      BY <1>2 DEF Book!ResetRealized, BookInv, BookTypes
    <3> QED
      BY <1>2, <3>1, <3>2 DEF Book!ResetRealized, BookInv, BookTypes
  <2>2. Locked'
    BY <1>2 DEF Book!ResetRealized, BookInv, Locked
  <2>3. LedgerHasAll'
    BY <1>2 DEF Book!ResetRealized, BookInv, BookTypes, LedgerHasAll
  <2>4. Balanced'
    <3> SUFFICES ASSUME ~torn' PROVE lock = "free" /\ realized' = Book!Total(Cost')
      BY <1>2 DEF Book!ResetRealized, BookInv, Locked, Balanced, LawfulBook
    <3>1. lock = "free" /\ positions' = [s \in Instrument |-> Book!Flat]
      BY <1>2 DEF Book!ResetRealized, BookInv, Balanced
    <3>2. cash' = [s \in Instrument |-> 0]
      BY <1>2 DEF Book!ResetRealized
    <3>3. Cost' \in [Instrument -> Int] /\ \A s \in Instrument : Cost'[s] = 0
      BY <3>1, <3>2 DEF Cost, Book!Flat
    <3>4. Book!Total(Cost') = 0
      BY <3>3, TotalZero DEF LawfulBook
    <3> QED
      BY <1>2, <3>1, <3>4 DEF Book!ResetRealized
  <2> QED
    BY <2>1, <2>2, <2>3, <2>4 DEF BookInv
<1> QED
  BY <1>1, <1>2

(* Every step of the book keeps the invariant, if the averages are whole.  *)
LEMMA StepBookInv ==
  ASSUME LawfulBook, BookInv, WholeAverages, [Book!Next]_Book!vars
  PROVE  BookInv'
<1>1. ASSUME NEW t \in Thread, NEW s \in Instrument, NEW q \in Quantity, NEW p \in Price,
             Book!TakeLock(t, s, q, p) \/ Book!TakeLock(t, s, -q, p)
      PROVE  BookInv'
  <2>1. q \in Int /\ -q \in Int
    BY DEF LawfulBook
  <2> QED
    BY <1>1, <2>1, StepTakeLock
<1>2. ASSUME NEW t \in Thread, Book!Book(t) PROVE BookInv'
  BY <1>2, StepBook
<1>3. ASSUME NEW t \in Thread, Book!Store(t) PROVE BookInv'
  <2>1. Whole(fill[t])
    BY <1>3 DEF Book!Store, WholeAverages
  <2> QED
    BY <1>3, <2>1, StepStore
<1>4. CASE Book!ResetPositions \/ Book!ResetRealized
  BY <1>4, StepResets
<1>5. CASE UNCHANGED Book!vars
  <2>1. UNCHANGED Cost
    BY <1>5 DEF Book!vars, Cost
  <2>2. Book!Total(Cost') = Book!Total(Cost)
    BY <2>1
  <2>3. BookTypes' /\ Locked' /\ LedgerHasAll'
    BY <1>5 DEF Book!vars, BookInv, BookTypes, Locked, LedgerHasAll
  <2>4. Balanced'
    BY <1>5, <2>2 DEF Book!vars, BookInv, Balanced
  <2> QED
    BY <2>3, <2>4 DEF BookInv
<1> QED
  BY <1>1, <1>2, <1>3, <1>4, <1>5 DEF Book!Next

(* Between two fills the book is what the panel shows.                     *)
LEMMA InvBalances == LawfulBook /\ BookInv => Book!BookBalances
<1> SUFFICES ASSUME LawfulBook, BookInv, lock = "free", ~resetting, ~torn
             PROVE  /\ realized + Book!Unrealized
                         = Book!Total(cash) + Book!Total([s \in Instrument |->
                             positions[s].last * positions[s].quantity])
                    /\ ledger = forgotten + realized
  BY DEF Book!BookBalances
<1> DEFINE gain == [s \in Instrument |->
                     (positions[s].last - positions[s].average) * positions[s].quantity]
           value == [s \in Instrument |-> positions[s].last * positions[s].quantity]
           spent == [s \in Instrument |-> cash[s] + value[s]]
<1>1. \A s \in Instrument : /\ positions[s].quantity \in Int /\ positions[s].average \in Int
                        /\ positions[s].last \in Int /\ cash[s] \in Int
  BY DEF BookInv, BookTypes, Position
<1>2. cash \in [Instrument -> Int] /\ Cost \in [Instrument -> Int]
  BY CostInt DEF BookInv, BookTypes
<1>3. gain \in [Instrument -> Int] /\ value \in [Instrument -> Int]
  BY <1>1
<1>4. spent \in [Instrument -> Int]
  BY <1>2, <1>3
<1>5. \A s \in Instrument : spent[s] = Cost[s] + gain[s]
  <2> SUFFICES ASSUME NEW s \in Instrument PROVE spent[s] = Cost[s] + gain[s]
    OBVIOUS
  <2>1. \A l, a, q \in Int : l * q = q * a + (l - a) * q
    OBVIOUS
  <2>2. value[s] = positions[s].quantity * positions[s].average + gain[s]
    BY <1>1, <2>1
  <2>3. spent[s] = cash[s] + value[s]
        /\ Cost[s] = cash[s] + positions[s].quantity * positions[s].average
    BY DEF Cost
  <2>4. positions[s].quantity * positions[s].average \in Int /\ gain[s] \in Int
        /\ cash[s] \in Int
    BY <1>1, <1>3
  <2> QED
    BY <2>2, <2>3, <2>4
<1>6. \A s \in Instrument : spent[s] = cash[s] + value[s]
  OBVIOUS
<1>7. Book!Unrealized = Book!Total(gain)
  BY DEF Book!Unrealized
<1> HIDE DEF gain, value, spent
<1>8. Book!Total(spent) = Book!Total(Cost) + Book!Total(gain) /\ Book!Total(spent) = Book!Total(cash) + Book!Total(value)
  BY <1>2, <1>3, <1>4, <1>5, <1>6, TotalAdd DEF LawfulBook
<1>9. realized = Book!Total(Cost)
  BY DEF BookInv, Balanced
<1>10. realized + Book!Unrealized = Book!Total(cash) + Book!Total(value)
  BY <1>7, <1>8, <1>9
<1> QED
  BY <1>10 DEF value, BookInv, LedgerHasAll

(* Through any fills and resets of any threads, as long as the averages    *)
(* come out whole: between two fills the profit the panel shows is money   *)
(* the fills brought in and what the open positions would bring, and the   *)
(* ledger of the daily loss cap has every result booked.                   *)
THEOREM BookAddsUp ==
  Book!Spec /\ []WholeAverages => []BookBalances
<1>1. BookInv /\ WholeAverages /\ [Book!Next]_Book!vars => BookInv'
  BY StepBookInv, BookAssumption
<1>2. Book!Init => BookInv
  BY InitBook, BookAssumption
<1>3. BookInv => BookBalances
  BY InvBalances, BookAssumption DEF BookBalances
<1> QED
  BY <1>1, <1>2, <1>3, PTL DEF Book!Spec

-----------------------------------------------------------------------------
(***************************************************************************)
(* The payouts (Transfers), for any requests, amounts and limits and any   *)
(* number of changes of the session.  The invariant follows the one POST   *)
(* of a request: before it nothing has happened, and after it the copy     *)
(* under way and the transfer at Choice are one together.                  *)
(***************************************************************************)
Mode == {"DISCONNECTED", "DEMO", "PAPER", "LIVE"}
Pc == {"new", "check", "client", "post", "await", "answered", "done", "dead"}
Calls == [pc : Pc, kind : {"none", "withdraw", "add", "convert"}, amount : Int,
          result : {"none", "done", "refused"}, kept : BOOLEAN]

Typed ==
  /\ account \in Mode
  /\ call \in [Request -> Calls]
  /\ wire \in [Request -> Nat] /\ taken \in [Request -> Nat]
  /\ reply \in [Request -> {"none", "ok", "fail"}]
  /\ audit \in [Request -> {"nothing", "done", "refused"}]

\* The POST of r: not sent yet, or one that arrived or is on its way.
OnePost(r) ==
  /\ call[r].pc \in {"new", "check", "client", "post"} =>
       wire[r] = 0 /\ taken[r] = 0 /\ reply[r] = "none" /\ call[r].result = "none"
  /\ wire[r] + taken[r] <= 1
  /\ reply[r] = "ok" => taken[r] = 1

\* What r believes and records is so.
Truth(r) ==
  /\ call[r].pc = "answered" => call[r].result # "none"
  /\ call[r].result = "done" => taken[r] = 1
  /\ audit[r] = "done" => taken[r] = 1
  /\ call[r].pc = "done" /\ call[r].kind = "withdraw" => audit[r] # "nothing"

\* While the session keeps its mode, only a live one gets to the POST.
LiveOnly(r) ==
  Payouts!Underway(r) /\ call[r].kept =>
    /\ call[r].pc = "client" => ~Payouts!Simulates
    /\ call[r].pc \in {"post", "await"} \/ wire[r] + taken[r] > 0 => account = "LIVE"

RequestInv(r) == OnePost(r) /\ Truth(r) /\ LiveOnly(r)
MoneyInv == Typed /\ \A r \in Request : RequestInv(r)

-----------------------------------------------------------------------------
(* In the beginning there is no request.                                   *)
LEMMA InitMoney == Payouts!Init => MoneyInv
  BY DEF Payouts!Init, Payouts!New, MoneyInv, Typed, Mode, Calls, Pc, RequestInv, OnePost, Truth,
     LiveOnly, Payouts!Underway

(* A request sees to itself: a step that changes nothing of request q and  *)
(* not the mode keeps what the invariant says of q.                        *)
LEMMA OthersKeep ==
  ASSUME NEW q \in Request, RequestInv(q), account' = account, call'[q] = call[q], wire'[q] = wire[q],
         reply'[q] = reply[q], taken'[q] = taken[q], audit'[q] = audit[q]
  PROVE  RequestInv(q)'
  BY DEF RequestInv, OnePost, Truth, LiveOnly, Payouts!Underway, Payouts!Simulates

(* A step of r that sends nothing and records nothing keeps the invariant  *)
(* if the state it goes to does.                                           *)
LEMMA GoesMoney ==
  ASSUME MoneyInv, NEW r \in Request, NEW to \in Calls, Payouts!Goes(r, to), Payouts!Elsewhere, Payouts!Choice,
         RequestInv(r)'
  PROVE  MoneyInv'
<1>1. Typed'
  BY DEF Payouts!Goes, Payouts!Elsewhere, Payouts!Choice, MoneyInv, Typed
<1>2. ASSUME NEW q \in Request PROVE RequestInv(q)'
  <2>1. CASE q # r
    BY <2>1, OthersKeep DEF Payouts!Goes, Payouts!Elsewhere, Payouts!Choice, MoneyInv, Typed
  <2> QED
    BY <2>1
<1> QED
  BY <1>1, <1>2 DEF MoneyInv

(* Every step keeps the invariant, if the amounts are integers.            *)
LEMMA StepMoney ==
  ASSUME Amount \subseteq Int, MoneyInv, [Payouts!Next]_Payouts!vars
  PROVE  MoneyInv'
<1> USE DEF RequestInv, OnePost, Truth, LiveOnly, Payouts!Underway, Payouts!Simulates
<1>1. ASSUME NEW m \in Mode, Payouts!SetMode(m) PROVE MoneyInv'
  <2>1. UNCHANGED <<wire, reply, taken, audit>> /\ account' = m
    BY <1>1 DEF Payouts!SetMode
  <2>2. ASSUME NEW q \in Request
        PROVE  IF Payouts!Underway(q) THEN call'[q] = [call[q] EXCEPT !.kept = FALSE]
               ELSE call'[q] = call[q]
    BY <1>1 DEF Payouts!SetMode
  <2>3. Typed'
    <3>1. \A q \in Request : call'[q] \in Calls
      <4> SUFFICES ASSUME NEW q \in Request PROVE call'[q] \in Calls
        OBVIOUS
      <4>1. call[q] \in Calls
        BY DEF MoneyInv, Typed
      <4>2. [call[q] EXCEPT !.kept = FALSE] \in Calls
        BY <4>1 DEF Calls
      <4> QED
        BY <2>2, <4>1, <4>2
    <3>2. call' = [q \in Request |-> call'[q]]
      BY <1>1 DEF Payouts!SetMode
    <3> QED
      BY <2>1, <3>1, <3>2 DEF MoneyInv, Typed
  <2>4. ASSUME NEW q \in Request PROVE RequestInv(q)'
    <3>1. call[q] \in Calls
      BY DEF MoneyInv, Typed
    <3>2. call'[q].pc = call[q].pc /\ call'[q].kind = call[q].kind /\ call'[q].result = call[q].result
          /\ (Payouts!Underway(q) => ~call'[q].kept)
      BY <2>2, <3>1 DEF Calls
    <3> QED
      BY <2>1, <3>2 DEF MoneyInv
  <2> QED
    BY <2>3, <2>4 DEF MoneyInv
<1>2. ASSUME NEW r \in Request, NEW kind \in {"withdraw", "add", "convert"},
             NEW amount \in Int, Payouts!Call(r, kind, amount)
      PROVE  MoneyInv'
  <2> DEFINE to == [Payouts!New EXCEPT !.pc = "check", !.kind = kind, !.amount = amount]
  <2>1. to \in Calls /\ to.pc = "check" /\ to.result = "none"
    BY DEF Payouts!New, Calls, Pc
  <2>2. call[r].pc = "new" /\ Payouts!Goes(r, to) /\ Payouts!Elsewhere /\ Payouts!Choice
    BY <1>2 DEF Payouts!Call
  <2> HIDE DEF to
  <2>3. call'[r] = to
    BY <2>2 DEF Payouts!Goes, MoneyInv, Typed
  <2>4. RequestInv(r)'
    BY <2>1, <2>2, <2>3 DEF Payouts!Elsewhere, Payouts!Choice, MoneyInv
  <2> QED
    BY <2>1, <2>2, <2>4, GoesMoney
<1>3. ASSUME NEW r \in Request, call[r].pc \in {"check", "client", "post"}, Payouts!Goes(r, Payouts!Refused(r)),
             Payouts!Elsewhere, Payouts!Choice
      PROVE  MoneyInv'
  <2>1. Payouts!Refused(r) \in Calls /\ Payouts!Refused(r).pc = "answered" /\ Payouts!Refused(r).result = "refused"
    <3>1. call[r] \in Calls
      BY DEF MoneyInv, Typed
    <3> QED
      BY <3>1 DEF Payouts!Refused, Calls, Pc
  <2>2. call'[r] = Payouts!Refused(r)
    BY <1>3 DEF Payouts!Goes, MoneyInv, Typed
  <2>3. RequestInv(r)'
    BY <1>3, <2>1, <2>2 DEF Payouts!Elsewhere, Payouts!Choice, MoneyInv
  <2> QED
    BY <1>3, <2>1, <2>3, GoesMoney
<1>4. ASSUME NEW r \in Request, NEW amount \in Int, call[r].pc = "check", ~Payouts!Simulates,
             Payouts!Goes(r, [call[r] EXCEPT !.pc = "client", !.amount = amount]), Payouts!Elsewhere, Payouts!Choice
      PROVE  MoneyInv'
  <2> DEFINE to == [call[r] EXCEPT !.pc = "client", !.amount = amount]
  <2>1. to \in Calls /\ to.pc = "client" /\ to.result = call[r].result
    <3>1. call[r] \in Calls
      BY DEF MoneyInv, Typed
    <3> QED
      BY <3>1 DEF Calls, Pc
  <2> HIDE DEF to
  <2>2. Payouts!Goes(r, to)
    BY <1>4 DEF to
  <2>3. call'[r] = to
    BY <2>2 DEF Payouts!Goes, MoneyInv, Typed
  <2>4. RequestInv(r)'
    BY <1>4, <2>1, <2>3 DEF Payouts!Elsewhere, Payouts!Choice, MoneyInv
  <2> QED
    BY <1>4, <2>1, <2>2, <2>4, GoesMoney
<1>5. ASSUME NEW r \in Request, Payouts!RequireClient(r), account \in {"PAPER", "LIVE"} PROVE MoneyInv'
  <2> DEFINE to == [call[r] EXCEPT !.pc = "post"]
  <2>1. to \in Calls /\ to.pc = "post" /\ to.result = call[r].result /\ to.kept = call[r].kept
    BY DEF MoneyInv, Typed, Calls, Pc
  <2> HIDE DEF to
  <2>2. call[r].pc = "client" /\ Payouts!Goes(r, to) /\ Payouts!Elsewhere /\ Payouts!Choice
    BY <1>5 DEF Payouts!RequireClient, to
  <2>3. call'[r] = to
    BY <2>2 DEF Payouts!Goes, MoneyInv, Typed
  <2>4. RequestInv(r)'
    BY <1>5, <2>1, <2>2, <2>3 DEF Payouts!Elsewhere, Payouts!Choice, MoneyInv
  <2> QED
    BY <2>1, <2>2, <2>4, GoesMoney
<1>6. ASSUME NEW r \in Request, Payouts!Post(r) PROVE MoneyInv'
  <2>1. call[r].pc = "post" /\ call[r] \in Calls
    BY <1>6 DEF Payouts!Post, MoneyInv, Typed
  <2>2. call' = [call EXCEPT ![r].pc = "await"] /\ wire' = [wire EXCEPT ![r] = @ + 1]
        /\ UNCHANGED <<account, audit, reply, taken>>
    BY <1>6 DEF Payouts!Post, Payouts!Goes, Payouts!Elsewhere, MoneyInv, Typed
  <2>3. call'[r].pc = "await" /\ call'[r].result = call[r].result /\ call'[r].kept = call[r].kept
        /\ wire'[r] = wire[r] + 1
    BY <2>1, <2>2 DEF MoneyInv, Typed, Calls
  <2>4. wire[r] = 0 /\ taken[r] = 0 /\ reply[r] = "none" /\ call[r].result = "none"
    BY <2>1 DEF MoneyInv
  <2>5. Typed'
    BY <2>2 DEF MoneyInv, Typed, Calls, Pc
  <2>6. RequestInv(r)'
    BY <2>1, <2>2, <2>3, <2>4 DEF MoneyInv
  <2>7. ASSUME NEW q \in Request PROVE RequestInv(q)'
    <3>1. CASE q # r
      BY <2>2, <3>1, OthersKeep DEF MoneyInv, Typed
    <3> QED
      BY <2>6, <3>1
  <2> QED
    BY <2>5, <2>7 DEF MoneyInv
<1>7. ASSUME NEW r \in Request, NEW pc \in {"answered", "dead"}, NEW result \in {"none", "done", "refused"},
             call[r].pc \notin {"new", "done", "dead"},
             call' = [call EXCEPT ![r] = [call[r] EXCEPT !.pc = pc, !.result = result]],
             reply' = [reply EXCEPT ![r] = "none"], UNCHANGED <<account, wire, taken, audit>>,
             result = "done" => taken[r] = 1, pc = "answered" => result # "none" /\ call[r].pc = "await"
      PROVE  MoneyInv'
  <2>1. call[r] \in Calls
    BY DEF MoneyInv, Typed
  <2>2. call'[r].pc = pc /\ call'[r].result = result /\ call'[r].kept = call[r].kept
        /\ reply'[r] = "none"
    BY <1>7, <2>1 DEF MoneyInv, Typed, Calls
  <2>3. Typed'
    <3>1. [call[r] EXCEPT !.pc = pc, !.result = result] \in Calls
      BY <2>1 DEF Calls, Pc
    <3> QED
      BY <1>7, <3>1 DEF MoneyInv, Typed
  <2>4. RequestInv(r)'
    BY <1>7, <2>2 DEF MoneyInv
  <2>5. ASSUME NEW q \in Request PROVE RequestInv(q)'
    <3>1. CASE q # r
      BY <1>7, <3>1, OthersKeep DEF MoneyInv, Typed
    <3> QED
      BY <2>4, <3>1
  <2> QED
    BY <2>3, <2>5 DEF MoneyInv
<1>8. ASSUME NEW r \in Request, Payouts!Sent(r) PROVE MoneyInv'
  <2>1. call[r].pc = "await" /\ call[r] \in Calls /\ UNCHANGED <<account, wire, taken, audit>>
        /\ reply' = [reply EXCEPT ![r] = "none"]
    BY <1>8 DEF Payouts!Sent, Payouts!Answer, Payouts!Timeout, Payouts!Elsewhere, MoneyInv, Typed
  <2>2. \E result \in {"done", "refused"} :
          /\ call' = [call EXCEPT ![r] = [call[r] EXCEPT !.pc = "answered", !.result = result]]
          /\ result = "done" => reply[r] = "ok"
    BY <1>8 DEF Payouts!Sent, Payouts!Answer, Payouts!Timeout, Payouts!Goes, Payouts!Refused
  <2>3. PICK result \in {"done", "refused"} :
          /\ call' = [call EXCEPT ![r] = [call[r] EXCEPT !.pc = "answered", !.result = result]]
          /\ result = "done" => reply[r] = "ok"
    BY <2>2
  <2>4. result = "done" => taken[r] = 1
    BY <2>3 DEF MoneyInv
  <2> QED
    BY <1>7, <2>1, <2>3, <2>4
<1>9. ASSUME NEW r \in Request, Payouts!Dies(r) PROVE MoneyInv'
  <2>1. call[r] \in Calls
    BY DEF MoneyInv, Typed
  <2>2. [call[r] EXCEPT !.pc = "dead"] = [call[r] EXCEPT !.pc = "dead", !.result = call[r].result]
    BY <2>1 DEF Calls
  <2>3. call[r].result = "done" => taken[r] = 1
    BY DEF MoneyInv
  <2>4. call[r].result \in {"none", "done", "refused"}
    BY <2>1 DEF Calls
  <2> QED
    BY <1>7, <1>9, <2>2, <2>3, <2>4 DEF Payouts!Dies, Payouts!Goes, Payouts!Elsewhere
<1>10. ASSUME NEW r \in Request, NEW result \in {"nothing", "done", "refused"}, Payouts!Recorded(r, result),
              call[r].kind = "withdraw" => result # "nothing", result = "done" => call[r].result = "done"
       PROVE  MoneyInv'
  <2>1. call[r].pc = "answered" /\ call[r] \in Calls
    BY <1>10 DEF Payouts!Recorded, MoneyInv, Typed
  <2>2. call' = [call EXCEPT ![r] = [call[r] EXCEPT !.pc = "done"]]
        /\ audit' = [audit EXCEPT ![r] = result] /\ UNCHANGED <<account, wire, reply, taken>>
    BY <1>10 DEF Payouts!Recorded, Payouts!Goes, Payouts!Choice
  <2>3. call'[r].pc = "done" /\ call'[r].kind = call[r].kind /\ call'[r].result = call[r].result
        /\ audit'[r] = result
    BY <2>1, <2>2 DEF MoneyInv, Typed, Calls
  <2>4. Typed'
    BY <2>2 DEF MoneyInv, Typed, Calls, Pc
  <2>5. RequestInv(r)'
    BY <1>10, <2>1, <2>2, <2>3 DEF MoneyInv
  <2>6. ASSUME NEW q \in Request PROVE RequestInv(q)'
    <3>1. CASE q # r
      BY <2>2, <3>1, OthersKeep DEF MoneyInv, Typed
    <3> QED
      BY <2>5, <3>1
  <2> QED
    BY <2>4, <2>6 DEF MoneyInv
<1>11. ASSUME NEW r \in Request, Payouts!Arrives(r) PROVE MoneyInv'
  <2>1. PICK answer \in {"ok", "fail", "none"}, moved \in {0, 1} :
          /\ reply' = [reply EXCEPT ![r] = IF call[r].pc = "await" THEN answer ELSE @]
          /\ taken' = [taken EXCEPT ![r] = @ + moved]
          /\ answer = "ok" => moved = 1
    BY <1>11 DEF Payouts!Arrives
  <2>2. wire[r] = 1 /\ taken[r] = 0 /\ wire' = [wire EXCEPT ![r] = @ - 1]
        /\ UNCHANGED <<account, call, audit>>
    BY <1>11 DEF Payouts!Arrives, Payouts!Elsewhere, MoneyInv, Typed
  <2>3. wire'[r] = 0 /\ taken'[r] = moved
        /\ (reply'[r] = "ok" => call[r].pc = "await" /\ answer = "ok")
    BY <2>1, <2>2 DEF MoneyInv, Typed
  <2>4. Typed'
    BY <2>1, <2>2 DEF MoneyInv, Typed
  <2>5. RequestInv(r)'
    BY <2>1, <2>2, <2>3 DEF MoneyInv
  <2>6. ASSUME NEW q \in Request PROVE RequestInv(q)'
    <3>1. CASE q # r
      BY <2>1, <2>2, <3>1, OthersKeep DEF MoneyInv, Typed
    <3> QED
      BY <2>5, <3>1
  <2> QED
    BY <2>4, <2>6 DEF MoneyInv
<1>12. ASSUME UNCHANGED Payouts!vars PROVE MoneyInv'
  BY <1>12 DEF Payouts!vars, MoneyInv, Typed
<1>13. ASSUME NEW r \in Request, Payouts!Withdraw(r) \/ Payouts!AddFunds(r) \/ Payouts!ConvertPosition(r) PROVE MoneyInv'
  <2>1. CASE Payouts!CheckTransfer(r)
    <3>1. Payouts!Rounded(call[r].amount) \in Int
      BY DEF Payouts!Rounded, MoneyInv, Typed, Calls
    <3> QED
      BY <1>3, <1>4, <2>1, <3>1 DEF Payouts!CheckTransfer
  <2>2. CASE Payouts!CheckConversion(r)
    <3>1. call[r] \in Calls
      BY DEF MoneyInv, Typed
    <3>2. call[r].amount \in Int
          /\ [call[r] EXCEPT !.pc = "client"] = [call[r] EXCEPT !.pc = "client", !.amount = call[r].amount]
      BY <3>1 DEF Calls
    <3> QED
      BY <1>3, <1>4, <2>2, <3>2 DEF Payouts!CheckConversion
  <2>3. CASE Payouts!RequireClient(r)
    BY <1>3, <1>5, <2>3 DEF Payouts!RequireClient
  <2>4. CASE Payouts!WrongMethod(r)
    BY <1>3, <2>4 DEF Payouts!WrongMethod
  <2> QED
    BY <1>6, <1>8, <1>13, <2>1, <2>2, <2>3, <2>4
       DEF Payouts!Withdraw, Payouts!AddFunds, Payouts!ConvertPosition
<1>14. ASSUME NEW r \in Request, Payouts!RecordWithdrawal(r) \/ Payouts!RecordDone(r) PROVE MoneyInv'
  <2>1. call[r].result \in {"none", "done", "refused"}
    BY DEF MoneyInv, Typed, Calls
  <2>2. call[r].pc = "answered" /\ call[r].result # "none"
    BY <1>14 DEF Payouts!RecordWithdrawal, Payouts!RecordDone, Payouts!Recorded, MoneyInv
  <2> QED
    BY <1>10, <1>14, <2>1, <2>2 DEF Payouts!RecordWithdrawal, Payouts!RecordDone
<1> QED
  BY <1>1, <1>2, <1>9, <1>11, <1>12, <1>13, <1>14 DEF Payouts!Next, Mode

(* For any amounts: _dispatch posts once and post() is not repeated, the   *)
(* simulated session is refused before it, and the endpoint writes its row *)
(* whatever came of the call.                                              *)
THEOREM PayoutsRecorded ==
  Payouts!Spec => []PayoutsLeaveARecord
<1>1. Payouts!Init => MoneyInv
  BY InitMoney
<1>2. MoneyInv /\ [Payouts!Next]_Payouts!vars => MoneyInv'
  BY StepMoney, PayoutsAssumption
<1>3. MoneyInv => PayoutsLeaveARecord
  <2> SUFFICES ASSUME MoneyInv, NEW r \in Request
               PROVE  /\ call[r].kind = "withdraw" /\ taken[r] > 0 /\ call[r].pc = "done" =>
                            audit[r] # "nothing"
                      /\ audit[r] = "done" => taken[r] = 1
                      /\ taken[r] <= 1
                      /\ taken[r] > 0 /\ Payouts!Underway(r) /\ call[r].kept => account = "LIVE"
    BY DEF PayoutsLeaveARecord, Payouts!PayoutsLeaveARecord
  <2> QED
    BY DEF MoneyInv, Typed, RequestInv, OnePost, Truth, LiveOnly
<1> QED
  BY <1>1, <1>2, <1>3, PTL DEF Payouts!Spec

-----------------------------------------------------------------------------
(***************************************************************************)
(* The account of a backtest (Backtest), for any prices and capitals, any  *)
(* quantity and cap, any number of periods and any history.  The sum over  *)
(* its trades is a fold of a sequence, which takes the last element first. *)
(***************************************************************************)
(* The sum of a sequence: FoldLeft takes the last element first.           *)
Highest == [u \in SUBSET Nat |-> Test!Max(u)]

\* A set as the map of its elements to themselves.
Itself(D) == [x \in D |-> x]

(* A finite set of integers has a greatest element.                        *)
LEMMA GreatestExists ==
  ASSUME NEW D, Ints(D, Itself(D)), IsFiniteSet(D)
  PROVE  \A u \in SUBSET D : u # {} => \E x \in u : \A y \in u : x >= y
<1> DEFINE Greatest(u) == \E x \in u : \A y \in u : x >= y
           Bad == {u \in SUBSET D : u # {} /\ ~ Greatest(u)}
<1> SUFFICES ASSUME Bad # {} PROVE FALSE
  OBVIOUS
<1>1. PICK u \in Bad : \A w \in Bad : w \subseteq u => w = u
  <2>1. Bad \in SUBSET (SUBSET D) /\ Bad # {}
    OBVIOUS
  <2> HIDE DEF Bad
  <2>2. \E u \in Bad : \A w \in Bad : w \subseteq u => w = u
    BY <2>1, Smallest
  <2> QED
    BY <2>2, Zenon
<1>2. u \in SUBSET D /\ u # {} /\ ~ Greatest(u) /\ \A x \in u : x \in Int
  BY DEF Ints, Itself
<1>3. PICK e \in u : TRUE
  BY <1>2
<1>4. u \ {e} \notin Bad
  BY <1>1, <1>3
<1>5. CASE u \ {e} = {}
  <2>1. \A y \in u : y = e
    BY <1>5
  <2>2. Greatest(u)
    BY <1>2, <1>3, <2>1
  <2> QED
    BY <1>2, <2>2
<1>6. CASE u \ {e} # {}
  <2>1. Greatest(u \ {e})
    BY <1>2, <1>4, <1>6
  <2>2. PICK x \in u \ {e} : \A y \in u \ {e} : x >= y
    BY <2>1
  <2>3. x \in Int /\ e \in Int /\ \A y \in u : y \in Int
    BY <1>2, <1>3
  <2>4. CASE x >= e
    <3>1. \A y \in u : x >= y
      BY <2>2, <2>4
    <3> QED
      BY <1>2, <3>1
  <2>5. CASE ~ (x >= e)
    <3>1. \A y \in u : e >= y
      BY <2>2, <2>3, <2>5
    <3> QED
      BY <1>2, <1>3, <3>1
  <2> QED
    BY <2>4, <2>5
<1> QED
  BY <1>5, <1>6

(* It picks an element of every set of positions.                          *)
LEMMA HighestPicks ==
  ASSUME NEW n \in Nat
  PROVE  Picks(1 .. n, Highest)
<1>1. 1 .. n \in SUBSET Nat /\ IsFiniteSet(1 .. n)
  BY FS_Interval
<1>2. ASSUME NEW u \in SUBSET (1 .. n), u # {} PROVE Highest[u] \in u
  <2>1. \E x \in u : \A y \in u : x >= y
    <3>1. Ints(1 .. n, Itself(1 .. n))
      BY DEF Ints, Itself
    <3> QED
      BY <1>1, <1>2, <3>1, GreatestExists
  <2>2. Test!Max(u) \in u
    BY <2>1 DEF Test!Max
  <2>3. Highest[u] = Test!Max(u)
    BY <1>1 DEF Highest
  <2> QED
    BY <2>2, <2>3, Zenon
<1> QED
  BY <1>2 DEF Picks

(* The highest of the first n positions is n.                              *)
LEMMA HighestOfAll == \A n \in Nat \ {0} : Highest[1 .. n] = n
<1> SUFFICES ASSUME NEW n \in Nat \ {0} PROVE Highest[1 .. n] = n
  OBVIOUS
<1>1. Highest[1 .. n] = Test!Max(1 .. n)
  <2>1. 1 .. n \in SUBSET Nat
    OBVIOUS
  <2> QED
    BY <2>1 DEF Highest
<1>2. Test!Max(1 .. n) = n
  <2>1. n \in 1 .. n /\ \A y \in 1 .. n : n >= y
    OBVIOUS
  <2>2. \A x \in 1 .. n : (\A y \in 1 .. n : x >= y) => x = n
    OBVIOUS
  <2> QED
    BY <2>1, <2>2 DEF Test!Max
<1> QED
  BY <1>1, <1>2

(* Sum of Backtest is a sum over the positions.                            *)
LEMMA SumIs ==
  ASSUME NEW s \in Seq(Int)
  PROVE  \E g : Sums(1 .. Len(s), Highest, s, g) /\ Test!Sum(s) = g[1 .. Len(s)]
<1> DEFINE D == 1 .. Len(s)
           iter == CHOOSE g : g = [u \in SUBSET D |->
                     IF u = {} THEN 0 ELSE g[u \ {Test!Max(u)}] + s[Test!Max(u)]]
<1>1. Test!Sum(s) = iter[D]
  <2>1. Test!Sum(s) = (CHOOSE g : g = [u \in SUBSET (DOMAIN s) |->
                    IF u = {} THEN 0 ELSE g[u \ {Test!Max(u)}] + s[Test!Max(u)]])[DOMAIN s]
    BY DEF Test!Sum, Test!FoldLeft, Test!MapThenFoldSet
  <2>2. DOMAIN s = D
    OBVIOUS
  <2> HIDE DEF D
  <2> QED
    BY <2>1, <2>2
<1>2. Len(s) \in Nat /\ IsFiniteSet(D) /\ Picks(D, Highest) /\ Ints(D, s)
  <2>1. Len(s) \in Nat /\ Ints(D, s)
    BY DEF Ints
  <2> QED
    BY <2>1, FS_Interval, HighestPicks
<1>3. \A u \in SUBSET D : Highest[u] = Test!Max(u)
  BY <1>2 DEF Highest
<1>4. PICK g : Sums(D, Highest, s, g)
  BY <1>2, SumsExist
<1> HIDE DEF D
<1>5. ASSUME NEW u \in SUBSET D, u # {}
      PROVE  s[Highest[u]] + g[u \ {Highest[u]}] = g[u \ {Test!Max(u)}] + s[Test!Max(u)]
  <2>1. Highest[u] \in D /\ u \ {Highest[u]} \in SUBSET D
    BY <1>2, <1>4, <1>5, SumsRec
  <2>2. g[u \ {Highest[u]}] \in Int
    BY <1>2, <1>4, <2>1, SumsInt
  <2>3. s[Highest[u]] \in Int
    BY <1>2, <2>1 DEF Ints
  <2>4. s[Highest[u]] + g[u \ {Highest[u]}] = g[u \ {Highest[u]}] + s[Highest[u]]
    BY <2>2, <2>3
  <2> QED
    BY <1>3, <2>4
<1>6. g = [u \in SUBSET D |-> IF u = {} THEN 0 ELSE g[u \ {Test!Max(u)}] + s[Test!Max(u)]]
  <2>1. g = [u \in SUBSET D |-> IF u = {} THEN 0 ELSE s[Highest[u]] + g[u \ {Highest[u]}]]
    BY <1>4 DEF Sums
  <2>2. \A u \in SUBSET D :
          (IF u = {} THEN 0 ELSE s[Highest[u]] + g[u \ {Highest[u]}])
            = IF u = {} THEN 0 ELSE g[u \ {Test!Max(u)}] + s[Test!Max(u)]
    BY <1>5
  <2> QED
    BY <2>1, <2>2
<1>7. iter = [u \in SUBSET D |-> IF u = {} THEN 0 ELSE iter[u \ {Test!Max(u)}] + s[Test!Max(u)]]
  BY <1>6
<1> HIDE DEF iter
<1>8. \A u \in SUBSET D : iter[u] = g[u]
  <2> DEFINE Bad == {u \in SUBSET D : iter[u] # g[u]}
  <2> SUFFICES ASSUME Bad # {} PROVE FALSE
    OBVIOUS
  <2>1. PICK u \in Bad : \A w \in Bad : w \subseteq u => w = u
    <3>1. Bad \in SUBSET (SUBSET D)
      OBVIOUS
    <3> HIDE DEF Bad
    <3> QED
      BY <1>2, <3>1, Smallest
  <2>2. /\ u \in SUBSET D /\ iter[u] # g[u]
        /\ \A w \in SUBSET D : w \subseteq u /\ w # u => iter[w] = g[w]
    BY <2>1
  <2>3. u \in SUBSET D
    BY <2>1
  <2> HIDE DEF Bad
  <2> DEFINE rest == u \ {Test!Max(u)}
             Body(h, x) == IF x = {} THEN 0 ELSE h[x \ {Test!Max(x)}] + s[Test!Max(x)]
  <2>4. iter[u] = Body(iter, u) /\ g[u] = Body(g, u)
    <3> HIDE DEF Body
    <3>1. iter = [x \in SUBSET D |-> Body(iter, x)] /\ g = [x \in SUBSET D |-> Body(g, x)]
      BY <1>6, <1>7 DEF Body
    <3> QED
      BY <2>3, <3>1
  <2>5. CASE u = {}
    BY <2>2, <2>4, <2>5
  <2>6. CASE u # {}
    <3>1. rest \in SUBSET D /\ rest # u
      <4>1. Highest[u] \in u
        BY <1>2, <2>3, <2>6 DEF Picks
      <4> QED
        BY <1>3, <2>3, <4>1
    <3>2. rest \subseteq u
      OBVIOUS
    <3>3. iter[rest] = g[rest]
      <4> HIDE DEF rest
      <4> QED
        BY <2>2, <3>1, <3>2, Zenon
    <3> QED
      BY <2>2, <2>4, <2>6, <3>3
  <2> QED
    BY <2>5, <2>6
<1>9. iter[D] = g[D]
  BY <1>8
<1> QED
  BY <1>1, <1>4, <1>9 DEF D

(* The sum of nothing, a sum of integers, and one more to add.             *)
LEMMA SumEmpty == Test!Sum(<<>>) = 0
<1> DEFINE s == <<>>
<1>0. s \in Seq(Int)
  OBVIOUS
<1>1. PICK g : Sums(1 .. Len(s), Highest, s, g) /\ Test!Sum(s) = g[1 .. Len(s)]
  <2> HIDE DEF s
  <2> QED
    BY <1>0, SumIs
<1>2. 1 .. Len(<<>>) = {}
  OBVIOUS
<1>3. g[{}] = 0
  BY <1>1, SumsEmpty
<1> QED
  BY <1>1, <1>2, <1>3

LEMMA SumInt == \A s \in Seq(Int) : Test!Sum(s) \in Int
<1> SUFFICES ASSUME NEW s \in Seq(Int) PROVE Test!Sum(s) \in Int
  OBVIOUS
<1> DEFINE D == 1 .. Len(s)
<1>1. PICK g : Sums(D, Highest, s, g) /\ Test!Sum(s) = g[D]
  BY SumIs
<1>2. Len(s) \in Nat /\ Ints(D, s)
  BY DEF Ints
<1>3. IsFiniteSet(D) /\ Picks(D, Highest) /\ D \in SUBSET D
  BY <1>2, FS_Interval, HighestPicks
<1> HIDE DEF D
<1> QED
  BY <1>1, <1>2, <1>3, SumsInt

LEMMA SumAppend ==
  ASSUME NEW s \in Seq(Int), NEW e \in Int
  PROVE  Test!Sum(Append(s, e)) = Test!Sum(s) + e
<1> DEFINE n == Len(s)
           t == Append(s, e)
           D == 1 .. n
           E == 1 .. n + 1
<1>1. /\ t \in Seq(Int) /\ Len(t) = n + 1 /\ n \in Nat
      /\ t[n + 1] = e /\ \A i \in D : t[i] = s[i]
  OBVIOUS
<1> HIDE DEF t
<1>2. PICK g : Sums(E, Highest, t, g) /\ Test!Sum(t) = g[E]
  BY <1>1, SumIs
<1>3. PICK h : Sums(D, Highest, s, h) /\ Test!Sum(s) = h[D]
  BY SumIs
<1> HIDE DEF n
<1>4. /\ IsFiniteSet(E) /\ Picks(E, Highest) /\ Picks(D, Highest) /\ Highest[E] = n + 1
      /\ E \ {n + 1} = D /\ D \in SUBSET E /\ E \in SUBSET E /\ E # {}
  <2>1. n + 1 \in Nat \ {0}
    BY <1>1
  <2>2. IsFiniteSet(E)
    BY <2>1, FS_Interval
  <2>3. Picks(E, Highest) /\ Picks(D, Highest)
    BY <1>1, <2>1, HighestPicks
  <2>4. Highest[E] = n + 1
    BY <2>1, HighestOfAll
  <2>5. E \ {n + 1} = D /\ D \in SUBSET E /\ E \in SUBSET E /\ n + 1 \in E
    BY <1>1
  <2> QED
    BY <2>2, <2>3, <2>4, <2>5
<1>5. D \in SUBSET (E \cap D) /\ \A i \in E \cap D : t[i] = s[i]
  BY <1>1, <1>4
<1> HIDE DEF D, E
<1>6. g[E] = t[n + 1] + g[D]
  <2>1. /\ Sums(E, Highest, t, g) /\ Picks(E, Highest) /\ E \in SUBSET E /\ E # {}
    BY <1>2, <1>4
  <2> HIDE <2>1
  <2>2. ASSUME NEW u, NEW n1, Sums(n1, Highest, t, u), Picks(n1, Highest), n1 \in SUBSET n1, n1 # {}
        PROVE  u[n1] = t[Highest[n1]] + u[n1 \ {Highest[n1]}]
    BY <2>2, SumsRec
  <2> QED
    BY ZenonT(30), <1>4, <2>1, <2>2
<1>7. g[D] = h[D]
  BY <1>2, <1>3, <1>4, <1>5, SumsUnique
<1>8. h[D] \in Int
  BY <1>3, SumInt
<1> QED
  BY <1>1, <1>2, <1>3, <1>6, <1>7, <1>8 DEF t
-----------------------------------------------------------------------------
(* The run of a backtest.                                                  *)

\* What is held, the trades, and their results.
Held == [quantity : Int, price : Int, bar : Int]
Trades == [entry : Int, exit : Int, pnl : Int]
PnlsOf(ts) == [n \in 1 .. Len(ts) |-> ts[n].pnl]

TestTypes ==
  /\ initial \in Int /\ capital \in Int /\ close \in Int /\ done \in BOOLEAN
  /\ position \in Held /\ trades \in Seq(Trades) /\ equity \in Seq(Int)

\* The cash, with what the open position cost, is what there was and what the
\* trades made of it; once completed, the last figure of the curve is.
Conserved ==
  IF done THEN equity # <<>> /\ equity[Len(equity)] = initial + Test!Sum(PnlsOf(trades))
  ELSE capital + position.quantity * position.price
         + Test!Charges(position.price * position.quantity, "BUY")
       = initial + Test!Sum(PnlsOf(trades))

\* The curve ends with the cash and the open position at the last close.
Marked == equity # <<>> => equity[Len(equity)] = capital + position.quantity * close

\* Trades end on bars there have been, and nothing is bought while something is
\* held.
Orderly ==
  /\ \A t \in 1 .. Len(trades) : trades[t].exit \in 1 .. Len(equity)
  /\ pending = "ENTER" => position.quantity = 0

TestInv == TestTypes /\ Conserved /\ Marked /\ Orderly

(* Costs are integers, and nothing traded costs nothing.                   *)
LEMMA CostsInt ==
  ASSUME LawfulTest
  PROVE  /\ \A x \in Int, side \in {"BUY", "SELL"} :
              Test!Charges(x, side) \in Int /\ Test!FillPrice(x, side) \in Int
         /\ Test!Charges(0, "BUY") = 0
<1>1. ASSUME NEW x \in Int, NEW side \in {"BUY", "SELL"}
      PROVE  Test!Charges(x, side) \in Int /\ Test!FillPrice(x, side) \in Int
  <2>1. x \div 10 \in Int /\ x \div 20 \in Int
    OBVIOUS
  <2> QED
    BY <2>1 DEF LawfulTest, Test!Charges, Test!FillPrice, Test!Least
<1>2. 0 \div 10 = 0 /\ 0 \div 20 = 0
  OBVIOUS
<1> QED
  BY <1>1, <1>2 DEF LawfulTest, Test!Charges, Test!Least

(* The results of the trades, and of one more.                             *)
LEMMA PnlsInt == \A ts \in Seq(Trades) : PnlsOf(ts) \in Seq(Int) /\ Test!Sum(PnlsOf(ts)) \in Int
<1> SUFFICES ASSUME NEW ts \in Seq(Trades)
             PROVE  PnlsOf(ts) \in Seq(Int) /\ Test!Sum(PnlsOf(ts)) \in Int
  OBVIOUS
<1>1. Len(ts) \in Nat /\ \A n \in 1 .. Len(ts) : ts[n].pnl \in Int
  <2>1. \A t \in Trades : t.pnl \in Int
    BY DEF Trades
  <2> QED
    BY <2>1
<1>2. PnlsOf(ts) \in Seq(Int)
  BY <1>1 DEF PnlsOf
<1> QED
  BY <1>2, SumInt

LEMMA OneMoreTrade ==
  ASSUME NEW ts \in Seq(Trades), NEW t \in Trades
  PROVE  Test!Sum(PnlsOf(Append(ts, t))) = Test!Sum(PnlsOf(ts)) + t.pnl
<1>1. PnlsOf(ts) \in Seq(Int) /\ t.pnl \in Int
  BY PnlsInt DEF Trades
<1>2. PnlsOf(Append(ts, t)) = Append(PnlsOf(ts), t.pnl)
  <2> DEFINE us == Append(ts, t)
  <2>1. Len(us) = Len(ts) + 1 /\ Len(ts) \in Nat /\ us[Len(ts) + 1] = t
        /\ \A n \in 1 .. Len(ts) : us[n] = ts[n]
    OBVIOUS
  <2> HIDE DEF us
  <2>2. PnlsOf(us) = [n \in 1 .. Len(ts) + 1 |-> us[n].pnl]
    BY <2>1 DEF PnlsOf
  <2>3. Len(PnlsOf(ts)) = Len(ts) /\ \A n \in 1 .. Len(ts) : PnlsOf(ts)[n] = ts[n].pnl
    BY <2>1 DEF PnlsOf
  <2>4. PnlsOf(us) \in Seq(Int) /\ Len(PnlsOf(us)) = Len(ts) + 1
    <3>1. us \in Seq(Trades)
      BY DEF us
    <3>2. PnlsOf(us) \in Seq(Int)
      BY <3>1, PnlsInt
    <3> QED
      BY <2>1, <2>2, <3>2
  <2>5. \A n \in 1 .. Len(ts) + 1 : PnlsOf(us)[n] = Append(PnlsOf(ts), t.pnl)[n]
    BY <1>1, <2>1, <2>2, <2>3
  <2>6. Len(Append(PnlsOf(ts), t.pnl)) = Len(ts) + 1 /\ Append(PnlsOf(ts), t.pnl) \in Seq(Int)
    BY <1>1, <2>3
  <2> QED
    BY <2>4, <2>5, <2>6, SeqEqual DEF us
<1> QED
  BY <1>1, <1>2, SumAppend

(* What the sale of the open position leaves is what the trade claims.     *)
LEMMA Sold ==
  ASSUME LawfulTest, TestInv, ~done, NEW price \in Int, NEW bar \in Int
  PROVE  /\ Test!Trade(bar, price) \in Trades /\ Test!Trade(bar, price).exit = bar
         /\ capital + Test!Proceeds(price) \in Int
         /\ capital + Test!Proceeds(price)
              = initial + Test!Sum(PnlsOf(Append(trades, Test!Trade(bar, price))))
<1> DEFINE q == position.quantity
           p == position.price
           out == Test!Charges(price * q, "SELL")
           in == Test!Charges(p * q, "BUY")
           sum == Test!Sum(PnlsOf(trades))
<1>1. /\ q \in Int /\ p \in Int /\ position.bar \in Int /\ capital \in Int /\ initial \in Int
  BY DEF TestInv, TestTypes, Held
<1>2. /\ price * q \in Int /\ p * q \in Int /\ q * p = p * q
      /\ (price - p) * q = price * q - p * q
  BY <1>1
<1>3. out \in Int /\ in \in Int
  BY <1>2, CostsInt
<1>4. trades \in Seq(Trades) /\ sum \in Int
  BY PnlsInt DEF TestInv, TestTypes
<1>5. capital + q * p + in = initial + sum
  BY DEF TestInv, Conserved
<1>6. /\ Test!Trade(bar, price) = [entry |-> position.bar, exit |-> bar,
                               pnl |-> (price - p) * q - out - in]
      /\ Test!Proceeds(price) = price * q - out
  BY DEF Test!Trade, Test!Proceeds
<1> HIDE DEF q, p, out, in, sum
<1>7. /\ Test!Trade(bar, price) \in Trades /\ Test!Trade(bar, price).exit = bar
      /\ Test!Trade(bar, price).pnl = (price - p) * q - out - in
  <2>1. (price - p) * q - out - in \in Int
    BY <1>1, <1>2, <1>3
  <2> QED
    BY <1>1, <1>6, <2>1 DEF Trades
<1>8. Test!Sum(PnlsOf(Append(trades, Test!Trade(bar, price)))) = sum + Test!Trade(bar, price).pnl
  BY <1>4, <1>7, OneMoreTrade DEF sum
<1>9. capital + (price * q - out) = initial + (sum + (price * q - p * q - out - in))
  BY <1>1, <1>2, <1>3, <1>4, <1>5
<1> QED
  BY <1>1, <1>2, <1>3, <1>6, <1>7, <1>8, <1>9

(* It starts with the capital and nothing else.                            *)
LEMMA InitTest == LawfulTest /\ Test!Init => TestInv
<1> SUFFICES ASSUME LawfulTest, Test!Init PROVE TestInv
  OBVIOUS
<1>1. TestTypes
  <2>1. Test!NoPosition \in Held
    BY DEF Test!NoPosition, Held
  <2>2. trades \in Seq(Trades) /\ equity \in Seq(Int)
    BY EmptySeq DEF Test!Init
  <2>3. initial \in Int /\ capital \in Int
    BY DEF LawfulTest, Test!Init
  <2>4. position \in Held /\ close \in Int
    BY <2>1 DEF Test!Init
  <2>5. done \in BOOLEAN
    BY DEF Test!Init
  <2> QED
    BY <2>2, <2>3, <2>4, <2>5 DEF TestTypes
<1>2. Test!Sum(PnlsOf(trades)) = 0
  <2>1. PnlsOf(<<>>) = <<>>
    BY DEF PnlsOf
  <2> QED
    BY <2>1, SumEmpty DEF Test!Init
<1>3. Conserved
  BY <1>1, <1>2, CostsInt DEF Test!Init, Conserved, Test!NoPosition, TestTypes
<1> QED
  BY <1>1, <1>3 DEF Test!Init, TestInv, Marked, Orderly, Test!NoPosition

(* The orders of the bar before are executed at this one's open.           *)
LEMMA Executed ==
  ASSUME LawfulTest, TestInv, ~done, NEW bar \in Int, NEW open \in Int, Test!Execute(bar, open)
  PROVE  /\ capital' \in Int /\ position' \in Held /\ trades' \in Seq(Trades)
         /\ capital' + position'.quantity * position'.price
              + Test!Charges(position'.price * position'.quantity, "BUY")
            = initial + Test!Sum(PnlsOf(trades'))
         /\ trades' = trades
            \/ \E t \in Trades : trades' = Append(trades, t) /\ t.exit = bar
<1> DEFINE buy == Test!FillPrice(open, "BUY")
           sell == Test!FillPrice(open, "SELL")
           cost == buy * BuyQuantity + Test!Charges(buy * BuyQuantity, "BUY")
<1>1. /\ position \in Held /\ trades \in Seq(Trades) /\ capital \in Int /\ initial \in Int
      /\ Test!Sum(PnlsOf(trades)) \in Int
      /\ capital + position.quantity * position.price
           + Test!Charges(position.price * position.quantity, "BUY")
         = initial + Test!Sum(PnlsOf(trades))
  BY PnlsInt DEF TestInv, TestTypes, Conserved
<1>2. /\ buy \in Int /\ sell \in Int
      /\ BuyQuantity \in Int /\ BuyQuantity * buy = buy * BuyQuantity /\ buy * BuyQuantity \in Int
  BY CostsInt DEF LawfulTest
<1>3. Test!Charges(buy * BuyQuantity, "BUY") \in Int /\ Test!Charges(0, "BUY") = 0
  BY <1>2, CostsInt
<1>4. CASE /\ pending = "ENTER" /\ capital' = capital - cost /\ trades' = trades
           /\ position' = [quantity |-> BuyQuantity, price |-> buy, bar |-> bar]
  <2>1. position.quantity = 0
    BY <1>4 DEF TestInv, Orderly
  <2>2. capital = initial + Test!Sum(PnlsOf(trades))
    <3>1. position.price \in Int
      BY <1>1 DEF Held
    <3>2. 0 * position.price = 0 /\ position.price * 0 = 0
      BY <3>1
    <3> QED
      BY <1>1, <1>3, <2>1, <3>2
  <2>3. position'.quantity = BuyQuantity /\ position'.price = buy /\ position' \in Held
    BY <1>2, <1>4 DEF Held
  <2> HIDE DEF buy
  <2>4. capital' + BuyQuantity * buy + Test!Charges(buy * BuyQuantity, "BUY") = capital
    BY SMTT(30), <1>1, <1>2, <1>3, <1>4
  <2>5. capital' \in Int
    BY <1>1, <1>2, <1>3, <1>4
  <2> QED
    BY <1>1, <1>4, <2>2, <2>3, <2>4, <2>5
<1>5. CASE /\ capital' = capital + Test!Proceeds(sell) /\ position' = Test!NoPosition
           /\ trades' = Append(trades, Test!Trade(bar, sell))
  <2>1. /\ Test!Trade(bar, sell) \in Trades /\ Test!Trade(bar, sell).exit = bar
        /\ capital' \in Int /\ capital' = initial + Test!Sum(PnlsOf(trades'))
    BY <1>2, <1>5, Sold
  <2>2. position'.quantity = 0 /\ position'.price = 0 /\ position' \in Held
    BY <1>5 DEF Test!NoPosition, Held
  <2>3. trades' \in Seq(Trades)
    BY <1>1, <1>5, <2>1
  <2> QED
    BY <1>3, <1>5, <2>1, <2>2, <2>3
<1>6. CASE UNCHANGED <<capital, position, trades>>
  BY <1>1, <1>6
<1> QED
  BY <1>4, <1>5, <1>6 DEF Test!Execute

(* Every bar and the end of the run keep the invariant.                    *)
LEMMA StepTest ==
  ASSUME LawfulTest, TestInv, [Test!Next]_Test!vars
  PROVE  TestInv'
<1>1. ASSUME NEW open \in TestPrice, NEW price \in TestPrice, Test!Bar(open, price) PROVE TestInv'
  <2> DEFINE n == Len(equity)
             worth == capital' + position'.quantity * price
  <2>1. /\ ~done /\ Test!Execute(n + 1, open) /\ close' = price
        /\ pending' \in Test!Signals(position', price) /\ equity' = Append(equity, worth)
        /\ initial' = initial /\ done' = done
    BY <1>1 DEF Test!Bar
  <2>2. /\ n \in Nat /\ n + 1 \in Int /\ open \in Int /\ price \in Int /\ equity \in Seq(Int)
        /\ initial \in Int /\ trades \in Seq(Trades)
    BY DEF TestInv, TestTypes, LawfulTest
  <2>3. /\ capital' \in Int /\ position' \in Held /\ trades' \in Seq(Trades)
        /\ capital' + position'.quantity * position'.price
             + Test!Charges(position'.price * position'.quantity, "BUY")
           = initial + Test!Sum(PnlsOf(trades'))
        /\ trades' = trades
           \/ \E t \in Trades : trades' = Append(trades, t) /\ t.exit = n + 1
    BY <2>1, <2>2, Executed
  <2>4. worth \in Int
    BY <2>2, <2>3 DEF Held
  <2> HIDE DEF worth
  <2>5. /\ equity' \in Seq(Int) /\ Len(equity') = n + 1 /\ equity'[n + 1] = worth
    BY <2>1, <2>2, <2>4
  <2>6. TestTypes'
    BY <2>1, <2>2, <2>3, <2>5 DEF TestInv, TestTypes
  <2>7. Conserved'
    BY <2>1, <2>3 DEF Conserved
  <2>8. Marked'
    BY <2>1, <2>5 DEF Marked, worth
  <2>9. Orderly'
    <3>1. pending' = "ENTER" => position'.quantity = 0
      BY <2>1 DEF Test!Signals
    <3>2. \A t \in 1 .. Len(trades') : trades'[t].exit \in 1 .. n + 1
      <4>1. \A t \in 1 .. Len(trades) : trades[t].exit \in 1 .. n
        BY DEF TestInv, Orderly
      <4> HIDE DEF n
      <4>2. CASE trades' = trades
        BY <2>2, <4>1, <4>2
      <4>3. CASE \E t \in Trades : trades' = Append(trades, t) /\ t.exit = n + 1
        <5>1. PICK t \in Trades : trades' = Append(trades, t) /\ t.exit = n + 1
          BY <4>3
        <5>2. Len(trades') = Len(trades) + 1 /\ trades'[Len(trades) + 1] = t
              /\ Len(trades) \in Nat
              /\ \A m \in 1 .. Len(trades) : trades'[m] = trades[m]
          BY <2>2, <5>1
        <5> QED
          BY <2>2, <4>1, <5>1, <5>2
      <4> QED
        BY <2>3, <4>2, <4>3
    <3> QED
      BY <2>5, <3>1, <3>2 DEF Orderly
  <2> QED
    BY <2>6, <2>7, <2>8, <2>9 DEF TestInv
<1>2. CASE Test!Finish
  <2> DEFINE n == Len(equity)
             sell == Test!FillPrice(close, "SELL")
  <2>1. ~done /\ equity # <<>> /\ done' = TRUE /\ UNCHANGED <<initial, pending, close>>
    BY <1>2 DEF Test!Finish
  <2>2. /\ n \in Nat \ {0} /\ n \in Int /\ sell \in Int /\ equity \in Seq(Int)
        /\ trades \in Seq(Trades) /\ capital \in Int /\ close \in Int /\ initial \in Int
        /\ position \in Held
    <3>1. /\ equity \in Seq(Int) /\ trades \in Seq(Trades) /\ capital \in Int /\ close \in Int
          /\ initial \in Int /\ position \in Held
      BY DEF TestInv, TestTypes
    <3>2. n \in Nat \ {0}
      BY <2>1, <3>1
    <3>3. sell \in Int
      BY <3>1, CostsInt
    <3> QED
      BY <3>1, <3>2, <3>3
  <2>3. CASE position.quantity = 0
    <3>1. UNCHANGED <<capital, position, trades, equity>>
      BY <1>2, <2>3 DEF Test!Finish
    <3>2. equity[n] = capital
      <4>1. 0 * close = 0
        BY <2>2
      <4> QED
        BY <2>1, <2>2, <2>3, <4>1 DEF TestInv, Marked
    <3>3. capital = initial + Test!Sum(PnlsOf(trades))
      <4>1. position.price \in Int /\ Test!Sum(PnlsOf(trades)) \in Int
        BY <2>2, PnlsInt DEF Held
      <4>2. 0 * position.price = 0 /\ position.price * 0 = 0
        BY <4>1
      <4>3. capital + position.quantity * position.price
              + Test!Charges(position.price * position.quantity, "BUY")
            = initial + Test!Sum(PnlsOf(trades))
        BY <2>1 DEF TestInv, Conserved
      <4>4. capital + 0 + Test!Charges(0, "BUY") = initial + Test!Sum(PnlsOf(trades))
        BY <2>3, <4>2, <4>3
      <4>5. Test!Charges(0, "BUY") = 0
        BY CostsInt
      <4> QED
        BY <2>2, <4>4, <4>5
    <3> QED
      BY <2>1, <2>2, <3>1, <3>2, <3>3 DEF TestInv, TestTypes, Conserved, Marked, Orderly
  <2>4. CASE position.quantity # 0
    <3>1. /\ capital' = capital + Test!Proceeds(sell) /\ position' = Test!NoPosition
          /\ trades' = Append(trades, Test!Trade(n, sell))
          /\ equity' = Append(Test!Front(equity), capital')
      BY <1>2, <2>4 DEF Test!Finish
    <3>2. /\ Test!Trade(n, sell) \in Trades /\ Test!Trade(n, sell).exit = n /\ capital' \in Int
          /\ capital' = initial + Test!Sum(PnlsOf(trades'))
      BY <2>1, <2>2, <3>1, Sold
    <3>3. Test!Front(equity) \in Seq(Int) /\ Len(Test!Front(equity)) = n - 1
      <4>1. n - 1 \in Int /\ \A i \in 1 .. n - 1 : equity[i] \in Int
        BY <2>2
      <4>2. /\ SubSeq(equity, 1, n - 1) \in Seq(Int)
            /\ Len(SubSeq(equity, 1, n - 1)) = IF 1 <= n - 1 THEN (n - 1) - 1 + 1 ELSE 0
        BY <4>1, SubSeqProperties
      <4>3. Test!Front(equity) = SubSeq(equity, 1, n - 1)
        BY DEF Test!Front
      <4> HIDE DEF n
      <4>4. (IF 1 <= n - 1 THEN (n - 1) - 1 + 1 ELSE 0) = n - 1
        BY <2>2
      <4> QED
        BY <4>2, <4>3, <4>4
    <3>4. equity' \in Seq(Int) /\ Len(equity') = n /\ equity'[n] = capital'
      BY <2>2, <3>1, <3>2, <3>3
    <3>5. position' \in Held /\ position'.quantity = 0
      BY <3>1 DEF Test!NoPosition, Held
    <3>6. /\ trades' \in Seq(Trades) /\ Len(trades') = Len(trades) + 1 /\ Len(trades) \in Nat
          /\ trades'[Len(trades) + 1] = Test!Trade(n, sell)
          /\ \A m \in 1 .. Len(trades) : trades'[m] = trades[m]
      BY <2>2, <3>1, <3>2
    <3>7. TestTypes'
      BY <2>1, <2>2, <3>2, <3>4, <3>5, <3>6 DEF TestTypes
    <3>8. Conserved'
      <4>1. equity' # <<>>
        BY <2>2, <3>4
      <4> QED
        BY <2>1, <3>2, <3>4, <4>1 DEF Conserved
    <3>9. Marked'
      <4>1. 0 * close = 0
        BY <2>2
      <4> QED
        BY <2>1, <3>2, <3>4, <3>5, <4>1 DEF Marked
    <3>10. Orderly'
      <4>1. \A t \in 1 .. Len(trades) : trades[t].exit \in 1 .. n
        BY DEF TestInv, Orderly
      <4>2. n \in 1 .. n
        BY <2>2
      <4> HIDE DEF n, sell
      <4>3. \A t \in 1 .. Len(trades') : trades'[t].exit \in 1 .. n
        BY <3>2, <3>6, <4>1, <4>2
      <4> QED
        BY <3>4, <3>5, <4>3 DEF Orderly
    <3> QED
      BY <3>7, <3>8, <3>9, <3>10 DEF TestInv
  <2> QED
    BY <2>3, <2>4
<1>3. CASE UNCHANGED Test!vars
  BY <1>3 DEF Test!vars, TestInv, TestTypes, Conserved, Marked, Orderly
<1> QED
  BY <1>1, <1>2, <1>3 DEF Test!Next

\* The bars of period m, of so many of this size.
Period(m, size, last, length) ==
  (m - 1) * size + 1 .. IF m = last THEN length ELSE m * size

(* Each bar of the history is in one period of the report.                 *)
LEMMA OnePeriod ==
  ASSUME NEW size \in Nat, NEW last \in Nat \ {0}, NEW length \in Nat, NEW x \in 1 .. length
  PROVE  \E n \in 1 .. last : \A m \in 1 .. last :
           x \in Period(m, size, last, length) <=> m = n
<1> DEFINE Reached == {n \in 1 .. last : n = last \/ x <= n * size}
           Bars(m) == Period(m, size, last, length)
<1>1. PICK n \in Reached : \A m \in Reached : n <= m
  <2>1. last \in Reached /\ Reached \subseteq Nat
    OBVIOUS
  <2>2. IsWellFoundedOn(OpToRel(<, Nat), Nat)
    BY NatLessThanWellFounded
  <2> HIDE DEF Reached
  <2>3. PICK n \in Reached : \A m \in Reached : ~ (<<m, n>> \in OpToRel(<, Nat))
    BY <2>1, <2>2, WFMin
  <2>4. \A m \in Reached : ~ (m < n)
    BY <2>1, <2>3 DEF OpToRel
  <2> QED
    BY <2>1, <2>4
<1>2. n \in 1 .. last /\ (n = last \/ x <= n * size)
  OBVIOUS
<1>3. \A m \in 1 .. last : m < n => x > m * size
  BY <1>1
<1> HIDE DEF Reached
<1>4. x \in Bars(n)
  <2>1. x >= (n - 1) * size + 1
    <3>1. CASE n = 1
      <4>1. 0 * size = 0
        OBVIOUS
      <4> QED
        BY <3>1, <4>1
    <3>2. CASE n # 1
      <4>1. n - 1 \in 1 .. last /\ n - 1 < n
        BY <1>2, <3>2
      <4>2. x > (n - 1) * size
        BY <1>3, <4>1
      <4>3. (n - 1) * size \in Int
        BY <4>1
      <4> QED
        BY <4>2, <4>3
    <3> QED
      BY <3>1, <3>2
  <2>2. n \in Int /\ n * size \in Int /\ (n - 1) * size \in Int
    BY <1>2
  <2> QED
    BY <1>2, <2>1, <2>2 DEF Period
<1>5. ASSUME NEW i \in 1 .. last, NEW j \in 1 .. last, i < j, x \in Bars(i), x \in Bars(j)
      PROVE  FALSE
  <2>1. i * size \in Int /\ (j - 1) * size \in Int
    OBVIOUS
  <2>2. x <= i * size /\ x >= (j - 1) * size + 1
    BY <1>5, <2>1 DEF Period
  <2>3. (j - 1) * size = i * size + (j - 1 - i) * size
    OBVIOUS
  <2>4. (j - 1 - i) * size >= 0
    <3>1. \A a, b \in Nat : a * b >= 0
      OBVIOUS
    <3>2. j - 1 - i \in Nat
      BY <1>5
    <3> QED
      BY <3>1, <3>2
  <2>5. (j - 1 - i) * size \in Int
    OBVIOUS
  <2> QED
    BY <2>1, <2>2, <2>3, <2>4, <2>5
<1> HIDE DEF Bars
<1>6. \A m \in 1 .. last : x \in Bars(m) <=> m = n
  <2> SUFFICES ASSUME NEW m \in 1 .. last, x \in Bars(m), m # n PROVE FALSE
    BY <1>4
  <2>1. m < n \/ n < m
    BY <1>2
  <2> QED
    BY <1>2, <1>4, <1>5, <2>1
<1> QED
  BY <1>2, <1>6 DEF Bars

(* For any prices, capitals, costs and histories: the account gained what  *)
(* the trades claim, bar by bar and at the end, and each trade is counted  *)
(* in one period.                                                          *)
THEOREM AccountAddsUp ==
  Test!Spec => []MoneyConserved
<1>0. LawfulTest
  BY TestAssumption
<1>1. TestInv => MoneyConserved
  <2> SUFFICES ASSUME TestInv PROVE Test!MoneyConserved
    BY DEF MoneyConserved
  <2>1. Test!Pnls = PnlsOf(trades) /\ Test!Sum(PnlsOf(trades)) \in Int /\ initial \in Int
    BY PnlsInt DEF Test!Pnls, PnlsOf, TestInv, TestTypes
  <2>2. ~done => capital + position.quantity * position.price
                   + Test!Charges(position.price * position.quantity, "BUY") = initial + Test!Sum(Test!Pnls)
    BY <2>1 DEF TestInv, Conserved
  <2>3. done => Test!TotalPnl = Test!Sum(Test!Pnls)
    BY <2>1 DEF TestInv, Conserved, Test!TotalPnl, Test!Last
  <2>4. ASSUME NEW t \in 1 .. Len(trades)
        PROVE  \E n \in 1 .. Segments : \A m \in 1 .. Segments : t \in Test!TradesIn(m) <=> m = n
    <3>1. trades[t].exit \in 1 .. Len(equity) /\ Len(equity) \in Nat
      BY DEF TestInv, Orderly, TestTypes
    <3>2. Test!Size \in Nat /\ Segments \in Nat \ {0}
      BY <1>0, <3>1 DEF LawfulTest, Test!Size
    <3>3. \E n \in 1 .. Segments : \A m \in 1 .. Segments :
            trades[t].exit \in Period(m, Test!Size, Segments, Len(equity)) <=> m = n
      BY ZenonT(30), <3>1, <3>2, OnePeriod
    <3>4. \A m \in 1 .. Segments :
            t \in Test!TradesIn(m) <=> trades[t].exit \in Period(m, Test!Size, Segments, Len(equity))
      BY DEF Test!TradesIn, Test!PeriodOf, Period
    <3> QED
      BY <3>3, <3>4
  <2> QED
    BY <2>2, <2>3, <2>4 DEF Test!MoneyConserved
<1>2. TestInv /\ [Test!Next]_Test!vars => TestInv'
  BY <1>0, StepTest
<1>3. Test!Init => TestInv
  BY <1>0, InitTest
<1> QED
  BY <1>1, <1>2, <1>3, PTL DEF Test!Spec
=============================================================================
