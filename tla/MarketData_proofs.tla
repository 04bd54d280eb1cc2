------------------------- MODULE MarketData_proofs -------------------------
(***************************************************************************)
(* SignalsAreTrue and BacktestAgrees of Strategy, BarsAreTrue of           *)
(* BarBuilder, NoStaleQuote and RealPriceOrNone of Quotes, and             *)
(* InstrumentsAreTrue of Catalogue.  They share no state; MarketData has   *)
(* their parameters.                                                       *)
(***************************************************************************)
EXTENDS MarketData, FiniteSetTheorems, NaturalsInduction, WellFoundedInduction,
        SequenceTheorems, TLAPS

-----------------------------------------------------------------------------
(***************************************************************************)
(* The strategy language (Strategy), for definitions of any size and       *)
(* nesting and any bars.  The check of a definition, its evaluation and    *)
(* its meaning are recursions over its nodes, each looking at later nodes  *)
(* only: such a recursion has a solution (Recursion), so each is what its  *)
(* equation says.  That evaluation and meaning agree is an induction over  *)
(* the nodes, taken by the last node at which they would not.              *)
(***************************************************************************)
(* Some number of a set has none below it, or above it.                    *)
LEMMA LeastOf ==
  ASSUME NEW K \in SUBSET Nat, K # {}
  PROVE  \E k \in K : \A j \in K : k <= j
<1>1. IsWellFoundedOn(OpToRel(<, Nat), Nat)
  BY NatLessThanWellFounded
<1>2. PICK k \in K : \A j \in K : ~ (<<j, k>> \in OpToRel(<, Nat))
  BY <1>1, WFMin
<1>3. \A j \in K : ~ (j < k)
  BY <1>2 DEF OpToRel
<1> QED
  BY <1>3

LEMMA GreatestOf ==
  ASSUME NEW N \in Nat, NEW K \in SUBSET (1 .. N), K # {}
  PROVE  \E k \in K : \A j \in K : j <= k
<1> DEFINE L == {N - k : k \in K}
<1>1. L \in SUBSET Nat /\ L # {}
  <2>1. \A k \in K : N - k \in Nat
    OBVIOUS
  <2> QED
    BY <2>1
<1>2. PICK x \in L : \A y \in L : x <= y
  <2> HIDE DEF L
  <2> QED
    BY <1>1, LeastOf
<1>3. PICK k \in K : x = N - k
  OBVIOUS
<1>4. \A j \in K : N - j \in L /\ j \in Int /\ k \in Int
  OBVIOUS
<1>5. \A j \in K : N - k <= N - j
  BY <1>2, <1>3, <1>4
<1>6. \A j \in K : j <= k
  BY <1>4, <1>5
<1> QED
  BY <1>6

(* A recursion over the positions of a list, each looking at later ones    *)
(* only: G[n][f] is what it gives at n if f is what it gives elsewhere.    *)
Looks(N, V, G) ==
  \A n \in 1 .. N, f, g \in [1 .. N -> V] :
    (\A m \in n + 1 .. N : f[m] = g[m]) => G[n][f] = G[n][g]
Body(N, V, G) == G \in [1 .. N -> [[1 .. N -> V] -> V]]
Solved(N, V, G) == \E h \in [1 .. N -> V] : \A n \in 1 .. N : h[n] = G[n][h]
Solves(N, G, h, k) == \A n \in k + 1 .. N : h[n] = G[n][h]

LEMMA Recursion ==
  ASSUME NEW N \in Nat, NEW V, V # {}, NEW G, Body(N, V, G), Looks(N, V, G)
  PROVE  Solved(N, V, G)
<1>0. PICK v : v \in V
  OBVIOUS
<1> DEFINE K == {k \in 0 .. N : \E h \in [1 .. N -> V] : Solves(N, G, h, k)}
<1>1. N \in K
  <2> DEFINE h == [n \in 1 .. N |-> v]
  <2>1. h \in [1 .. N -> V]
    BY <1>0
  <2>2. N + 1 .. N = {}
    OBVIOUS
  <2>3. Solves(N, G, h, N)
    BY <2>2, Zenon DEF Solves
  <2> HIDE DEF h
  <2>4. N \in 0 .. N
    OBVIOUS
  <2> QED
    BY <2>1, <2>3, <2>4
<1>2. PICK k \in K : \A j \in K : k <= j
  <2>1. \A k \in K : k \in 0 .. N
    OBVIOUS
  <2> HIDE DEF K
  <2>2. K \in SUBSET Nat /\ K # {}
    BY <1>1, <2>1
  <2> QED
    BY <2>2, LeastOf
<1>3. k \in 0 .. N
  OBVIOUS
<1>4. PICK h \in [1 .. N -> V] : Solves(N, G, h, k)
  OBVIOUS
<1>5. ASSUME k # 0 PROVE FALSE
  <2> DEFINE h2 == [h EXCEPT ![k] = G[k][h]]
  <2>0. k \in 1 .. N /\ k - 1 \in 0 .. N
    BY <1>3, <1>5
  <2>01. G[k][h] \in V
    BY <2>0 DEF Body
  <2>1. h2 \in [1 .. N -> V] /\ h2[k] = G[k][h] /\ \A n \in 1 .. N : n # k => h2[n] = h[n]
    BY <2>0, <2>01
  <2> HIDE DEF h2
  <2>2. ASSUME NEW n \in k .. N PROVE h2[n] = G[n][h2]
    <3>1. n \in 1 .. N /\ \A m \in n + 1 .. N : m \in 1 .. N /\ m # k
      BY <2>0
    <3>2. \A m \in n + 1 .. N : h[m] = h2[m]
      BY <2>1, <3>1
    <3>3. G[n][h] = G[n][h2]
      BY <2>1, <3>1, <3>2 DEF Looks
    <3>4. CASE n = k
      BY <2>1, <3>3, <3>4
    <3>5. CASE n # k
      <4>1. n \in k + 1 .. N
        BY <1>3, <3>5
      <4> QED
        BY <1>4, <2>1, <3>1, <3>3, <3>5, <4>1 DEF Solves
    <3> QED
      BY <3>4, <3>5
  <2>3. Solves(N, G, h2, k - 1)
    <3>1. (k - 1) + 1 = k
      BY <1>3
    <3> QED
      BY <2>2, <3>1 DEF Solves
  <2>4. k - 1 \in K
    BY <2>0, <2>1, <2>3
  <2>5. k <= k - 1
    BY <1>2, <2>4
  <2> QED
    BY <1>3, <2>5
<1>6. \A n \in 1 .. N : h[n] = G[n][h]
  <2>1. 0 + 1 = 1
    OBVIOUS
  <2> QED
    BY <1>4, <1>5, <2>1 DEF Solves
<1> QED
  BY <1>6 DEF Solved

(* What the editor's check of the nodes, the evaluation and the meaning    *)
(* give, each by its equation.                                             *)
LEMMA PartsAreLater ==
  ASSUME NEW d, WellFormed(d), NEW n \in 1 .. Len(d.nodes)
  PROVE  /\ DOMAIN d.nodes[n].parts = 1 .. Len(d.nodes[n].parts) /\ Len(d.nodes[n].parts) \in Nat
         /\ \A i \in DOMAIN d.nodes[n].parts : d.nodes[n].parts[i] \in n + 1 .. Len(d.nodes)
         /\ \A m \in Language!ToSet(d.nodes[n].parts) : m \in n + 1 .. Len(d.nodes)
<1>1. d.nodes[n].parts \in Seq(n + 1 .. Len(d.nodes))
  BY DEF WellFormed
<1> QED
  BY <1>1 DEF Language!ToSet

LEMMA CheckNodeIs ==
  ASSUME NEW d, WellFormed(d)
  PROVE  \A n \in 1 .. Len(d.nodes) :
           Language!CheckNode(d)[n] = Language!ValidNode(d, d.nodes[n], Language!CheckNode(d))
<1> DEFINE N == Len(d.nodes)
           V == BOOLEAN
           Ok(f) == [n \in 1 .. N |-> Language!ValidNode(d, d.nodes[n], f)]
           G == [n \in 1 .. N |-> [f \in [1 .. N -> V] |-> Language!ValidNode(d, d.nodes[n], f)]]
<1>1. N \in Nat
  BY DEF WellFormed
<1>2. \A n \in 1 .. N : \A f : Language!ValidNode(d, d.nodes[n], f) \in BOOLEAN
  BY DEF Language!ValidNode
<1>3. Body(N, V, G) /\ V # {}
  BY <1>2 DEF Body
<1>4. Looks(N, V, G)
  <2> SUFFICES ASSUME NEW n \in 1 .. N, NEW f \in [1 .. N -> V], NEW g \in [1 .. N -> V],
                      \A m \in n + 1 .. N : f[m] = g[m]
               PROVE  G[n][f] = G[n][g]
    BY DEF Looks
  <2>1. \A m \in Language!ToSet(d.nodes[n].parts) : f[m] = g[m]
    BY PartsAreLater
  <2>2. Language!ValidNode(d, d.nodes[n], f) = Language!ValidNode(d, d.nodes[n], g)
    BY <2>1 DEF Language!ValidNode
  <2> QED
    BY <2>2
<1>5. PICK h \in [1 .. N -> V] : \A n \in 1 .. N : h[n] = G[n][h]
  <2> HIDE DEF G, N, V
  <2>1. Solved(N, V, G)
    BY <1>1, <1>3, <1>4, Recursion
  <2> QED
    BY <2>1 DEF Solved
<1>6. h = Ok(h)
  <2>1. \A n \in 1 .. N : h[n] = Language!ValidNode(d, d.nodes[n], h)
    BY <1>5
  <2>2. h = [n \in 1 .. N |-> h[n]]
    OBVIOUS
  <2> QED
    BY <2>1, <2>2
<1>7. Language!CheckNode(d) = CHOOSE f : f = Ok(f)
  BY DEF Language!CheckNode
<1> HIDE DEF Ok
<1>8. Language!CheckNode(d) = Ok(Language!CheckNode(d))
  BY <1>6, <1>7
<1>9. \A n \in 1 .. N : Ok(Language!CheckNode(d))[n] = Language!ValidNode(d, d.nodes[n], Language!CheckNode(d))
  BY DEF Ok
<1> QED
  BY <1>8, <1>9

Verdicts == {"true", "false"} \cup Language!Raised

(* The first result that differs is one, if there is any.                  *)
LEMMA FirstOtherIs ==
  ASSUME NEW k \in Nat, NEW results, DOMAIN results = 1 .. k, NEW value
  PROVE  /\ (\A i \in 1 .. k : results[i] = value) => Language!FirstOther(results, value) = value
         /\ (\E i \in 1 .. k : results[i] # value) =>
              \E i \in 1 .. k : results[i] # value /\ Language!FirstOther(results, value) = results[i]
<1> DEFINE others == {i \in 1 .. k : results[i] # value}
           first == CHOOSE i \in others : \A j \in others : i <= j
<1>1. Language!FirstOther(results, value) = IF others = {} THEN value ELSE results[first]
  BY DEF Language!FirstOther
<1>2. ASSUME others # {} PROVE first \in others
  <2>1. \A i \in others : i \in Nat
    OBVIOUS
  <2> HIDE DEF others
  <2>2. others \in SUBSET Nat
    BY <2>1
  <2>3. \E i \in others : \A j \in others : i <= j
    BY <1>2, <2>2, LeastOf
  <2> QED
    BY <2>3
<1>3. ASSUME NEW i \in 1 .. k, results[i] # value PROVE others # {}
  BY <1>3
<1>4. others # {} => first \in 1 .. k /\ results[first] # value
  BY <1>2
<1>5. (\A i \in 1 .. k : results[i] = value) => others = {}
  OBVIOUS
<1> HIDE DEF others, first
<1> QED
  BY <1>1, <1>3, <1>4, <1>5

LEMMA ConditionVerdict == \A leaf, row, prev : Language!EvaluateCondition(leaf, row, prev) \in Verdicts
<1> SUFFICES ASSUME NEW leaf, NEW row, NEW prev
             PROVE  Language!EvaluateCondition(leaf, row, prev) \in Verdicts
  OBVIOUS
<1>1. \A b : Language!Truth(b) \in Verdicts
  BY DEF Language!Truth, Verdicts
<1>2. "false" \in Verdicts /\ "true" \in Verdicts /\ "type" \in Verdicts /\ "invalid" \in Verdicts
  BY DEF Verdicts, Language!Raised
<1>3. \A a, b : Language!Compare(leaf, a, b) \in Verdicts
  BY <1>1, <1>2 DEF Language!Compare
<1>4. Language!Crosses(leaf, row, prev) \in Verdicts
  BY <1>1, <1>2 DEF Language!Crosses
<1> QED
  BY <1>2, <1>3, <1>4 DEF Language!EvaluateCondition

LEMMA EvaluateNodeIs ==
  ASSUME NEW d, WellFormed(d), NEW row, NEW prev
  PROVE  \A n \in 1 .. Len(d.nodes) :
           Language!EvaluateNode(d, row, prev)[n]
             = Language!NodeResult(d.nodes[n], Language!EvaluateNode(d, row, prev), row, prev)
<1> DEFINE N == Len(d.nodes)
           V == Verdicts
           Of(f) == [n \in 1 .. N |-> Language!NodeResult(d.nodes[n], f, row, prev)]
           G == [n \in 1 .. N |-> [f \in [1 .. N -> V] |-> Language!NodeResult(d.nodes[n], f, row, prev)]]
<1>1. N \in Nat
  BY DEF WellFormed
<1>2. ASSUME NEW n \in 1 .. N, NEW f \in [1 .. N -> V]
      PROVE  Language!NodeResult(d.nodes[n], f, row, prev) \in V
  <2> DEFINE node == d.nodes[n]
             parts == [i \in DOMAIN node.parts |-> f[node.parts[i]]]
             k == Len(node.parts)
             value == IF node.kind = "all" THEN "true" ELSE "false"
  <2>1. k \in Nat /\ DOMAIN node.parts = 1 .. k /\ \A i \in 1 .. k : node.parts[i] \in n + 1 .. N
    BY PartsAreLater
  <2>2. \A i \in 1 .. k : parts[i] \in V
    BY <1>1, <2>1
  <2>3. DOMAIN parts = 1 .. k
    BY <2>1
  <2>4. value \in V /\ "false" \in V /\ "invalid" \in V
    BY DEF Verdicts, Language!Raised
  <2>5. Language!NodeResult(node, f, row, prev)
          = IF node.kind = "leaf" THEN Language!EvaluateCondition(node, row, prev)
            ELSE IF node.kind \notin {"any", "all", "both"} THEN "invalid"
            ELSE IF parts = <<>> THEN "false"
            ELSE Language!FirstOther(parts, value)
    BY DEF Language!NodeResult
  <2> HIDE DEF node, parts, k, value, V
  <2>6. Language!FirstOther(parts, value) \in V
    BY <2>1, <2>2, <2>3, <2>4, FirstOtherIs
  <2>7. Language!EvaluateCondition(node, row, prev) \in V
    BY ConditionVerdict DEF V
  <2> QED
    BY <2>4, <2>5, <2>6, <2>7 DEF node
<1>3. Body(N, V, G) /\ V # {}
  <2>1. G \in [1 .. N -> [[1 .. N -> V] -> V]]
    BY <1>2
  <2>2. "true" \in V
    BY DEF Verdicts
  <2> QED
    BY <2>1, <2>2 DEF Body
<1>4. Looks(N, V, G)
  <2> SUFFICES ASSUME NEW n \in 1 .. N, NEW f \in [1 .. N -> V], NEW g \in [1 .. N -> V],
                      \A m \in n + 1 .. N : f[m] = g[m]
               PROVE  G[n][f] = G[n][g]
    BY DEF Looks
  <2> DEFINE Parts(x) == [i \in DOMAIN d.nodes[n].parts |-> x[d.nodes[n].parts[i]]]
  <2>1. \A i \in DOMAIN d.nodes[n].parts : f[d.nodes[n].parts[i]] = g[d.nodes[n].parts[i]]
    BY PartsAreLater
  <2>2. Parts(f) = Parts(g)
    BY <2>1
  <2>3. Language!NodeResult(d.nodes[n], f, row, prev) = Language!NodeResult(d.nodes[n], g, row, prev)
    BY <2>2 DEF Language!NodeResult
  <2> QED
    BY <2>3
<1>5. PICK h \in [1 .. N -> V] : \A n \in 1 .. N : h[n] = G[n][h]
  <2> HIDE DEF G, N, V
  <2>1. Solved(N, V, G)
    BY <1>1, <1>3, <1>4, Recursion
  <2> QED
    BY <2>1 DEF Solved
<1>6. h = Of(h)
  <2>1. \A n \in 1 .. N : h[n] = Language!NodeResult(d.nodes[n], h, row, prev)
    BY <1>5
  <2>2. h = [n \in 1 .. N |-> h[n]]
    OBVIOUS
  <2> QED
    BY <2>1, <2>2
<1>7. Language!EvaluateNode(d, row, prev) = CHOOSE f : f = Of(f)
  BY DEF Language!EvaluateNode
<1> HIDE DEF Of
<1>8. Language!EvaluateNode(d, row, prev) = Of(Language!EvaluateNode(d, row, prev))
  BY <1>6, <1>7
<1>9. \A n \in 1 .. N : Of(Language!EvaluateNode(d, row, prev))[n]
        = Language!NodeResult(d.nodes[n], Language!EvaluateNode(d, row, prev), row, prev)
  BY DEF Of
<1> QED
  BY <1>8, <1>9

LEMMA HoldsIs ==
  ASSUME NEW d, WellFormed(d), NEW bar, NEW before
  PROVE  \A n \in 1 .. Len(d.nodes) :
           Language!Holds(d, bar, before)[n]
             = Language!Meant(d, d.nodes[n], Language!Holds(d, bar, before), bar, before)
<1> DEFINE N == Len(d.nodes)
           V == BOOLEAN
           Of(f) == [n \in 1 .. N |-> Language!Meant(d, d.nodes[n], f, bar, before)]
           G == [n \in 1 .. N |-> [f \in [1 .. N -> V] |-> Language!Meant(d, d.nodes[n], f, bar, before)]]
<1>1. N \in Nat
  BY DEF WellFormed
<1>2. \A n \in 1 .. N : \A f : Language!Meant(d, d.nodes[n], f, bar, before) \in V
  BY DEF Language!Meant
<1>3. Body(N, V, G) /\ V # {}
  BY <1>2 DEF Body
<1>4. Looks(N, V, G)
  <2> SUFFICES ASSUME NEW n \in 1 .. N, NEW f \in [1 .. N -> V], NEW g \in [1 .. N -> V],
                      \A m \in n + 1 .. N : f[m] = g[m]
               PROVE  G[n][f] = G[n][g]
    BY DEF Looks
  <2>1. \A m \in Language!ToSet(d.nodes[n].parts) : f[m] = g[m]
    BY PartsAreLater
  <2>2. Language!Meant(d, d.nodes[n], f, bar, before) = Language!Meant(d, d.nodes[n], g, bar, before)
    BY <2>1 DEF Language!Meant
  <2> QED
    BY <2>2
<1>5. PICK h \in [1 .. N -> V] : \A n \in 1 .. N : h[n] = G[n][h]
  <2> HIDE DEF G, N, V
  <2>1. Solved(N, V, G)
    BY <1>1, <1>3, <1>4, Recursion
  <2> QED
    BY <2>1 DEF Solved
<1>6. h = Of(h)
  <2>1. \A n \in 1 .. N : h[n] = Language!Meant(d, d.nodes[n], h, bar, before)
    BY <1>5
  <2>2. h = [n \in 1 .. N |-> h[n]]
    OBVIOUS
  <2> QED
    BY <2>1, <2>2
<1>7. Language!Holds(d, bar, before) = CHOOSE f : f = Of(f)
  BY DEF Language!Holds
<1> HIDE DEF Of
<1>8. Language!Holds(d, bar, before) = Of(Language!Holds(d, bar, before))
  BY <1>6, <1>7
<1>9. \A n \in 1 .. N : Of(Language!Holds(d, bar, before))[n]
        = Language!Meant(d, d.nodes[n], Language!Holds(d, bar, before), bar, before)
  BY DEF Of
<1> QED
  BY <1>8, <1>9

(* What the rows hold of a complete definition is what its fields read,    *)
(* unless one is weighted by a volume the bars have not got.               *)
Weighted(d) == "VWAP" \in {d.indicators[n].type : n \in DOMAIN d.indicators}

LEMMA RowIsOverFields ==
  ASSUME NEW d, NEW bar
  PROVE  /\ DOMAIN Language!LiveRow(d, bar) = Language!FieldsOf(d)
         /\ Language!LiveRow(d, bar) # <<>>
<1>1. DOMAIN Language!LiveRow(d, bar) = Language!FieldsOf(d)
  BY DEF Language!LiveRow, Language!Calculated
<1>2. "close" \in Language!FieldsOf(d)
  BY DEF Language!FieldsOf, Language!Column
<1>3. DOMAIN <<>> = {}
  OBVIOUS
<1> QED
  BY <1>1, <1>2, <1>3

LEMMA RsiIs ==
  ASSUME NEW a \in Language!Average
  PROVE  Language!Rsi(a) = IF a.gain = Language!NaN THEN Language!NaN
                           ELSE IF a.gain + a.loss = 0 THEN 50
                           ELSE (100 * a.gain) \div (a.gain + a.loss)
<1>1. \/ a.gain = -1 /\ a.loss = -1
      \/ a.gain \in {0, 1} /\ a.loss \in {0, 1}
  BY DEF Language!Average, Language!NaN
<1>2. /\ 100 \div (1 + 0) = 100 /\ 100 \div (1 + 1) = 50
      /\ (100 * 0) \div (0 + 1) = 0 /\ (100 * 1) \div (1 + 0) = 100
      /\ (100 * 1) \div (1 + 1) = 50
  OBVIOUS
<1>3. CASE a.gain = -1 /\ a.loss = -1
  BY <1>3 DEF Language!Rsi, Language!NaN
<1>4. CASE a.gain = 0 /\ a.loss = 0
  BY <1>4 DEF Language!Rsi, Language!NaN
<1>5. CASE a.gain = 0 /\ a.loss = 1
  BY <1>2, <1>5 DEF Language!Rsi, Language!NaN
<1>6. CASE a.gain = 1 /\ a.loss = 0
  BY <1>2, <1>6 DEF Language!Rsi, Language!NaN
<1>7. CASE a.gain = 1 /\ a.loss = 1
  BY <1>2, <1>7 DEF Language!Rsi, Language!NaN
<1> QED
  BY <1>1, <1>3, <1>4, <1>5, <1>6, <1>7

LEMMA RowReads ==
  ASSUME NEW d, WellFormed(d), Language!IsComplete(d), ~ Weighted(d),
         NEW bar \in Language!BarOf(d), NEW f \in Language!FieldsOf(d)
  PROVE  Language!LiveRow(d, bar)[f] = Language!Reading(d, bar, f)
<1>1. Language!LiveRow(d, bar)[f] = Language!Calculated(d, bar)[f]
  BY DEF Language!LiveRow, Language!Calculated, Weighted
<1>2. bar.average \in Language!Average
  BY DEF Language!BarOf, Language!Average
<1>3. f # "number"
  BY DEF WellFormed
<1>4. "close" \notin DOMAIN d.indicators /\ "timestamp" \notin DOMAIN d.indicators
  BY DEF Language!IsComplete, Language!Column
<1>5. CASE f \in DOMAIN d.indicators /\ d.indicators[f].type = "RSI"
  <2>1. Language!Calculated(d, bar)[f] = Language!Rsi(bar.average)
    BY <1>5 DEF Language!Calculated
  <2>2. Language!Reading(d, bar, f)
          = IF bar.average.gain = Language!NaN THEN Language!NaN
            ELSE IF bar.average.gain + bar.average.loss = 0 THEN 50
            ELSE (100 * bar.average.gain) \div (bar.average.gain + bar.average.loss)
    BY <1>3, <1>4, <1>5 DEF Language!Reading
  <2> QED
    BY <1>1, <1>2, <2>1, <2>2, RsiIs, Zenon
<1>6. CASE ~ (f \in DOMAIN d.indicators /\ d.indicators[f].type = "RSI")
  <2>1. CASE f \in {"close", "timestamp"}
    BY <1>1, <1>3, <1>4, <2>1 DEF Language!Calculated, Language!Reading, Language!Column
  <2>2. CASE f \notin {"close", "timestamp"}
    BY <1>1, <1>3, <1>6, <2>2 DEF Language!Calculated, Language!Reading, Language!Column
  <2> QED
    BY <2>1, <2>2
<1> QED
  BY <1>5, <1>6

LEMMA OperandReads ==
  ASSUME NEW d, WellFormed(d), Language!IsComplete(d), ~ Weighted(d),
         NEW bar \in Language!BarOf(d),
         NEW value \in Language!FieldsOf(d) \cup {"number"}
  PROVE  Language!Operand(Language!LiveRow(d, bar), value) = Language!Reading(d, bar, value)
<1>1. CASE value = "number"
  BY <1>1 DEF Language!Operand, Language!Reading
<1>2. CASE value # "number"
  <2>1. value \in Language!FieldsOf(d)
    BY <1>2
  <2> QED
    BY <1>2, <2>1, RowReads DEF Language!Operand
<1> QED
  BY <1>1, <1>2

(* A condition the editor takes has a truth value, and it is the one that  *)
(* is meant.                                                               *)
LEMMA LeafIsTrue ==
  ASSUME NEW d, WellFormed(d), Language!IsComplete(d),
         NEW bar \in Language!BarOf(d), NEW before \in Language!BarOf(d),
         NEW leaf, Language!ValidLeaf(d, leaf), leaf.value # "nothing", Language!Ordered(leaf)
  PROVE  LET is == Language!EvaluateCondition(leaf, Language!LiveRow(d, bar),
                                              Language!LiveRow(d, before))
         IN  /\ is \in {"true", "false"}
             /\ ~ Weighted(d) => is = Language!Truth(Language!Means(d, leaf, bar, before))
<1> DEFINE row == Language!LiveRow(d, bar)
           prev == Language!LiveRow(d, before)
           is == Language!EvaluateCondition(leaf, row, prev)
           a == row[leaf.field]
           b == Language!Operand(row, leaf.value)
           c == prev[leaf.field]
           e == Language!Operand(prev, leaf.value)
           crossing == leaf.operator \in Language!CrossOperators
<1>1. /\ leaf.field \in DOMAIN row /\ leaf.value \in DOMAIN row \cup {"number"}
      /\ leaf.operator \in {"<", "!=", "crosses_above", "crosses_below"}
      /\ prev # <<>>
  BY RowIsOverFields DEF Language!ValidLeaf, Language!Comparisons, Language!CrossOperators
<1>2. is = IF a = Language!NaN \/ b = Language!NaN THEN "false"
           ELSE IF crossing THEN Language!Crosses(leaf, row, prev)
           ELSE Language!Compare(leaf, a, b)
  <2> HIDE DEF row, prev
  <2> QED
    BY <1>1 DEF Language!EvaluateCondition, Language!Comparisons, Language!CrossOperators
<1>3. Language!Compare(leaf, a, b)
        = IF leaf.operator = "!=" THEN Language!Truth(a # b) ELSE Language!Truth(a < b)
  <2> HIDE DEF row, prev, a, b
  <2> QED
    BY DEF Language!Compare, Language!Truth
<1>4. Language!Crosses(leaf, row, prev)
        = IF c = Language!NaN \/ e = Language!NaN THEN "false"
          ELSE IF leaf.operator = "crosses_above" THEN Language!Truth(c <= e /\ a > b)
          ELSE Language!Truth(c >= e /\ a < b)
  <2> HIDE DEF row, prev
  <2> QED
    BY <1>1 DEF Language!Crosses
<1>5. is \in {"true", "false"}
  <2> HIDE DEF row, prev, a, b, c, e, is, crossing
  <2> QED
    BY <1>2, <1>3, <1>4 DEF Language!Truth
<1>6. ASSUME ~ Weighted(d) PROVE is = Language!Truth(Language!Means(d, leaf, bar, before))
  <2>1. /\ a = Language!Reading(d, bar, leaf.field) /\ b = Language!Reading(d, bar, leaf.value)
        /\ c = Language!Reading(d, before, leaf.field) /\ e = Language!Reading(d, before, leaf.value)
    <3>1. leaf.field \in Language!FieldsOf(d) /\ leaf.value \in Language!FieldsOf(d) \cup {"number"}
      BY DEF Language!ValidLeaf
    <3> QED
      BY <1>6, <3>1, RowReads, OperandReads
  <2>2. Language!Means(d, leaf, bar, before)
          <=> /\ Language!NaN \notin {a, b}
              /\ crossing => Language!NaN \notin {c, e}
              /\ \/ leaf.operator = "<" /\ a < b
                 \/ leaf.operator = "!=" /\ a # b
                 \/ leaf.operator = "crosses_above" /\ c <= e /\ a > b
                 \/ leaf.operator = "crosses_below" /\ c >= e /\ a < b
    <3> HIDE DEF row, prev, a, b, c, e, is
    <3> QED
      BY <2>1 DEF Language!Means
  <2>3. crossing <=> leaf.operator \in {"crosses_above", "crosses_below"}
    BY DEF Language!CrossOperators
  <2> HIDE DEF row, prev, a, b, c, e, is, crossing
  <2>4. CASE leaf.operator = "<"
    BY <1>2, <1>3, <2>2, <2>3, <2>4 DEF Language!Truth
  <2>5. CASE leaf.operator = "!="
    BY <1>2, <1>3, <2>2, <2>3, <2>5 DEF Language!Truth
  <2>6. CASE leaf.operator = "crosses_above"
    BY <1>2, <1>4, <2>2, <2>3, <2>6 DEF Language!Truth
  <2>7. CASE leaf.operator = "crosses_below"
    BY <1>2, <1>4, <2>2, <2>3, <2>7 DEF Language!Truth
  <2> QED
    BY <1>1, <2>4, <2>5, <2>6, <2>7
<1> QED
  BY <1>5, <1>6

(* So has a node, whatever its nesting: the last one that had not would    *)
(* have parts that have.                                                   *)
Decided(d, holds, of, n) ==
  of[n] \in {"true", "false"} /\ (~ Weighted(d) => of[n] = Language!Truth(holds[n]))
AllOf(of, list) == Language!FirstOther([i \in DOMAIN list |-> of[list[i]]], "true")
AnyOf(of, list) == Language!FirstOther([i \in DOMAIN list |-> of[list[i]]], "false")
Every(holds, list) == Language!Truth(\A n \in Language!ToSet(list) : holds[n])
Some(holds, list) == Language!Truth(\E n \in Language!ToSet(list) : holds[n])

LEMMA AllDecided ==
  ASSUME NEW d, NEW holds, NEW of, NEW k \in Nat, NEW list, DOMAIN list = 1 .. k,
         \A i \in 1 .. k : Decided(d, holds, of, list[i])
  PROVE  /\ AllOf(of, list) \in {"true", "false"}
         /\ ~ Weighted(d) => AllOf(of, list) = Every(holds, list)
<1> DEFINE results == [i \in DOMAIN list |-> of[list[i]]]
           is == Language!FirstOther(results, "true")
<1>1. DOMAIN results = 1 .. k /\ \A i \in 1 .. k : results[i] = of[list[i]]
  OBVIOUS
<1>2. /\ (\A i \in 1 .. k : results[i] = "true") => is = "true"
      /\ (\E i \in 1 .. k : results[i] # "true") =>
           \E i \in 1 .. k : results[i] # "true" /\ is = results[i]
  <2> HIDE DEF results
  <2> QED
    BY <1>1, FirstOtherIs
<1>3. Language!ToSet(list) = {list[i] : i \in 1 .. k}
  BY DEF Language!ToSet
<1> DEFINE every == \A n \in Language!ToSet(list) : holds[n]
<1>6. \A i \in 1 .. k : of[list[i]] \in {"true", "false"}
                        /\ (~ Weighted(d) => (of[list[i]] = "true" <=> holds[list[i]]))
  BY DEF Decided, Language!Truth
<1>7. Language!Truth(every) = IF every THEN "true" ELSE "false"
  BY DEF Language!Truth
<1> HIDE DEF results, is
<1>4. ASSUME \A i \in 1 .. k : results[i] = "true"
      PROVE  is \in {"true", "false"} /\ (~ Weighted(d) => is = Language!Truth(every))
  <2>1. ~ Weighted(d) => every
    BY <1>1, <1>3, <1>4, <1>6
  <2> HIDE DEF every
  <2> QED
    BY <1>2, <1>4, <1>7, <2>1
<1>5. ASSUME \E i \in 1 .. k : results[i] # "true"
      PROVE  is \in {"true", "false"} /\ (~ Weighted(d) => is = Language!Truth(every))
  <2>1. PICK i \in 1 .. k : results[i] # "true" /\ is = results[i]
    BY <1>2, <1>5
  <2>2. is = "false" /\ (~ Weighted(d) => ~ holds[list[i]])
    BY <1>1, <1>6, <2>1
  <2>3. list[i] \in Language!ToSet(list)
    BY <1>3
  <2>4. ~ Weighted(d) => ~ every
    BY <2>2, <2>3
  <2> HIDE DEF every
  <2> QED
    BY <1>7, <2>2, <2>4
<1> QED
  BY <1>4, <1>5 DEF is, results, AllOf, Every

LEMMA AnyDecided ==
  ASSUME NEW d, NEW holds, NEW of, NEW k \in Nat, NEW list, DOMAIN list = 1 .. k,
         \A i \in 1 .. k : Decided(d, holds, of, list[i])
  PROVE  /\ AnyOf(of, list) \in {"true", "false"}
         /\ ~ Weighted(d) => AnyOf(of, list) = Some(holds, list)
<1> DEFINE results == [i \in DOMAIN list |-> of[list[i]]]
           is == Language!FirstOther(results, "false")
<1>1. DOMAIN results = 1 .. k /\ \A i \in 1 .. k : results[i] = of[list[i]]
  OBVIOUS
<1>2. /\ (\A i \in 1 .. k : results[i] = "false") => is = "false"
      /\ (\E i \in 1 .. k : results[i] # "false") =>
           \E i \in 1 .. k : results[i] # "false" /\ is = results[i]
  <2> HIDE DEF results
  <2> QED
    BY <1>1, FirstOtherIs
<1>3. Language!ToSet(list) = {list[i] : i \in 1 .. k}
  BY DEF Language!ToSet
<1> DEFINE some == \E n \in Language!ToSet(list) : holds[n]
<1>6. \A i \in 1 .. k : of[list[i]] \in {"true", "false"}
                        /\ (~ Weighted(d) => (of[list[i]] = "true" <=> holds[list[i]]))
  BY DEF Decided, Language!Truth
<1>7. Language!Truth(some) = IF some THEN "true" ELSE "false"
  BY DEF Language!Truth
<1> HIDE DEF results, is
<1>4. ASSUME \A i \in 1 .. k : results[i] = "false"
      PROVE  is \in {"true", "false"} /\ (~ Weighted(d) => is = Language!Truth(some))
  <2>1. ~ Weighted(d) => ~ some
    BY <1>1, <1>3, <1>4, <1>6
  <2> HIDE DEF some
  <2> QED
    BY <1>2, <1>4, <1>7, <2>1
<1>5. ASSUME \E i \in 1 .. k : results[i] # "false"
      PROVE  is \in {"true", "false"} /\ (~ Weighted(d) => is = Language!Truth(some))
  <2>1. PICK i \in 1 .. k : results[i] # "false" /\ is = results[i]
    BY <1>2, <1>5
  <2>2. is = "true" /\ (~ Weighted(d) => holds[list[i]])
    BY <1>1, <1>6, <2>1
  <2>3. list[i] \in Language!ToSet(list)
    BY <1>3
  <2>4. ~ Weighted(d) => some
    BY <2>2, <2>3
  <2> HIDE DEF some
  <2> QED
    BY <1>7, <2>2, <2>4
<1> QED
  BY <1>4, <1>5 DEF is, results, AnyOf, Some

LEMMA NodeIsTrue ==
  ASSUME NEW d, WellFormed(d), Language!IsComplete(d),
         NEW bar \in Language!BarOf(d), NEW before \in Language!BarOf(d)
  PROVE  \A n \in 1 .. Len(d.nodes) : Language!CheckNode(d)[n] =>
           Decided(d, Language!Holds(d, bar, before),
                   Language!EvaluateNode(d, Language!LiveRow(d, bar), Language!LiveRow(d, before)), n)
<1> DEFINE N == Len(d.nodes)
           row == Language!LiveRow(d, bar)
           prev == Language!LiveRow(d, before)
           of == Language!EvaluateNode(d, row, prev)
           holds == Language!Holds(d, bar, before)
           ok == Language!CheckNode(d)
           Stays(n) == ok[n] => Decided(d, holds, of, n)
           K == {n \in 1 .. N : ~ Stays(n)}
<1> SUFFICES ASSUME K # {} PROVE FALSE
  OBVIOUS
<1>1. PICK n \in K : \A j \in K : j <= n
  <2>1. N \in Nat /\ K \in SUBSET (1 .. N)
    BY DEF WellFormed
  <2> HIDE DEF K, N
  <2> QED
    BY <2>1, GreatestOf
<1>2. n \in 1 .. N /\ N \in Nat /\ ok[n] /\ ~ Decided(d, holds, of, n)
  BY DEF WellFormed
<1> DEFINE node == d.nodes[n]
           k == Len(node.parts)
<1>3. k \in Nat /\ DOMAIN node.parts = 1 .. k /\ \A i \in 1 .. k : node.parts[i] \in n + 1 .. N
  BY <1>2, PartsAreLater
<1>4. ASSUME NEW m \in n + 1 .. N, ok[m] PROVE Decided(d, holds, of, m)
  <2>1. m \in 1 .. N /\ ~ (m <= n)
    BY <1>2
  <2>2. m \notin K
    <3> HIDE DEF K
    <3> QED
      BY <1>1, <2>1
  <2> QED
    BY <1>4, <2>1, <2>2
<1>5. Language!ValidNode(d, node, ok)
  <2>1. ok[n] = Language!ValidNode(d, node, ok)
    BY <1>2, CheckNodeIs
  <2> QED
    BY <1>2, <2>1
<1>6. of[n] = Language!NodeResult(node, of, row, prev)
  BY <1>2, EvaluateNodeIs
<1>7. holds[n] = Language!Meant(d, node, holds, bar, before)
  BY <1>2, HoldsIs
<1>8. node \in Language!ToSet(d.nodes)
  BY <1>2 DEF WellFormed, Language!ToSet
<1> HIDE DEF row, prev, of, holds, ok, K
<1>9. CASE node.kind = "leaf"
  <2>1. Language!ValidLeaf(d, node)
    BY <1>5, <1>9 DEF Language!ValidNode
  <2>2. node.value # "nothing" /\ Language!Ordered(node)
    BY <1>8, <1>9 DEF Language!IsComplete, Language!Leaves
  <2>3. of[n] = Language!EvaluateCondition(node, row, prev)
    BY <1>6, <1>9 DEF Language!NodeResult
  <2>4. holds[n] <=> Language!Means(d, node, bar, before)
    BY <1>7, <1>9 DEF Language!Meant
  <2>5. /\ of[n] \in {"true", "false"}
        /\ ~ Weighted(d) => of[n] = Language!Truth(Language!Means(d, node, bar, before))
    <3> HIDE DEF node
    <3> QED
      BY <2>1, <2>2, <2>3, LeafIsTrue DEF row, prev
  <2>6. Language!Truth(holds[n]) = Language!Truth(Language!Means(d, node, bar, before))
    BY <2>4 DEF Language!Truth
  <2> QED
    BY <1>2, <2>5, <2>6 DEF Decided
<1>10. ASSUME node.kind \in {"any", "all"} PROVE FALSE
  <2> DEFINE list == node.parts
             parts == [i \in DOMAIN list |-> of[list[i]]]
  <2>1. list # <<>> /\ \A m \in Language!ToSet(list) : ok[m]
    BY <1>5, <1>10 DEF Language!ValidNode
  <2>2. parts # <<>>
    <3>1. DOMAIN <<>> = {} /\ DOMAIN parts = DOMAIN list
      OBVIOUS
    <3>2. DOMAIN list # {}
      <4>1. list \in Seq(n + 1 .. N)
        BY <1>2 DEF WellFormed
      <4>2. k # 0
        BY <2>1, <4>1
      <4> QED
        BY <1>3, <4>2
    <3> QED
      BY <3>1, <3>2
  <2>3. \A i \in 1 .. k : Decided(d, holds, of, list[i])
    <3> TAKE i \in 1 .. k
    <3>1. list[i] \in Language!ToSet(list)
      BY <1>3 DEF Language!ToSet
    <3> QED
      BY <1>3, <1>4, <2>1, <3>1
  <2>4. CASE node.kind = "all"
    <3>1. of[n] = AllOf(of, list)
      BY <1>6, <2>2, <2>4 DEF Language!NodeResult, AllOf
    <3>2. holds[n] <=> \A m \in Language!ToSet(list) : holds[m]
      BY <1>7, <2>4 DEF Language!Meant
    <3>3. /\ of[n] \in {"true", "false"}
          /\ ~ Weighted(d) => of[n] = Every(holds, list)
      <4>1. k \in Nat /\ DOMAIN list = 1 .. k
        BY <1>3
      <4> HIDE DEF list, k, N, node
      <4> QED
        BY <2>3, <3>1, <4>1, AllDecided
    <3>4. Language!Truth(holds[n]) = Every(holds, list)
      BY <3>2 DEF Language!Truth, Every
    <3> QED
      BY <1>2, <3>3, <3>4 DEF Decided
  <2>5. CASE node.kind = "any"
    <3>1. of[n] = AnyOf(of, list)
      BY <1>6, <2>2, <2>5 DEF Language!NodeResult, AnyOf
    <3>2. holds[n] <=> \E m \in Language!ToSet(list) : holds[m]
      BY <1>7, <2>5 DEF Language!Meant
    <3>3. /\ of[n] \in {"true", "false"}
          /\ ~ Weighted(d) => of[n] = Some(holds, list)
      <4>1. k \in Nat /\ DOMAIN list = 1 .. k
        BY <1>3
      <4> HIDE DEF list, k, N, node
      <4> QED
        BY <2>3, <3>1, <4>1, AnyDecided
    <3>4. Language!Truth(holds[n]) = Some(holds, list)
      BY <3>2 DEF Language!Truth, Some
    <3> QED
      BY <1>2, <3>3, <3>4 DEF Decided
  <2> QED
    BY <1>10, <2>4, <2>5
<1>11. node.kind \in {"leaf", "any", "all"}
  BY <1>5 DEF Language!ValidNode
<1> QED
  BY <1>9, <1>10, <1>11

LEMMA ListIsTrue ==
  ASSUME NEW d, WellFormed(d), Language!IsComplete(d),
         NEW bar \in Language!BarOf(d), NEW before \in Language!BarOf(d),
         NEW list \in Seq(1 .. Len(d.nodes)), list # <<>>,
         \A n \in Language!ToSet(list) : Language!CheckNode(d)[n]
  PROVE  LET is == Language!EvaluateAll(d, list, Language!LiveRow(d, bar), Language!LiveRow(d, before))
         IN  /\ is \in {"true", "false"}
             /\ ~ Weighted(d) =>
                  is = Language!Truth(\A n \in Language!ToSet(list) : Language!Holds(d, bar, before)[n])
<1> DEFINE row == Language!LiveRow(d, bar)
           prev == Language!LiveRow(d, before)
           of == Language!EvaluateNode(d, row, prev)
           holds == Language!Holds(d, bar, before)
           k == Len(list)
<1>1. k \in Nat /\ DOMAIN list = 1 .. k /\ \A i \in 1 .. k : list[i] \in 1 .. Len(d.nodes)
  OBVIOUS
<1>2. \A i \in 1 .. k : list[i] \in Language!ToSet(list)
  BY <1>1 DEF Language!ToSet
<1>3. \A i \in 1 .. k : Decided(d, holds, of, list[i])
  BY <1>1, <1>2, NodeIsTrue
<1>4. Language!EvaluateAll(d, list, row, prev) = AllOf(of, list)
  BY DEF Language!EvaluateAll, AllOf
<1> HIDE DEF row, prev, of, holds, k
<1>5. /\ AllOf(of, list) \in {"true", "false"}
      /\ ~ Weighted(d) => AllOf(of, list) = Every(holds, list)
  BY <1>1, <1>3, AllDecided
<1> QED
  BY <1>4, <1>5 DEF row, prev, holds, Every

(* A run reads a stored definition, and bars of it; nothing it has stored  *)
(* is missing a part.                                                      *)
StrategyInv ==
  /\ editor = "stored" => strategy \in Definition /\ Language!Valid(strategy)
  /\ live = [state |-> live.state, signal |-> live.signal]
  /\ backtest = [status |-> backtest.status, serving |-> backtest.serving, signal |-> backtest.signal]
  /\ live.state # "off" => editor = "stored"
  /\ bars.count \in Nat
  /\ live.state = "off" => bars.count = 0
  /\ bars.count >= 1 => bars.last \in Language!BarOf(strategy)

LEMMA StrategyStart == Language!Init => StrategyInv /\ Language!SignalsAreTrue /\ Language!BacktestAgrees
BY DEF Language!Init, Language!NoRun, Language!NoTest, Language!NoBar, StrategyInv,
       Language!SignalsAreTrue, Language!BacktestAgrees

LEMMA CompleteIsError ==
  ASSUME NEW d, Language!Valid(d), Language!IsComplete(d)
  PROVE  Language!IndicatorError(d) = "none"
BY DEF Language!Valid, Language!IsComplete, Language!IndicatorError

(* A bar keeps what the invariant says.                                    *)
LEMMA BarKeepsInv ==
  ASSUME StrategyInv, live.state # "off",
         NEW bar \in Language!BarOf(strategy), NEW held \in BOOLEAN, Language!Bar(bar, held)
  PROVE  StrategyInv'
<1>1. live' = [state |-> live'.state, signal |-> live'.signal] /\ live'.state # "off"
  BY DEF Language!Bar, Language!OnBar, StrategyInv
<1>2. backtest' = [status |-> backtest'.status, serving |-> backtest'.serving, signal |-> backtest'.signal]
  BY DEF Language!Bar, Language!Tested, StrategyInv, Language!NoTest
<1>3. bars'.count \in Nat /\ bars'.last = bar /\ UNCHANGED <<editor, strategy>>
  BY DEF Language!Bar, StrategyInv
<1>4. Language!BarOf(strategy)' = Language!BarOf(strategy) /\ Language!Valid(strategy)' = Language!Valid(strategy)
  BY <1>3
<1> QED
  BY <1>1, <1>2, <1>3, <1>4 DEF StrategyInv

LEMMA BarIsTrue ==
  ASSUME LawfulLanguage, StrategyInv, Language!SignalsAreTrue, live.state # "off",
         NEW bar \in Language!BarOf(strategy), NEW held \in BOOLEAN, Language!Bar(bar, held)
  PROVE  Language!SignalsAreTrue'
<1>1. /\ UNCHANGED <<editor, strategy>> /\ holding' = held /\ live' = Language!OnBar(bar, held)
      /\ bars' = [count |-> bars.count + 1, last |-> bar, before |-> bars.last]
  BY DEF Language!Bar
<1>2. /\ WellFormed(strategy) /\ Language!Valid(strategy) /\ bars.count \in Nat
      /\ live = [state |-> live.state, signal |-> live.signal]
  BY DEF StrategyInv, LawfulLanguage
<1> SUFFICES ASSUME Language!IsComplete(strategy)
             PROVE  /\ live'.state = "running"
                    /\ bars'.count >= 2 /\ ~ Weighted(strategy) =>
                         live'.signal = Language!Truth(\A n \in Language!ToSet(Language!List(held)) :
                                          Language!Holds(strategy, bar, bars.last)[n])
  BY <1>1 DEF Language!SignalsAreTrue, Weighted, Language!List
<1>3. live.state = "running" /\ Language!IndicatorError(strategy) = "none"
  BY <1>2, CompleteIsError DEF Language!SignalsAreTrue
<1>4. CASE bars.count = 0
  <2>1. live' = [live EXCEPT !.signal = "none"] /\ bars'.count = 1
    BY <1>1, <1>4 DEF Language!OnBar
  <2> QED
    BY <1>2, <1>3, <2>1
<1>5. CASE bars.count # 0
  <2> DEFINE list == Language!List(held)
             signal == Language!EvaluateAll(strategy, list, Language!LiveRow(strategy, bar),
                                            Language!LiveRow(strategy, bars.last))
  <2>1. bars.last \in Language!BarOf(strategy)
    BY <1>2, <1>5 DEF StrategyInv
  <2>2. /\ list \in Seq(1 .. Len(strategy.nodes)) /\ list # <<>>
        /\ \A n \in Language!ToSet(list) : Language!CheckNode(strategy)[n]
    BY <1>2 DEF Language!List, Language!Valid, WellFormed
  <2>3. /\ signal \in {"true", "false"}
        /\ ~ Weighted(strategy) => signal = Language!Truth(\A n \in Language!ToSet(list) :
                                                Language!Holds(strategy, bar, bars.last)[n])
    <3> HIDE DEF list
    <3> QED
      BY <1>2, <2>1, <2>2, ListIsTrue
  <2>4. live' = [live EXCEPT !.signal = signal]
    <3> HIDE DEF list, signal
    <3>1. signal \notin Language!Raised
      BY <2>3 DEF Language!Raised
    <3>2. live' = IF signal \in Language!Raised THEN [state |-> "failed", signal |-> "none"]
                  ELSE [live EXCEPT !.signal = signal]
      BY <1>1, <1>3, <1>5 DEF Language!OnBar, signal, list
    <3> QED
      BY <3>1, <3>2
  <2>5. live'.state = "running" /\ live'.signal = signal
    <3> HIDE DEF signal
    <3> QED
      BY <1>2, <1>3, <2>4
  <2> HIDE DEF signal
  <2> QED
    BY <2>3, <2>5
<1> QED
  BY <1>4, <1>5

LEMMA BarAgrees ==
  ASSUME StrategyInv, live.state # "off",
         NEW bar \in Language!BarOf(strategy), NEW held \in BOOLEAN, Language!Bar(bar, held)
  PROVE  Language!BacktestAgrees'
<1>1. /\ UNCHANGED <<editor, strategy>> /\ live' = Language!OnBar(bar, held)
      /\ backtest' = Language!Tested(bar, held)
      /\ bars' = [count |-> bars.count + 1, last |-> bar, before |-> bars.last]
  BY DEF Language!Bar
<1>2. /\ live = [state |-> live.state, signal |-> live.signal] /\ bars.count \in Nat
      /\ backtest = [status |-> backtest.status, serving |-> backtest.serving, signal |-> backtest.signal]
  BY DEF StrategyInv
<1> SUFFICES ASSUME live'.state = "running", backtest'.serving, bars'.count >= 2,
                    DOMAIN strategy.indicators \subseteq Identifier, ~ Weighted(strategy)
             PROVE  backtest'.signal = live'.signal
  BY <1>1 DEF Language!BacktestAgrees, Weighted
<1>3. bars.count # 0
  BY <1>1, <1>2
<1>4. \A b : Language!LiveRow(strategy, b) = Language!BacktestRow(strategy, b)
  BY DEF Language!LiveRow, Language!BacktestRow, Weighted
<1> DEFINE signal == Language!EvaluateAll(strategy, Language!List(held), Language!LiveRow(strategy, bar),
                                          Language!LiveRow(strategy, bars.last))
<1>5. Language!Tested(bar, held)
        = IF ~ backtest.serving THEN [backtest EXCEPT !.signal = "none"]
          ELSE IF signal = "invalid" THEN [Language!NoTest EXCEPT !.status = "FAILED"]
          ELSE IF signal = "type" THEN [Language!NoTest EXCEPT !.status = "RUNNING"]
          ELSE [backtest EXCEPT !.signal = signal]
  <2>1. Language!PrevRow = Language!LiveRow(strategy, bars.last)
    BY <1>3, <1>4 DEF Language!PrevRow
  <2>2. signal = Language!EvaluateAll(strategy, Language!List(held), Language!BacktestRow(strategy, bar),
                                      Language!PrevRow)
    BY <1>4, <2>1
  <2> HIDE DEF signal
  <2> QED
    BY <2>2, Zenon DEF Language!Tested
<1>6. Language!OnBar(bar, held)
        = IF live.state # "running" THEN [live EXCEPT !.signal = "none"]
          ELSE IF Language!IndicatorError(strategy) # "none" THEN [state |-> "failed", signal |-> "none"]
          ELSE IF signal \in Language!Raised THEN [state |-> "failed", signal |-> "none"]
          ELSE [live EXCEPT !.signal = signal]
  <2>1. Language!IndicatorError(strategy) # "none" => Language!IndicatorError(strategy) \in Language!Raised
    BY DEF Language!IndicatorError, Language!Raised
  <2> HIDE DEF signal
  <2> QED
    BY <1>3, <2>1 DEF Language!OnBar, signal
<1> HIDE DEF signal
<1>7. backtest.serving /\ signal # "invalid" /\ signal # "type"
  BY <1>1, <1>2, <1>5 DEF Language!NoTest
<1>8. backtest'.signal = signal
  BY <1>1, <1>2, <1>5, <1>7
<1>9. live.state = "running" /\ live'.signal = signal
  BY <1>1, <1>2, <1>6
<1> QED
  BY <1>8, <1>9

LEMMA StrategyStep ==
  ASSUME LawfulLanguage, StrategyInv, Language!SignalsAreTrue, Language!BacktestAgrees, [Language!Next]_(Language!vars)
  PROVE  StrategyInv' /\ Language!SignalsAreTrue' /\ Language!BacktestAgrees'
<1>1. ASSUME editor # "stored", NEW d \in Definition, Language!Submit(d)
      PROVE  StrategyInv' /\ Language!SignalsAreTrue' /\ Language!BacktestAgrees'
  <2>1. live.state = "off" /\ bars.count = 0
    BY <1>1 DEF StrategyInv
  <2>2. /\ UNCHANGED <<bars, holding, live, backtest>>
        /\ \/ editor' = "stored" /\ strategy' = d /\ Language!Valid(d)
           \/ editor' = "refused"
    BY <1>1 DEF Language!Submit
  <2>3. editor' = "stored" => Language!Valid(strategy')
    BY <2>2
  <2> QED
    <3>1. live'.state = "off" /\ live'.state # "running"
      BY <2>1, <2>2
    <3>2. Language!SignalsAreTrue' /\ Language!BacktestAgrees'
      BY <3>1, Zenon DEF Language!SignalsAreTrue, Language!BacktestAgrees
    <3>3. StrategyInv'
      <4>1. editor' = "stored" => strategy' \in Definition
        BY <2>2
      <4>2. ~ (bars'.count >= 1) /\ bars'.count \in Nat
        BY <2>1, <2>2
      <4> QED
        BY <2>2, <2>3, <3>1, <4>1, <4>2 DEF StrategyInv
    <3> QED
      BY <3>2, <3>3
<1>2. ASSUME Language!Start
      PROVE  StrategyInv' /\ Language!SignalsAreTrue' /\ Language!BacktestAgrees'
  <2>1. bars.count = 0 /\ UNCHANGED <<editor, strategy, bars, holding>> /\ editor = "stored"
    BY <1>2 DEF Language!Start, StrategyInv
  <2>2. live' = [state |-> "running", signal |-> "none"]
    BY <1>2 DEF Language!Start, Language!NoRun
  <2>3. backtest' = [status |-> backtest'.status, serving |-> backtest'.serving, signal |-> backtest'.signal]
    <3>1. \/ backtest' = [status |-> "RUNNING", serving |-> TRUE, signal |-> "none"]
          \/ backtest' = [Language!NoTest EXCEPT !.status = "FAILED"]
          \/ backtest' = [Language!NoTest EXCEPT !.status = "RUNNING"]
      BY <1>2, Zenon DEF Language!Start
    <3> QED
      BY <3>1 DEF Language!NoTest
  <2>4. StrategyInv'
    <3>1. Language!Valid(strategy)' = Language!Valid(strategy)
      BY <2>1
    <3> QED
      BY <2>1, <2>2, <2>3, <3>1 DEF StrategyInv
  <2>5. Language!SignalsAreTrue' /\ Language!BacktestAgrees'
    <3>1. live'.state = "running" /\ ~ (bars'.count >= 2)
      BY <2>1, <2>2
    <3> QED
      BY <3>1, Zenon DEF Language!SignalsAreTrue, Language!BacktestAgrees
  <2> QED
    BY <2>4, <2>5
<1>3. ASSUME live.state # "off", NEW bar \in Language!BarOf(strategy), NEW held \in BOOLEAN, Language!Bar(bar, held)
      PROVE  StrategyInv' /\ Language!SignalsAreTrue' /\ Language!BacktestAgrees'
  BY <1>3, BarKeepsInv, BarIsTrue, BarAgrees
<1>4. ASSUME Language!Complete
      PROVE  StrategyInv' /\ Language!SignalsAreTrue' /\ Language!BacktestAgrees'
  <2>1. /\ UNCHANGED <<editor, strategy, bars, holding, live>>
        /\ backtest' = [status |-> "COMPLETED", serving |-> FALSE, signal |-> "none"]
    BY <1>4 DEF Language!Complete, Language!NoTest
  <2>2. StrategyInv'
    <3>1. /\ Language!Valid(strategy)' = Language!Valid(strategy)
          /\ Language!BarOf(strategy)' = Language!BarOf(strategy)
      BY <2>1
    <3> QED
      BY <2>1, <3>1 DEF StrategyInv
  <2>3. Language!SignalsAreTrue'
    <3>1. Language!SignalsAreTrue' = Language!SignalsAreTrue
      BY <2>1 DEF Language!SignalsAreTrue, Language!List
    <3> QED
      BY <3>1
  <2>4. Language!BacktestAgrees'
    BY <2>1 DEF Language!BacktestAgrees
  <2> QED
    BY <2>2, <2>3, <2>4
<1>5. ASSUME UNCHANGED Language!vars
      PROVE  StrategyInv' /\ Language!SignalsAreTrue' /\ Language!BacktestAgrees'
  <2>1. UNCHANGED <<editor, strategy, bars, holding, live, backtest>>
    BY <1>5 DEF Language!vars
  <2>2. StrategyInv' = StrategyInv
    BY <2>1 DEF StrategyInv
  <2>3. Language!SignalsAreTrue' = Language!SignalsAreTrue
    BY <2>1 DEF Language!SignalsAreTrue, Language!List
  <2>4. Language!BacktestAgrees' = Language!BacktestAgrees
    BY <2>1 DEF Language!BacktestAgrees
  <2> QED
    BY <2>2, <2>3, <2>4
<1> QED
  BY <1>1, <1>2, <1>3, <1>4, <1>5 DEF Language!Next

LEMMA StrategySound ==
  Language!Spec => [](StrategyInv /\ Language!SignalsAreTrue /\ Language!BacktestAgrees)
<1> DEFINE Inv == StrategyInv /\ Language!SignalsAreTrue /\ Language!BacktestAgrees
<1>1. Language!Init => Inv
  BY StrategyStart
<1>2. Inv /\ [Language!Next]_(Language!vars) => Inv'
  BY StrategyStep, LanguageAssumption
<1> QED
  BY <1>1, <1>2, PTL DEF Language!Spec

(* For definitions of any size and nesting: what the editor has accepted   *)
(* signals what it says, on every bar, and a live run of it never fails    *)
(* for its conditions.                                                     *)
THEOREM SignalsTrue == Language!Spec => []SignalsAreTrue
<1>1. Language!SignalsAreTrue => SignalsAreTrue
  BY DEF SignalsAreTrue
<1> QED
  BY <1>1, StrategySound, PTL

(* And a backtest of it says the same as the live run, on the same bars.   *)
THEOREM ReadersAgree == Language!Spec => []BacktestAgrees
<1>1. Language!BacktestAgrees => BacktestAgrees
  BY DEF BacktestAgrees
<1> QED
  BY <1>1, StrategySound, PTL

-----------------------------------------------------------------------------
(***************************************************************************)
(* The bars a paper run is fed (BarBuilder), for bars of any length, any   *)
(* prices and times.  The invariant is the list of the positions at which  *)
(* the prices are cut: one for each closed bar and one for the bar in      *)
(* progress.                                                               *)
(***************************************************************************)
(* The module counts as the theorems about counting do.                    *)
LEMMA CountIs == \A S : Bars!Cardinality(S) = Cardinality(S)
  BY DEF Bars!Cardinality, Cardinality

\* Ascending: c lists positions of m cuts in order.
Ascending(c, m) == \A a, b \in 1 .. m : a < b => c[a] < c[b]
CutsOf(c, m) == {c[k] : k \in 1 .. m}

(* As many are listed as there are numbers to list them.                   *)
LEMMA Counted ==
  ASSUME NEW m \in Nat, NEW c, \A k \in 1 .. m : c[k] \in Int, Ascending(c, m)
  PROVE  IsFiniteSet(CutsOf(c, m)) /\ Cardinality(CutsOf(c, m)) = m
<1> DEFINE f == [k \in 1 .. m |-> c[k]]
<1>1. f \in [1 .. m -> CutsOf(c, m)]
  BY DEF CutsOf
<1>2. \A a, b \in 1 .. m : f[a] = f[b] => a = b
  <2> SUFFICES ASSUME NEW a \in 1 .. m, NEW b \in 1 .. m, c[a] = c[b], a # b PROVE FALSE
    OBVIOUS
  <2>1. a < b \/ b < a
    OBVIOUS
  <2>2. c[a] < c[b] \/ c[b] < c[a]
    BY <2>1 DEF Ascending
  <2> QED
    BY <2>2
<1>3. \A x \in CutsOf(c, m) : \E k \in 1 .. m : f[k] = x
  BY DEF CutsOf
<1> HIDE DEF f
<1>4. f \in Bijection(1 .. m, CutsOf(c, m))
  BY <1>1, <1>2, <1>3 DEF Bijection, Injection, IsInjective, Surjection
<1>5. ExistsBijection(1 .. m, CutsOf(c, m))
  BY <1>4 DEF ExistsBijection
<1>6. IsFiniteSet(1 .. m) /\ Cardinality(1 .. m) = m
  <2>1. IsFiniteSet(1 .. m) /\ Cardinality(1 .. m) = IF 1 > m THEN 0 ELSE m - 1 + 1
    BY FS_Interval
  <2> QED
    BY <2>1
<1>7. Cardinality(CutsOf(c, m)) = Cardinality(1 .. m) /\ IsFiniteSet(CutsOf(c, m))
  BY <1>5, <1>6, FS_Bijection
<1> QED
  BY <1>6, <1>7

\* The clock of the prices t in bars, and the bar of those from i to e.
Bucket(t, i) == t[i].at \div Seconds
OneBucket(t, i, e) == \A k \in i .. e : Bucket(t, k) = Bucket(t, i)
IsBar(t, i, e, bar) ==
  /\ i <= e /\ OneBucket(t, i, e)
  /\ bar.timestamp = Bucket(t, i) * Seconds
  /\ bar.open = t[i].price /\ bar.close = t[e].price
  /\ \E k \in i .. e : bar.high = t[k].price
  /\ \E k \in i .. e : bar.low = t[k].price
  /\ \A k \in i .. e : bar.low <= t[k].price /\ t[k].price <= bar.high

\* Bars and prices.
Bar == [timestamp : Int, open : Int, high : Int, low : Int, close : Int]
Tick == [price : Int, at : Nat]

\* The cuts c of the prices t into the closed bars of s and the one after.
Cut(t, s, now, c) ==
  LET m == Len(s) + 1 IN
  /\ c[1] = 1 /\ \A k \in 1 .. m : c[k] \in 1 .. Len(t)
  /\ Ascending(c, m)
  /\ \A k \in 1 .. Len(s) : /\ IsBar(t, c[k], c[k + 1] - 1, s[k])
                            /\ Bucket(t, c[k + 1]) # Bucket(t, c[k + 1] - 1)
  /\ IsBar(t, c[m], Len(t), now)

\* While the clock goes forward, so do the bars.
Forward(t) == \A i \in 2 .. Len(t) : t[i].at >= t[i - 1].at
Sorted(t) == Forward(t) => \A a, b \in 1 .. Len(t) : a <= b => Bucket(t, a) <= Bucket(t, b)

BarInv ==
  /\ ticks \in Seq(Tick) /\ closed \in Seq(Bar) /\ bucket \in Int
  /\ ticks = <<>> => closed = <<>> /\ bucket = -1
  /\ ticks # <<>> =>
       /\ current \in Bar /\ bucket = Bucket(ticks, Len(ticks)) /\ bucket # -1
       /\ \E c : Cut(ticks, closed, current, c)
  /\ Sorted(ticks)

(* The clock in bars is one, and goes with the clock.                      *)
LEMMA DivNat == ASSUME NEW s \in Nat \ {0}, NEW a \in Nat PROVE a \div s \in Nat
  OBVIOUS

LEMMA DivAscends ==
  ASSUME NEW s \in Nat \ {0}, NEW a \in Nat, NEW b \in Nat, a <= b
  PROVE  a \div s <= b \div s
  OBVIOUS

(* The greater and the lesser of two.                                      *)
LEMMA OfTwo ==
  ASSUME NEW a \in Int, NEW b \in Int
  PROVE  /\ Bars!Max({a, b}) = IF a >= b THEN a ELSE b
         /\ Bars!Min({a, b}) = IF a <= b THEN a ELSE b
<1>1. PICK x \in {a, b} : \A y \in {a, b} : x >= y
  OBVIOUS
<1>2. Bars!Max({a, b}) \in {a, b} /\ \A y \in {a, b} : Bars!Max({a, b}) >= y
  BY <1>1 DEF Bars!Max
<1>3. PICK least \in {a, b} : \A y \in {a, b} : least <= y
  OBVIOUS
<1>4. Bars!Min({a, b}) \in {a, b} /\ \A y \in {a, b} : Bars!Min({a, b}) <= y
  BY <1>3 DEF Bars!Min
<1> QED
  BY <1>2, <1>4

\* The first n prices are the same, and u is t with the price x.
Same(t, u, n) == \A k \in 1 .. n : u[k] = t[k]
Longer(t, x, u) ==
  /\ u \in Seq(Tick) /\ Len(u) = Len(t) + 1 /\ Len(t) \in Nat
  /\ u[Len(t) + 1] = x /\ Same(t, u, Len(t))

(* A bar is that of its prices, whatever follows them.                     *)
LEMMA BarKept ==
  ASSUME NEW n \in Int, NEW t, NEW u, Same(t, u, n), NEW i \in 1 .. n, NEW e \in 1 .. n, NEW bar,
         IsBar(t, i, e, bar)
  PROVE  IsBar(u, i, e, bar)
<1>0. \A k \in i .. e : u[k] = t[k]
  BY DEF Same
<1>1. i \in i .. e /\ e \in i .. e
  BY DEF IsBar
<1>2. \A k \in i .. e : Bucket(u, k) = Bucket(t, k)
  BY <1>0 DEF Bucket
<1>3. OneBucket(u, i, e)
  BY <1>1, <1>2 DEF IsBar, OneBucket
<1>4. bar.timestamp = Bucket(u, i) * Seconds
  BY <1>1, <1>2 DEF IsBar
<1> QED
  BY <1>0, <1>1, <1>3, <1>4 DEF IsBar

(* A price more makes a longer history.                                    *)
LEMMA Appended == \A t \in Seq(Tick), x \in Tick : Longer(t, x, Append(t, x))
  BY DEF Longer, Same

(* The first price opens a bar.                                            *)
LEMMA OneTickBar ==
  ASSUME LawfulBars, NEW u, NEW i \in Int, u[i] \in Tick, NEW b, b = Bucket(u, i)
  PROVE  IsBar(u, i, i, Bars!Opened(u[i].price, b)) /\ Bars!Opened(u[i].price, b) \in Bar
<1>1. i .. i = {i} /\ u[i].price \in Int /\ u[i].at \in Nat
  BY DEF Tick
<1>2. b \in Int /\ b * Seconds \in Int
  BY <1>1, DivNat DEF LawfulBars, Bucket
<1> QED
  BY <1>1, <1>2 DEF IsBar, OneBucket, Bars!Opened, Bar

(* One more price of the same bar.                                         *)
LEMMA MoreOfBar ==
  ASSUME NEW u \in Seq(Tick), NEW i \in 1 .. Len(u), NEW e \in Int, e + 1 = Len(u), i <= e,
         NEW bar \in Bar, IsBar(u, i, e, bar), Bucket(u, e + 1) = Bucket(u, e)
  PROVE  /\ IsBar(u, i, e + 1, Bars!Extended(bar, u[e + 1].price))
         /\ Bars!Extended(bar, u[e + 1].price) \in Bar
<1> DEFINE p == u[e + 1].price
           more == Bars!Extended(bar, u[e + 1].price)
<1>1. e \in i .. e /\ e + 1 \in i .. e + 1 /\ \A k \in i .. e + 1 : k \in i .. e \/ k = e + 1
  OBVIOUS
<1>2. u[e + 1] \in Tick /\ \A k \in i .. e : u[k] \in Tick
  OBVIOUS
<1>3. p \in Int /\ bar.high \in Int /\ bar.low \in Int /\ \A k \in i .. e : u[k].price \in Int
  BY <1>2 DEF Tick, Bar
<1>4. /\ more = [bar EXCEPT !.high = Bars!Max({@, p}), !.low = Bars!Min({@, p}), !.close = p]
      /\ Bars!Max({bar.high, p}) = IF bar.high >= p THEN bar.high ELSE p
      /\ Bars!Min({bar.low, p}) = IF bar.low <= p THEN bar.low ELSE p
  BY <1>3, OfTwo DEF Bars!Extended
<1> HIDE DEF p, more
<1>5. /\ more \in Bar /\ more.timestamp = bar.timestamp /\ more.open = bar.open
      /\ more.close = p
      /\ more.high = IF bar.high >= p THEN bar.high ELSE p
      /\ more.low = IF bar.low <= p THEN bar.low ELSE p
  BY <1>3, <1>4 DEF Bar
<1>6. OneBucket(u, i, e + 1)
  BY <1>1 DEF IsBar, OneBucket
<1>7. \E k \in i .. e + 1 : more.high = u[k].price
  <2>1. PICK k \in i .. e : bar.high = u[k].price
    BY DEF IsBar
  <2>2. k \in i .. e + 1 /\ (more.high = u[k].price \/ more.high = u[e + 1].price)
    BY <1>5, <2>1 DEF p
  <2> QED
    BY <1>1, <2>2
<1>8. \E k \in i .. e + 1 : more.low = u[k].price
  <2>1. PICK k \in i .. e : bar.low = u[k].price
    BY DEF IsBar
  <2>2. k \in i .. e + 1 /\ (more.low = u[k].price \/ more.low = u[e + 1].price)
    BY <1>5, <2>1 DEF p
  <2> QED
    BY <1>1, <2>2
<1>9. \A k \in i .. e + 1 : more.low <= u[k].price /\ u[k].price <= more.high
  <2> SUFFICES ASSUME NEW k \in i .. e + 1
               PROVE  more.low <= u[k].price /\ u[k].price <= more.high
    OBVIOUS
  <2>1. CASE k \in i .. e
    <3>1. bar.low <= u[k].price /\ u[k].price <= bar.high /\ u[k].price \in Int
      BY <1>3, <2>1 DEF IsBar
    <3> QED
      BY <1>3, <1>5, <3>1
  <2>2. CASE k = e + 1
    BY <1>3, <1>5, <2>2 DEF p
  <2> QED
    BY <1>1, <2>1, <2>2
<1> QED
  BY <1>5, <1>6, <1>7, <1>8, <1>9 DEF IsBar, more, p

(* The first price of all is cut into one bar.                             *)
LEMMA CutFirst ==
  ASSUME LawfulBars, NEW x \in Tick, NEW u, Longer(<<>>, x, u)
  PROVE  /\ Bars!Opened(x.price, Bucket(u, 1)) \in Bar
         /\ \E c : Cut(u, <<>>, Bars!Opened(x.price, Bucket(u, 1)), c)
<1>1. Len(u) = 1 /\ u[1] = x
  BY DEF Longer
<1>2. /\ IsBar(u, 1, 1, Bars!Opened(x.price, Bucket(u, 1)))
      /\ Bars!Opened(x.price, Bucket(u, 1)) \in Bar
  BY <1>1, OneTickBar
<1> DEFINE c == [k \in 1 .. 1 |-> 1]
<1>3. c[1] = 1 /\ Ascending(c, 1)
  BY DEF Ascending
<1> HIDE DEF c
<1>4. Cut(u, <<>>, Bars!Opened(x.price, Bucket(u, 1)), c)
  BY <1>1, <1>2, <1>3 DEF Cut
<1> QED
  BY <1>2, <1>4

(* A price of the same bucket goes into the last piece.                    *)
LEMMA CutMore ==
  ASSUME NEW t \in Seq(Tick), NEW s \in Seq(Bar), NEW now \in Bar, NEW c,
         Cut(t, s, now, c), NEW x \in Tick, NEW u, Longer(t, x, u),
         Bucket(u, Len(t) + 1) = Bucket(t, Len(t))
  PROVE  Cut(u, s, Bars!Extended(now, x.price), c) /\ Bars!Extended(now, x.price) \in Bar
<1> DEFINE n == Len(t)
           m == Len(s) + 1
<1>1. /\ u \in Seq(Tick) /\ Len(u) = n + 1 /\ n \in Nat /\ u[n + 1] = x
      /\ Same(t, u, n) /\ \A k \in 1 .. n : Bucket(u, k) = Bucket(t, k)
  BY DEF Longer, Same, Bucket
<1>2. Len(s) \in Nat /\ m \in 1 .. m /\ \A k \in 1 .. Len(s) : k \in 1 .. m /\ k + 1 \in 1 .. m
  OBVIOUS
<1>3. /\ \A k \in 1 .. m : c[k] \in 1 .. n
      /\ c[1] = 1 /\ Ascending(c, m) /\ IsBar(t, c[m], n, now)
      /\ \A k \in 1 .. Len(s) : /\ IsBar(t, c[k], c[k + 1] - 1, s[k])
                                /\ Bucket(t, c[k + 1]) # Bucket(t, c[k + 1] - 1)
  BY DEF Cut
<1>4. Bucket(u, n + 1) = Bucket(t, n)
  OBVIOUS
<1> HIDE DEF n, m
<1>5. c[m] \in 1 .. n /\ c[m] <= n
  BY <1>2, <1>3
<1>6. /\ IsBar(u, c[m], n + 1, Bars!Extended(now, x.price)) /\ Bars!Extended(now, x.price) \in Bar
  <2>1. IsBar(u, c[m], n, now)
    <3>1. n \in 1 .. n
      BY <1>1, <1>5
    <3> QED
      BY <1>1, <1>3, <1>5, <3>1, BarKept
  <2>2. Bucket(u, n + 1) = Bucket(u, n) /\ c[m] \in 1 .. Len(u) /\ n \in Int
    BY <1>1, <1>4, <1>5
  <2> QED
    BY <1>1, <1>5, <2>1, <2>2, MoreOfBar
<1>7. ASSUME NEW k \in 1 .. Len(s)
      PROVE  /\ IsBar(u, c[k], c[k + 1] - 1, s[k])
             /\ Bucket(u, c[k + 1]) # Bucket(u, c[k + 1] - 1)
  <2>1. c[k] \in 1 .. n /\ c[k + 1] \in 1 .. n
    BY <1>2, <1>3
  <2>2. IsBar(t, c[k], c[k + 1] - 1, s[k])
    BY <1>3
  <2>4. c[k + 1] - 1 \in 1 .. n
    <3>1. c[k] <= c[k + 1] - 1
      BY <2>2 DEF IsBar
    <3> QED
      BY <1>1, <2>1, <3>1
  <2>3. IsBar(u, c[k], c[k + 1] - 1, s[k])
    BY <1>1, <2>1, <2>2, <2>4, BarKept
  <2> QED
    BY <1>1, <1>3, <2>1, <2>3, <2>4
<1>8. \A k \in 1 .. m : c[k] \in 1 .. Len(u)
  BY <1>1, <1>3
<1> QED
  BY <1>1, <1>3, <1>6, <1>7, <1>8 DEF Cut, n, m

(* A price of another bucket closes it and starts a piece.                 *)
LEMMA CutNew ==
  ASSUME LawfulBars, NEW t \in Seq(Tick), NEW s \in Seq(Bar), NEW now \in Bar, NEW c,
         Cut(t, s, now, c), NEW x \in Tick, NEW u, Longer(t, x, u),
         Bucket(u, Len(t) + 1) # Bucket(t, Len(t))
  PROVE  /\ Bars!Opened(x.price, Bucket(u, Len(u))) \in Bar
         /\ \E d : Cut(u, Append(s, now), Bars!Opened(x.price, Bucket(u, Len(u))), d)
<1> DEFINE n == Len(t)
           m == Len(s) + 1
           d == [k \in 1 .. m + 1 |-> IF k = m + 1 THEN n + 1 ELSE c[k]]
           r == Append(s, now)
           new == Bars!Opened(x.price, Bucket(u, Len(u)))
<1>1. /\ u \in Seq(Tick) /\ Len(u) = n + 1 /\ n \in Nat /\ u[n + 1] = x
      /\ Same(t, u, n) /\ \A k \in 1 .. n : Bucket(u, k) = Bucket(t, k)
  BY DEF Longer, Same, Bucket
<1>2. /\ Len(s) \in Nat /\ m \in Nat /\ m = Len(s) + 1 /\ Len(r) = m /\ r[m] = now
      /\ \A k \in 1 .. Len(s) : r[k] = s[k]
  OBVIOUS
<1>3. /\ \A k \in 1 .. m : c[k] \in 1 .. n
      /\ c[1] = 1 /\ Ascending(c, m) /\ IsBar(t, c[m], n, now)
      /\ \A k \in 1 .. Len(s) : /\ IsBar(t, c[k], c[k + 1] - 1, s[k])
                                /\ Bucket(t, c[k + 1]) # Bucket(t, c[k + 1] - 1)
  BY DEF Cut
<1>4. Bucket(u, n + 1) # Bucket(t, n)
  OBVIOUS
<1>5. d[m + 1] = n + 1 /\ \A k \in 1 .. m : d[k] = c[k]
  BY <1>2
<1>6. IsBar(u, n + 1, n + 1, new) /\ new \in Bar
  <2>1. /\ IsBar(u, n + 1, n + 1, Bars!Opened(u[n + 1].price, Bucket(u, n + 1)))
        /\ Bars!Opened(u[n + 1].price, Bucket(u, n + 1)) \in Bar
    <3>1. n + 1 \in Int /\ u[n + 1] \in Tick
      BY <1>1
    <3> QED
      BY <3>1, OneTickBar
  <2>2. new = Bars!Opened(u[n + 1].price, Bucket(u, n + 1))
    BY <1>1
  <2> QED
    BY <2>1, <2>2
<1> HIDE DEF n, m, d, r, new
<1>7. \A k \in 1 .. m + 1 : d[k] \in 1 .. Len(u)
  <2>1. \A k \in 1 .. m + 1 : k \in 1 .. m \/ k = m + 1
    BY <1>2
  <2>2. \A k \in 1 .. m : d[k] \in 1 .. n
    BY <1>3, <1>5
  <2> QED
    BY <1>1, <1>5, <2>1, <2>2
<1>8. Ascending(d, m + 1)
  <2> SUFFICES ASSUME NEW a \in 1 .. m + 1, NEW b \in 1 .. m + 1, a < b PROVE d[a] < d[b]
    BY DEF Ascending
  <2>1. a \in 1 .. m /\ d[a] = c[a] /\ c[a] \in 1 .. n
    BY <1>2, <1>3, <1>5
  <2>2. CASE b = m + 1
    BY <1>1, <1>5, <2>1, <2>2
  <2>3. CASE b \in 1 .. m
    BY <1>3, <1>5, <2>1, <2>3 DEF Ascending
  <2> QED
    BY <1>2, <2>2, <2>3
<1>9. ASSUME NEW k \in 1 .. m
      PROVE  /\ IsBar(u, d[k], d[k + 1] - 1, r[k])
             /\ Bucket(u, d[k + 1]) # Bucket(u, d[k + 1] - 1)
  <2>1. CASE k = m
    <3>1. d[k] = c[m] /\ d[k + 1] = n + 1 /\ n + 1 - 1 = n /\ r[k] = now /\ c[m] \in 1 .. n
      BY <1>1, <1>2, <1>3, <1>5, <2>1
    <3>2. n \in 1 .. n
      BY <1>1, <3>1
    <3>3. IsBar(u, c[m], n, now)
      BY <1>1, <1>3, <3>1, <3>2, BarKept
    <3>4. Bucket(u, n + 1) # Bucket(u, n)
      BY <1>1, <1>4, <3>2
    <3>5. d[k + 1] - 1 = n
      BY <1>1, <3>1
    <3> QED
      BY <3>1, <3>3, <3>4, <3>5
  <2>2. CASE k \in 1 .. Len(s)
    <3>1. k \in 1 .. m /\ k + 1 \in 1 .. m
      BY <1>2, <2>2
    <3>2. /\ d[k] = c[k] /\ d[k + 1] = c[k + 1] /\ r[k] = s[k]
          /\ c[k] \in 1 .. n /\ c[k + 1] \in 1 .. n
      BY <1>2, <1>3, <1>5, <2>2, <3>1
    <3>3. /\ IsBar(t, c[k], c[k + 1] - 1, s[k])
          /\ Bucket(t, c[k + 1]) # Bucket(t, c[k + 1] - 1)
      BY <1>3, <2>2
    <3>4. c[k + 1] - 1 \in 1 .. n
      <4>1. c[k] <= c[k + 1] - 1
        BY <3>3 DEF IsBar
      <4> QED
        BY <1>1, <3>2, <4>1
    <3>6. IsBar(u, c[k], c[k + 1] - 1, s[k])
      BY <1>1, <3>2, <3>3, <3>4, BarKept
    <3> QED
      BY <1>1, <3>2, <3>3, <3>4, <3>6
  <2> QED
    BY <1>2, <2>1, <2>2
<1>10. d[1] = 1
  BY <1>2, <1>3, <1>5
<1>11. Cut(u, r, new, d)
  BY <1>1, <1>2, <1>5, <1>6, <1>7, <1>8, <1>9, <1>10 DEF Cut
<1> QED
  BY <1>6, <1>11 DEF r, new

(* The clock of a longer history.                                          *)
LEMMA SortedOn ==
  ASSUME LawfulBars, NEW t \in Seq(Tick), NEW x \in Tick, NEW u, Longer(t, x, u), Sorted(t)
  PROVE  Sorted(u)
<1> DEFINE n == Len(t)
<1>1. /\ n \in Nat /\ Len(u) = n + 1 /\ u \in Seq(Tick) /\ \A k \in 1 .. n : u[k] = t[k]
  BY DEF Longer, Same
<1>2. \A k \in 1 .. n + 1 : u[k].at \in Nat
  <2>1. \A k \in 1 .. n + 1 : u[k] \in Tick
    BY <1>1
  <2> QED
    BY <2>1 DEF Tick
<1> HIDE DEF n
<1> SUFFICES ASSUME Forward(u), NEW a \in 1 .. n + 1, NEW b \in 1 .. n + 1, a <= b
             PROVE  Bucket(u, a) <= Bucket(u, b)
  BY <1>1 DEF Sorted
<1>3. \A i \in 1 .. n : u[i + 1].at >= u[i].at
  <2> SUFFICES ASSUME NEW i \in 1 .. n PROVE u[i + 1].at >= u[i].at
    OBVIOUS
  <2>1. i + 1 \in 2 .. Len(u) /\ (i + 1) - 1 = i
    BY <1>1
  <2> QED
    BY <2>1 DEF Forward
<1>4. Forward(t)
  <2>1. \A i \in 2 .. n : i - 1 \in 1 .. n /\ i \in 1 .. n /\ (i - 1) + 1 = i
    BY <1>1
  <2>2. \A i \in 2 .. n : t[i].at >= t[i - 1].at
    BY <1>1, <1>3, <2>1
  <2> QED
    BY <2>2 DEF Forward, n
<1>5. \A i, j \in 1 .. n : i <= j => Bucket(u, i) <= Bucket(u, j)
  BY <1>1, <1>4 DEF Sorted, Bucket, n
<1>6. \A k \in 1 .. n + 1 : Bucket(u, k) \in Int
  BY <1>2, DivNat DEF Bucket, LawfulBars
<1>7. n \in 1 .. n => Bucket(u, n) <= Bucket(u, n + 1)
  <2> SUFFICES ASSUME n \in 1 .. n PROVE Bucket(u, n) <= Bucket(u, n + 1)
    OBVIOUS
  <2>1. u[n].at \in Nat /\ u[n + 1].at \in Nat /\ u[n].at <= u[n + 1].at
    BY <1>1, <1>2, <1>3
  <2>2. u[n].at \div Seconds <= u[n + 1].at \div Seconds
    BY <2>1, DivAscends DEF LawfulBars
  <2> QED
    BY <2>2 DEF Bucket
<1>8. CASE b \in 1 .. n
  BY <1>1, <1>5, <1>8
<1>9. CASE b = n + 1 /\ a = n + 1
  BY <1>6, <1>9
<1>10. CASE b = n + 1 /\ a \in 1 .. n
  <2>1. n \in 1 .. n /\ a <= n
    BY <1>1, <1>10
  <2>2. Bucket(u, a) <= Bucket(u, n) /\ Bucket(u, n) <= Bucket(u, n + 1)
    BY <1>5, <1>7, <1>10, <2>1
  <2>3. Bucket(u, a) \in Int /\ Bucket(u, n) \in Int /\ Bucket(u, n + 1) \in Int
    BY <1>1, <1>6, <1>10, <2>1
  <2> QED
    BY <1>10, <2>2, <2>3
<1> QED
  BY <1>1, <1>8, <1>9, <1>10

(* In the beginning there is no price and no bar.                          *)
LEMMA InitBars == Bars!Init => BarInv
<1> SUFFICES ASSUME Bars!Init PROVE BarInv
  OBVIOUS
<1>1. ticks \in Seq(Tick) /\ closed \in Seq(Bar)
  BY EmptySeq DEF Bars!Init
<1>2. Sorted(ticks)
  BY DEF Bars!Init, Sorted
<1> QED
  BY <1>1, <1>2 DEF Bars!Init, BarInv

(* Every price keeps the invariant.                                        *)
LEMMA StepBars ==
  ASSUME LawfulBars, BarInv, [Bars!Next]_Bars!vars
  PROVE  BarInv'
<1>1. ASSUME NEW p \in TickPrice, NEW at \in 0 .. LastTime, Bars!Add(p, at) PROVE BarInv'
  <2> DEFINE x == [price |-> p, at |-> at]
             n == Len(ticks)
             b == at \div Seconds
  <2>1. /\ ticks' = Append(ticks, x) /\ bucket' = b
        /\ \/ /\ bucket = b /\ current' = Bars!Extended(current, p) /\ closed' = closed
           \/ /\ bucket # b /\ current' = Bars!Opened(p, b)
              /\ closed' = IF bucket = -1 THEN closed ELSE Append(closed, current)
    BY <1>1 DEF Bars!Add
  <2>2. x \in Tick /\ x.price = p /\ x.at = at /\ b \in Nat
    <3>1. at \in Nat /\ p \in Int
      BY DEF LawfulBars
    <3> QED
      BY <3>1, DivNat DEF LawfulBars, Tick
  <2> HIDE DEF x
  <2>3. ticks \in Seq(Tick) /\ closed \in Seq(Bar) /\ n \in Nat
    BY DEF BarInv
  <2>4. Longer(ticks, x, ticks')
    BY <2>1, <2>2, <2>3, Appended
  <2>5. /\ ticks' \in Seq(Tick) /\ Len(ticks') = n + 1 /\ ticks' # <<>>
        /\ Bucket(ticks', n + 1) = b
    <3>1. ticks' \in Seq(Tick) /\ Len(ticks') = n + 1 /\ ticks'[n + 1] = x
      BY <2>4 DEF Longer
    <3>2. ticks' # <<>>
      BY <2>3, <3>1
    <3> QED
      BY <2>2, <3>1, <3>2 DEF Bucket
  <2>6. Sorted(ticks')
    BY <2>2, <2>3, <2>4, SortedOn DEF BarInv
  <2> HIDE DEF n, b
  <2>7. CASE ticks = <<>>
    <3>1. /\ n = 0 /\ closed' = <<>> /\ current' = Bars!Opened(p, b)
      <4>1. bucket = -1 /\ closed = <<>> /\ n = 0
        BY <2>7 DEF BarInv, n
      <4>2. b # -1
        BY <2>2
      <4> QED
        BY <2>1, <4>1, <4>2
    <3>2. Longer(<<>>, x, ticks')
      BY <2>4, <2>7
    <3>3. b = Bucket(ticks', 1)
      BY <2>5, <3>1
    <3>4. current' \in Bar /\ \E c : Cut(ticks', closed', current', c)
      BY <2>2, <3>1, <3>2, <3>3, CutFirst
    <3>5. closed' \in Seq(Bar)
      BY <3>1, EmptySeq
    <3> QED
      BY <2>1, <2>2, <2>5, <2>6, <3>4, <3>5 DEF BarInv
  <2>8. CASE ticks # <<>>
    <3>1. /\ current \in Bar /\ bucket = Bucket(ticks, n) /\ bucket # -1
      BY <2>8 DEF BarInv, n
    <3>2. PICK c : Cut(ticks, closed, current, c)
      BY <2>8 DEF BarInv
    <3>3. CASE bucket = b /\ current' = Bars!Extended(current, p) /\ closed' = closed
      <4>1. Bucket(ticks', n + 1) = Bucket(ticks, n)
        BY <2>5, <3>1, <3>3
      <4>2. Cut(ticks', closed', current', c) /\ current' \in Bar
        BY <2>2, <2>3, <2>4, <3>1, <3>2, <3>3, <4>1, CutMore DEF n
      <4> QED
        BY <2>1, <2>2, <2>3, <2>5, <2>6, <3>3, <4>2 DEF BarInv
    <3>4. CASE bucket # b /\ current' = Bars!Opened(p, b) /\ closed' = Append(closed, current)
      <4>1. Bucket(ticks', n + 1) # Bucket(ticks, n)
        BY <2>5, <3>1, <3>4
      <4>2. current' = Bars!Opened(x.price, Bucket(ticks', Len(ticks')))
        BY <2>2, <2>5, <3>4
      <4>3. current' \in Bar /\ \E d : Cut(ticks', closed', current', d)
        BY <2>2, <2>3, <2>4, <3>1, <3>2, <3>4, <4>1, <4>2, CutNew DEF n
      <4>4. closed' \in Seq(Bar)
        BY <2>3, <3>1, <3>4
      <4> QED
        BY <2>1, <2>2, <2>5, <2>6, <4>3, <4>4 DEF BarInv
    <3> QED
      BY <2>1, <3>1, <3>3, <3>4
  <2> QED
    BY <2>7, <2>8
<1>2. CASE UNCHANGED Bars!vars
  BY <1>2 DEF Bars!vars, BarInv
<1> QED
  BY <1>1, <1>2 DEF Bars!Next

-----------------------------------------------------------------------------
(* What the cuts say of the reference.                                     *)
\* The end of piece k of m, and the bar it is of.
End(t, c, m, k) == IF k = m THEN Len(t) ELSE c[k + 1] - 1
Nths(s, now, k) == IF k = Len(s) + 1 THEN now ELSE s[k]

(* Each price is of one piece.                                             *)
LEMMA Covered ==
  ASSUME NEW t \in Seq(Tick), NEW s \in Seq(Bar), NEW now, NEW c, Cut(t, s, now, c),
         NEW i \in 1 .. Len(t)
  PROVE  \E k \in 1 .. Len(s) + 1 : c[k] <= i /\ i <= End(t, c, Len(s) + 1, k)
<1> DEFINE m == Len(s) + 1
           Reached == {k \in 1 .. m : i <= End(t, c, m, k)}
<1>1. Len(s) \in Nat /\ Len(t) \in Nat /\ c[1] = 1 /\ \A k \in 1 .. m : c[k] \in 1 .. Len(t)
  BY DEF Cut
<1>2. m \in Reached /\ Reached \subseteq Nat
  BY <1>1 DEF End
<1>3. PICK k \in Reached : \A j \in Reached : k <= j
  <2>1. IsWellFoundedOn(OpToRel(<, Nat), Nat)
    BY NatLessThanWellFounded
  <2> HIDE DEF Reached
  <2>2. PICK k \in Reached : \A j \in Reached : ~ (<<j, k>> \in OpToRel(<, Nat))
    BY <1>2, <2>1, WFMin
  <2>3. \A j \in Reached : ~ (j < k)
    BY <1>2, <2>2 DEF OpToRel
  <2> QED
    BY <1>2, <2>3
<1>4. k \in 1 .. m /\ i <= End(t, c, m, k)
  BY <1>3
<1>5. c[k] <= i
  <2>1. CASE k = 1
    BY <1>1, <2>1
  <2>2. CASE k # 1
    <3>1. k - 1 \in 1 .. m /\ ~ (k <= k - 1) /\ k - 1 # m /\ (k - 1) + 1 = k
      BY <1>1, <1>4, <2>2
    <3>2. k - 1 \notin Reached
      BY <1>3, <3>1
    <3>3. ~ (i <= End(t, c, m, k - 1))
      BY <3>1, <3>2
    <3>4. ~ (i <= c[k] - 1)
      BY <3>1, <3>3 DEF End
    <3> QED
      BY <1>1, <1>4, <3>4
  <2> QED
    BY <2>1, <2>2
<1> QED
  BY <1>4, <1>5

(* The greatest and the least of a set are those that are.                 *)
LEMMA GreatestIs ==
  ASSUME NEW S, \A y \in S : y \in Int, NEW e \in S, \A y \in S : e >= y
  PROVE  Bars!Max(S) = e
<1>1. Bars!Max(S) \in S /\ \A y \in S : Bars!Max(S) >= y
  BY DEF Bars!Max
<1>2. Bars!Max(S) >= e /\ e >= Bars!Max(S) /\ e \in Int /\ Bars!Max(S) \in Int
  BY <1>1
<1> QED
  BY <1>2

LEMMA LeastIs ==
  ASSUME NEW S, \A y \in S : y \in Int, NEW e \in S, \A y \in S : e <= y
  PROVE  Bars!Min(S) = e
<1>1. Bars!Min(S) \in S /\ \A y \in S : Bars!Min(S) <= y
  BY DEF Bars!Min
<1>2. Bars!Min(S) <= e /\ e <= Bars!Min(S) /\ e \in Int /\ Bars!Min(S) \in Int
  BY <1>1
<1> QED
  BY <1>2

\* What a cut says of its piece k, which starts at i and ends at e.
IsPiece(t, i, e, bar) ==
  /\ i \in 1 .. Len(t) /\ e \in i .. Len(t)
  /\ IsBar(t, i, e, bar)
  /\ e = Len(t) \/ Bucket(t, e + 1) # Bucket(t, e)

(* A cut is one of pieces.                                                 *)
LEMMA Pieces ==
  ASSUME NEW t \in Seq(Tick), NEW s \in Seq(Bar), NEW now, NEW c, Cut(t, s, now, c),
         NEW k \in 1 .. Len(s) + 1
  PROVE  /\ IsPiece(t, c[k], End(t, c, Len(s) + 1, k), Nths(s, now, k))
         /\ k # 1 => Bucket(t, c[k]) # Bucket(t, c[k] - 1)
<1> DEFINE m == Len(s) + 1
           L == Len(t)
<1>1. /\ Len(s) \in Nat /\ m = Len(s) + 1 /\ L \in Nat /\ \A j \in 1 .. m : c[j] \in 1 .. L
      /\ \A j \in 1 .. Len(s) : /\ IsBar(t, c[j], c[j + 1] - 1, s[j])
                                /\ Bucket(t, c[j + 1]) # Bucket(t, c[j + 1] - 1)
      /\ IsBar(t, c[m], L, now)
  BY DEF Cut
<1> HIDE DEF m, L
<1>2. k \in 1 .. m
  BY DEF m
<1>3. k # 1 => Bucket(t, c[k]) # Bucket(t, c[k] - 1)
  <2>1. k # 1 => k - 1 \in 1 .. Len(s) /\ (k - 1) + 1 = k
    BY <1>1, <1>2
  <2> QED
    BY <1>1, <2>1
<1>4. CASE k = m
  <2>1. End(t, c, m, k) = L /\ Nths(s, now, k) = now
    BY <1>1, <1>4 DEF End, Nths, L
  <2>2. c[k] <= L
    BY <1>1, <1>2
  <2>3. IsPiece(t, c[k], L, now)
    BY <1>1, <1>2, <1>4, <2>2 DEF IsPiece, L
  <2> QED
    BY <1>3, <2>1, <2>3 DEF m
<1>5. CASE k # m
  <2>1. k \in 1 .. Len(s) /\ k + 1 \in 1 .. m
    BY <1>1, <1>2, <1>5
  <2>2. End(t, c, m, k) = c[k + 1] - 1 /\ Nths(s, now, k) = s[k]
    BY <1>1, <1>5 DEF End, Nths
  <2>3. IsBar(t, c[k], c[k + 1] - 1, s[k])
    BY <1>1, <2>1
  <2>4. c[k] <= c[k + 1] - 1
    BY <2>3 DEF IsBar
  <2>5. c[k] \in 1 .. L /\ c[k + 1] \in 1 .. L
    BY <1>1, <1>2, <2>1
  <2>6. c[k + 1] - 1 \in c[k] .. L /\ (c[k + 1] - 1) + 1 = c[k + 1]
    BY <1>1, <2>4, <2>5
  <2>7. Bucket(t, c[k + 1]) # Bucket(t, c[k + 1] - 1)
    BY <1>1, <2>1
  <2>8. IsPiece(t, c[k], c[k + 1] - 1, s[k])
    BY <2>3, <2>5, <2>6, <2>7 DEF IsPiece, L
  <2> QED
    BY <1>3, <2>2, <2>8 DEF m
<1> QED
  BY <1>4, <1>5

(* The piece the reference cuts, and the bar it makes of it.               *)
LEMMA PieceIs ==
  ASSUME BarInv, NEW i, NEW e, NEW bar \in Bar, IsPiece(ticks, i, e, bar)
  PROVE  Bars!BarOf(i) = bar
<1> DEFINE L == Len(ticks)
           Reach == {j \in i .. L : \A k \in i .. j : Bars!In(k) = Bars!In(i)}
           prices == {ticks[k].price : k \in i .. e}
<1>1. /\ L \in Nat /\ i \in 1 .. L /\ e \in i .. L /\ IsBar(ticks, i, e, bar)
      /\ e = L \/ Bucket(ticks, e + 1) # Bucket(ticks, e)
  BY DEF BarInv, IsPiece
<1>2. \A k \in 1 .. L : Bars!In(k) = Bucket(ticks, k) /\ ticks[k] \in Tick /\ ticks[k].price \in Int
  <2>1. \A k \in 1 .. L : ticks[k] \in Tick
    BY DEF BarInv
  <2> QED
    BY <2>1 DEF Bars!In, Bucket, Tick
<1>3. Bars!Max(Reach) = e
  <2>1. e \in Reach
    <3>1. \A k \in i .. e : Bucket(ticks, k) = Bucket(ticks, i)
      BY <1>1 DEF IsBar, OneBucket
    <3>2. \A k \in i .. e : k \in 1 .. L
      BY <1>1
    <3> QED
      BY <1>1, <1>2, <3>1, <3>2
  <2>2. ASSUME NEW j \in Reach, ~ (e >= j) PROVE FALSE
    <3>1. e + 1 \in i .. j /\ e \in i .. j /\ e # L /\ e + 1 \in 1 .. L /\ e \in 1 .. L
      BY <1>1, <2>2
    <3>2. Bars!In(e + 1) = Bars!In(i) /\ Bars!In(e) = Bars!In(i)
      BY <3>1
    <3> QED
      BY <1>1, <1>2, <3>1, <3>2
  <2>3. \A y \in Reach : y \in Int
    BY <1>1
  <2> HIDE DEF Reach
  <2> QED
    BY <2>1, <2>2, <2>3, GreatestIs
<1>4. Bars!Piece(i) = i .. e
  BY <1>3 DEF Bars!Piece
<1>5. Bars!Max(Bars!Piece(i)) = e
  <2>1. e \in i .. e /\ \A y \in i .. e : y \in Int /\ e >= y
    BY <1>1
  <2>2. Bars!Max(i .. e) = e
    BY <2>1, GreatestIs
  <2> QED
    BY <1>4, <2>2
<1>6. Bars!Max(prices) = bar.high /\ Bars!Min(prices) = bar.low
  <2>1. \A k \in i .. e : k \in 1 .. L
    BY <1>1
  <2>2. \A y \in prices : y \in Int /\ bar.low <= y /\ y <= bar.high
    BY <1>1, <1>2, <2>1 DEF IsBar
  <2>3. bar.high \in prices /\ bar.low \in prices
    BY <1>1 DEF IsBar
  <2>4. bar.high \in Int /\ bar.low \in Int
    BY <2>2, <2>3
  <2> HIDE DEF prices
  <2>5. \A y \in prices : bar.high >= y
    BY <2>2, <2>4
  <2> QED
    BY <2>2, <2>3, <2>5, GreatestIs, LeastIs
<1>7. Bars!BarOf(i) = [timestamp |-> Bars!In(i) * Seconds, open |-> ticks[i].price,
                  high |-> Bars!Max(prices), low |-> Bars!Min(prices), close |-> ticks[e].price]
  <2>1. Bars!BarOf(i) = [timestamp |-> Bars!In(i) * Seconds, open |-> ticks[i].price,
                    high |-> Bars!Max({ticks[k].price : k \in Bars!Piece(i)}),
                    low |-> Bars!Min({ticks[k].price : k \in Bars!Piece(i)}),
                    close |-> ticks[Bars!Max(Bars!Piece(i))].price]
    BY DEF Bars!BarOf
  <2>2. {ticks[k].price : k \in Bars!Piece(i)} = prices
    BY <1>4
  <2> HIDE DEF prices
  <2> QED
    BY <1>5, <2>1, <2>2
<1> HIDE DEF prices
<1>8. /\ bar.timestamp = Bars!In(i) * Seconds /\ bar.open = ticks[i].price
      /\ bar.close = ticks[e].price
  BY <1>1, <1>2 DEF IsBar
<1>9. bar = [timestamp |-> bar.timestamp, open |-> bar.open, high |-> bar.high,
             low |-> bar.low, close |-> bar.close]
  BY DEF Bar
<1> QED
  BY <1>6, <1>7, <1>8, <1>9

(* The pieces start where the cuts are, and are counted as they are.       *)
LEMMA StartsAre ==
  ASSUME BarInv, NEW c, Cut(ticks, closed, current, c)
  PROVE  /\ Bars!Starts = CutsOf(c, Len(closed) + 1)
         /\ Cardinality(Bars!Starts) = Len(closed) + 1
         /\ \A k \in 1 .. Len(closed) + 1 : Bars!Nth(k) = c[k]
<1> DEFINE m == Len(closed) + 1
           L == Len(ticks)
<1>1. /\ Len(closed) \in Nat /\ m \in Nat /\ L \in Nat /\ c[1] = 1 /\ Ascending(c, m)
      /\ \A k \in 1 .. m : c[k] \in 1 .. L
      /\ ticks \in Seq(Tick) /\ closed \in Seq(Bar)
  BY DEF Cut, BarInv
<1>2. \A k \in 1 .. L : Bars!In(k) = Bucket(ticks, k)
  BY DEF Bars!In, Bucket
<1>3. ASSUME NEW k \in 1 .. m
      PROVE  /\ IsPiece(ticks, c[k], End(ticks, c, m, k), Nths(closed, current, k))
             /\ k # 1 => Bucket(ticks, c[k]) # Bucket(ticks, c[k] - 1)
  BY <1>1, Pieces
<1>4. \A i \in 1 .. L : \E k \in 1 .. m : c[k] <= i /\ i <= End(ticks, c, m, k)
  BY <1>1, Covered
<1> HIDE DEF m
<1>5. ASSUME NEW k \in 1 .. m PROVE c[k] \in Bars!Starts
  <2>1. c[k] \in 1 .. L
    BY <1>1
  <2>2. CASE k = 1
    BY <1>1, <2>1, <2>2 DEF Bars!Starts
  <2>3. CASE k # 1
    <3>1. 1 \in 1 .. m /\ 1 < k
      BY <1>1, <2>3
    <3>2. c[1] < c[k]
      BY <1>1, <3>1 DEF Ascending
    <3>3. c[k] - 1 \in 1 .. L
      BY <1>1, <2>1, <3>2
    <3>4. Bars!In(c[k]) # Bars!In(c[k] - 1)
      BY <1>2, <1>3, <2>1, <2>3, <3>3
    <3> QED
      BY <2>1, <3>4 DEF Bars!Starts
  <2> QED
    BY <2>2, <2>3
<1>6. ASSUME NEW i \in Bars!Starts PROVE \E k \in 1 .. m : i = c[k]
  <2>1. i \in 1 .. L /\ (i = 1 \/ Bars!In(i) # Bars!In(i - 1))
    BY DEF Bars!Starts
  <2>2. PICK k \in 1 .. m : c[k] <= i /\ i <= End(ticks, c, m, k)
    BY <1>4, <2>1
  <2>3. c[k] \in 1 .. L
    BY <1>1
  <2>4. CASE c[k] = i
    BY <2>4
  <2>5. CASE c[k] # i
    <3> DEFINE e == End(ticks, c, m, k)
    <3>1. e \in c[k] .. L /\ OneBucket(ticks, c[k], e)
      BY <1>3 DEF IsPiece, IsBar
    <3> HIDE DEF e
    <3>2. i \in c[k] .. e /\ i - 1 \in c[k] .. e /\ i # 1 /\ i - 1 \in 1 .. L
      BY <2>1, <2>2, <2>3, <2>5, <3>1 DEF e
    <3>3. Bucket(ticks, i) = Bucket(ticks, i - 1)
      BY <3>1, <3>2 DEF OneBucket
    <3> QED
      BY <1>2, <2>1, <3>2, <3>3
  <2> QED
    BY <2>4, <2>5
<1>7. Bars!Starts = CutsOf(c, m)
  BY <1>5, <1>6 DEF CutsOf
<1>8. ASSUME NEW k \in 1 .. m PROVE Cardinality({j \in Bars!Starts : j <= c[k]}) = k
  <2>1. {j \in Bars!Starts : j <= c[k]} = CutsOf(c, k)
    <3>1. \A a \in 1 .. m : c[a] <= c[k] <=> a <= k
      <4> SUFFICES ASSUME NEW a \in 1 .. m PROVE c[a] <= c[k] <=> a <= k
        OBVIOUS
      <4>1. c[a] \in Int /\ c[k] \in Int
        BY <1>1
      <4>2. a < k => c[a] < c[k]
        BY <1>1 DEF Ascending
      <4>3. k < a => c[k] < c[a]
        BY <1>1 DEF Ascending
      <4>4. a = k => c[a] = c[k]
        OBVIOUS
      <4>5. a < k \/ k < a \/ a = k
        OBVIOUS
      <4> QED
        BY <4>1, <4>2, <4>3, <4>4, <4>5
    <3>2. \A a \in 1 .. k : a \in 1 .. m /\ a <= k
      BY <1>1
    <3>3. \A a \in 1 .. m : a <= k => a \in 1 .. k
      BY <1>1
    <3>4. \A j \in Bars!Starts : j <= c[k] => j \in CutsOf(c, k)
      BY <1>6, <3>1, <3>3 DEF CutsOf
    <3>5. \A j \in CutsOf(c, k) : j \in Bars!Starts /\ j <= c[k]
      BY <1>5, <3>1, <3>2 DEF CutsOf
    <3> QED
      BY <3>4, <3>5
  <2>2. k \in Nat /\ Ascending(c, k) /\ \A a \in 1 .. k : c[a] \in Int
    <3>1. \A a \in 1 .. k : a \in 1 .. m
      BY <1>1
    <3> QED
      BY <1>1, <3>1 DEF Ascending
  <2> QED
    BY <2>1, <2>2, Counted
<1>9. Cardinality(Bars!Starts) = m
  <2>1. \A a \in 1 .. m : c[a] \in Int
    BY <1>1
  <2> QED
    BY <1>1, <1>7, <2>1, Counted
<1>10. ASSUME NEW k \in 1 .. m PROVE Bars!Nth(k) = c[k]
  <2> DEFINE Is(i) == Cardinality({j \in Bars!Starts : j <= i}) = k
  <2>1. c[k] \in Bars!Starts /\ Is(c[k])
    BY <1>5, <1>8
  <2>2. \A i \in Bars!Starts : Is(i) => i = c[k]
    <3> SUFFICES ASSUME NEW i \in Bars!Starts, Is(i) PROVE i = c[k]
      OBVIOUS
    <3>1. PICK a \in 1 .. m : i = c[a]
      BY <1>6
    <3>2. Cardinality({j \in Bars!Starts : j <= c[a]}) = a
      BY <1>8
    <3>3. a = k
      BY <3>1, <3>2
    <3> QED
      BY <3>1, <3>3
  <2>3. Bars!Nth(k) = CHOOSE i \in Bars!Starts : Is(i)
    BY CountIs DEF Bars!Nth
  <2> HIDE DEF Is
  <2> QED
    BY <2>1, <2>2, <2>3
<1> QED
  BY <1>7, <1>9, <1>10 DEF m

(* While the clock goes forward, each bar is later than the last.          *)
LEMMA BarsAscend ==
  ASSUME LawfulBars, BarInv, Forward(ticks), NEW c, Cut(ticks, closed, current, c),
         NEW n \in 2 .. Len(closed)
  PROVE  closed[n - 1].timestamp < closed[n].timestamp
<1> DEFINE m == Len(closed) + 1
           from == Bucket(ticks, c[n - 1])
           last == Bucket(ticks, c[n] - 1)
           to == Bucket(ticks, c[n])
<1>1. /\ Len(closed) \in Nat /\ Len(ticks) \in Nat /\ Ascending(c, m)
      /\ \A k \in 1 .. m : c[k] \in 1 .. Len(ticks)
      /\ \A k \in 1 .. Len(closed) : /\ IsBar(ticks, c[k], c[k + 1] - 1, closed[k])
                                     /\ Bucket(ticks, c[k + 1]) # Bucket(ticks, c[k + 1] - 1)
      /\ ticks \in Seq(Tick)
  BY DEF Cut, BarInv
<1>2. /\ n - 1 \in 1 .. Len(closed) /\ n \in 1 .. Len(closed) /\ (n - 1) + 1 = n
      /\ n - 1 \in 1 .. m /\ n \in 1 .. m
  BY <1>1
<1>3. /\ closed[n - 1].timestamp = from * Seconds /\ closed[n].timestamp = to * Seconds
      /\ to # last /\ c[n - 1] <= c[n] - 1
  BY <1>1, <1>2 DEF IsBar
<1>4. c[n - 1] \in 1 .. Len(ticks) /\ c[n] \in 1 .. Len(ticks) /\ c[n] - 1 \in 1 .. Len(ticks)
  BY <1>1, <1>2, <1>3, SMTT(30)
<1>5. \A k \in 1 .. Len(ticks) : Bucket(ticks, k) \in Int
  <2>1. \A k \in 1 .. Len(ticks) : ticks[k].at \in Nat
    <3>1. \A k \in 1 .. Len(ticks) : ticks[k] \in Tick
      BY <1>1
    <3> QED
      BY <3>1 DEF Tick
  <2> QED
    BY <2>1, DivNat DEF Bucket, LawfulBars
<1>6. from \in Int /\ last \in Int /\ to \in Int
  BY <1>4, <1>5
<1>7. from <= last /\ last <= to
  BY <1>3, <1>4 DEF BarInv, Sorted
<1> HIDE DEF from, last, to
<1>8. from + 1 <= to
  BY <1>3, <1>6, <1>7
<1>9. from * Seconds < to * Seconds
  <2>1. \A a, b, x \in Int : a + 1 <= b /\ x > 0 => a * x < b * x
    <3> SUFFICES ASSUME NEW a \in Int, NEW b \in Int, NEW x \in Int, a + 1 <= b, x > 0
                 PROVE  a * x < b * x
      OBVIOUS
    <3>1. b * x = a * x + (b - a) * x /\ a * x \in Int
      OBVIOUS
    <3>2. \A d, y \in Nat \ {0} : d * y > 0
      OBVIOUS
    <3>3. b - a \in Nat \ {0} /\ x \in Nat \ {0}
      OBVIOUS
    <3>4. (b - a) * x > 0 /\ (b - a) * x \in Int
      BY <3>2, <3>3
    <3> QED
      BY <3>1, <3>4
  <2> QED
    BY <1>6, <1>8, <2>1 DEF LawfulBars
<1> QED
  BY <1>3, <1>9

(* What the cuts say is what the reference says.                           *)
LEMMA InvBars == LawfulBars /\ BarInv => Bars!BarsAreTrue
<1> SUFFICES ASSUME LawfulBars, BarInv PROVE Bars!BarsAreTrue
  OBVIOUS
<1>1. closed \in Seq(Bar) /\ Len(closed) \in Nat /\ ticks \in Seq(Tick) /\ Len(ticks) \in Nat
  BY DEF BarInv
<1>2. CASE ticks = <<>>
  <2>1. closed = <<>> /\ Len(closed) = 0 /\ Len(ticks) = 0
    BY <1>2 DEF BarInv
  <2>2. Bars!Starts = {} /\ Cardinality(Bars!Starts) = 0
    <3>1. Bars!Starts = {}
      BY <2>1 DEF Bars!Starts
    <3> QED
      BY <3>1, FS_EmptySet
  <2>3. Bars!Max({0 - 1, 0}) = 0
    BY OfTwo
  <2>4. Len(closed) = Bars!Max({Cardinality(Bars!Starts) - 1, 0})
    BY <2>1, <2>2, <2>3
  <2>5. \A n \in 1 .. Len(closed) : FALSE
    BY <2>1
  <2>6. \A n \in 2 .. Len(closed) : FALSE
    BY <2>1
  <2> QED
    BY <1>2, <2>4, <2>5, <2>6, CountIs DEF Bars!BarsAreTrue
<1>3. CASE ticks # <<>>
  <2> DEFINE m == Len(closed) + 1
  <2>1. current \in Bar /\ \E c : Cut(ticks, closed, current, c)
    BY <1>3 DEF BarInv
  <2>2. PICK c : Cut(ticks, closed, current, c)
    BY <2>1
  <2>3. Cardinality(Bars!Starts) = m /\ \A k \in 1 .. m : Bars!Nth(k) = c[k]
    BY <2>2, StartsAre
  <2>4. \A k \in 1 .. m : IsPiece(ticks, c[k], End(ticks, c, m, k), Nths(closed, current, k))
    BY <1>1, <2>2, Pieces
  <2>5. m \in Nat /\ m \in 1 .. m /\ \A k \in 1 .. Len(closed) : k \in 1 .. m /\ k # m
    BY <1>1
  <2>6. Nths(closed, current, m) = current
    BY CountIs DEF Nths
  <2>7. \A k \in 1 .. Len(closed) : Nths(closed, current, k) = closed[k] /\ closed[k] \in Bar
    BY <1>1, <2>5 DEF Nths
  <2>8. Bars!Max({m - 1, 0}) = Len(closed)
    BY <1>1, OfTwo
  <2> HIDE DEF m
  <2>9. \A k \in 1 .. m : Nths(closed, current, k) \in Bar
                            => Bars!BarOf(Bars!Nth(k)) = Nths(closed, current, k)
    BY <2>3, <2>4, PieceIs
  <2>10. \A k \in 1 .. Len(closed) : closed[k] = Bars!BarOf(Bars!Nth(k))
    BY <2>5, <2>7, <2>9
  <2>11. current = Bars!BarOf(Bars!Nth(m))
    BY <2>1, <2>5, <2>6, <2>9
  <2>12. Forward(ticks) =>
           \A n \in 2 .. Len(closed) : closed[n - 1].timestamp < closed[n].timestamp
    BY <2>2, BarsAscend
  <2> QED
    BY <2>3, <2>8, <2>10, <2>11, <2>12, CountIs DEF Bars!BarsAreTrue, Forward
<1> QED
  BY <1>2, <1>3

(* For bars of any length, any prices and times: the bars handed to the    *)
(* strategy are those of the prices polled.                                *)
THEOREM BarsTold ==
  Bars!Spec => []BarsAreTrue
<1>1. BarInv /\ [Bars!Next]_Bars!vars => BarInv'
  BY StepBars, BarsAssumption
<1>2. BarInv => BarsAreTrue
  BY InvBars, BarsAssumption DEF BarsAreTrue
<1> QED
  BY <1>1, <1>2, InitBars, PTL DEF Bars!Spec

-----------------------------------------------------------------------------
(***************************************************************************)
(* Quotes and the prices of fills (Quotes), for any instruments, threads   *)
(* and lifetime of the cache.  The invariant says how old an answer may be *)
(* where it is under way (Sound) or kept (Kept), and that what a sandbox   *)
(* answered has a stamp from before the sandbox ended.                     *)
(***************************************************************************)
Entry == [at : Market!Age, origin : Market!Origin, read : Market!Age]
Serving ==
  [pc : {"idle", "lookup", "mode", "touchline", "chart", "holdings",
         "refuse", "store", "route", "told", "filled"},
   wanted : Wanted \cup {{}}, for : {"quotes", "size", "fill"},
   form : BOOLEAN, looked : Market!Age, origin : Market!Origin, read : Market!Age,
   label : {"", "live_ltp", "sandbox_quote", "choice_chart_data",
            "holdings_snapshot", "submitted"},
   book : {"", "PAPER", "DEMO"}, calm : BOOLEAN]

QuoteTypes ==
  /\ mode \in {"DISCONNECTED", "DEMO", "PAPER", "LIVE"}
  /\ client \in {"no", "signing", "ready"}
  /\ cache \in [Wanted -> Entry]
  /\ req \in [Reader -> Serving]
  /\ sandbox \in Market!Age

\* What is in the cache was read after its stamp, and is real if its stamp is
\* younger than the session's last moment as a sandbox.
Kept(c) ==
  c.at < Lifetime =>
    /\ c.read <= c.at /\ c.origin # "none"
    /\ c.origin \notin Market!Real => sandbox <= c.at

\* The same of an answer on its way to the cache; who is told it is told it in
\* time; who has been calm since the order is told what Choice said.
Sound(r) ==
  /\ r.pc # "idle" => r.wanted \in Wanted
  /\ r.pc = "store" =>
       /\ r.read <= r.looked /\ r.origin # "none"
       /\ r.origin \notin Market!Real => sandbox <= r.looked
  /\ r.pc \in {"told", "filled"} => r.read < Lifetime
  /\ r.calm =>
       /\ sandbox = Lifetime
       /\ r.pc \in {"store", "told", "filled"} => r.origin \in Market!Real
  /\ r.pc = "filled" /\ r.book = "PAPER" /\ r.origin \in Market!Real =>
       (r.label = "live_ltp" <=> r.origin = "touchline")

QuoteInv ==
  /\ QuoteTypes
  /\ mode = "DEMO" => sandbox = 0
  /\ \A w \in Wanted : Kept(cache[w])
  /\ \A t \in Reader : Sound(req[t])

-----------------------------------------------------------------------------
(* An age of nothing is below the lifetime.                                *)
LEMMA Zero ==
  ASSUME Lasting
  PROVE  /\ 0 \in Market!Age /\ 0 < Lifetime /\ Lifetime # 0
         /\ Market!Age \subseteq Nat /\ \A a \in Nat : 0 <= a
  BY DEF Lasting, Market!Age

(* The lifetime of an entry is reached, not passed.                        *)
LEMMA Ages ==
  ASSUME Lasting, NEW a \in Market!Age, NEW b \in Market!Age
  PROVE  /\ Market!Older(a) \in Market!Age /\ a <= Market!Older(a)
         /\ a <= b => Market!Older(a) <= Market!Older(b)
         /\ Market!Older(a) < Lifetime => Market!Older(a) = a + 1
         /\ Market!Older(Lifetime) = Lifetime /\ 0 \in Market!Age /\ Lifetime \in Market!Age
  BY DEF Lasting, Market!Age, Market!Older

(* An idle thread and an expired entry are within the invariant.           *)
LEMMA Nothing ==
  ASSUME Lasting
  PROVE  /\ Market!Idle \in Serving /\ Sound(Market!Idle) /\ Market!Expired \in Entry /\ Kept(Market!Expired)
  BY DEF Lasting, Market!Idle, Serving, Sound, Market!Expired, Entry, Kept, Market!Origin, Market!Real, Market!Age

(* A step of a thread that leaves the cache.                               *)
LEMMA StepKeeps ==
  ASSUME QuoteInv, NEW t \in Reader, NEW r \in Serving, Sound(r), Market!Step(t, r)
  PROVE  QuoteInv'
<1>1. /\ req' = [req EXCEPT ![t] = r]
      /\ UNCHANGED <<mode, client, switches, fixture, sandbox, cache>>
  BY DEF Market!Step, Market!Goes
<1>2. \A s \in Reader : Sound(req'[s])
  BY <1>1 DEF QuoteInv, QuoteTypes
<1> QED
  BY <1>1, <1>2 DEF QuoteInv, QuoteTypes, Kept, Sound

(* A step of a thread that answers a request into the cache.               *)
LEMMA AnswerKeeps ==
  ASSUME Lasting, QuoteInv, NEW t \in Reader, NEW r \in Serving, Sound(r), Market!Goes(t, r),
         NEW q \in Serving, NEW o \in Market!Origin, NEW a \in Market!Age, Market!Keep(q, o, a),
         q.wanted \in Wanted, a <= q.looked, o # "none", o \notin Market!Real => sandbox <= q.looked
  PROVE  QuoteInv'
<1> DEFINE c == IF q.looked = Lifetime THEN Market!Expired ELSE [at |-> q.looked, origin |-> o, read |-> a]
<1>1. /\ req' = [req EXCEPT ![t] = r]
      /\ UNCHANGED <<mode, client, switches, fixture, sandbox>>
      /\ cache' = [cache EXCEPT ![q.wanted] = c]
  BY DEF Market!Goes, Market!Keep
<1>2. q.looked \in Market!Age
  BY DEF Serving
<1>3. c \in Entry /\ Kept(c)
  BY <1>2, Nothing DEF Entry, Kept
<1> HIDE DEF c
<1>4. \A s \in Reader : Sound(req'[s])
  BY <1>1 DEF QuoteInv, QuoteTypes
<1>5. \A w \in Wanted : Kept(cache'[w])
  BY <1>1, <1>3 DEF QuoteInv, QuoteTypes
<1> QED
  BY <1>1, <1>3, <1>4, <1>5 DEF QuoteInv, QuoteTypes, Kept, Sound

(* The lookup, the sizing and the refusal carry nothing over.              *)
LEMMA AskedSound ==
  ASSUME Lasting, NEW r \in Serving, r.wanted \in Wanted, r.calm => sandbox = Lifetime
  PROVE  /\ Market!Asked(r) \in Serving /\ Sound(Market!Asked(r))
         /\ Market!Sized(r) \in Serving /\ Sound(Market!Sized(r))
         /\ \A f \in {"quotes", "size", "fill"} :
              /\ [Market!Asked(r) EXCEPT !.for = f] \in Serving
              /\ Sound([Market!Asked(r) EXCEPT !.for = f])
<1>1. 0 \in Market!Age /\ "none" \in Market!Origin
  BY DEF Lasting, Market!Age, Market!Origin
<1> QED
  BY ZenonT(30), <1>1 DEF Market!Asked, Market!Sized, Serving, Sound

(* A refused request ends, or sizes its order without a price.             *)
LEMMA RefusedKeeps ==
  ASSUME Lasting, QuoteInv, NEW t \in Reader, req[t].pc # "idle", Market!Refused(t)
  PROVE  QuoteInv'
<1>1. req[t] \in Serving /\ Sound(req[t])
  BY DEF QuoteInv, QuoteTypes
<1>2. Market!Sized(req[t]) \in Serving /\ Sound(Market!Sized(req[t]))
  BY <1>1, AskedSound DEF Sound
<1>3. CASE req[t].for = "size"
  BY <1>2, <1>3, StepKeeps DEF Market!Refused
<1>4. CASE req[t].for # "size"
  BY <1>4, Nothing, StepKeeps DEF Market!Refused
<1> QED
  BY <1>3, <1>4

(* What a thread is told, is told in time; an order filled on paper has    *)
(* the label of its source.                                                *)
LEMMA ToldSound ==
  ASSUME Lasting, QuoteInv, NEW r \in Serving, r.wanted \in Wanted,
         NEW o \in Market!Origin, NEW a \in Market!Age, a < Lifetime,
         r.calm => sandbox = Lifetime /\ o \in Market!Real
  PROVE  Market!Told(r, o, a) \in Serving /\ Sound(Market!Told(r, o, a))
<1> DEFINE told == [r EXCEPT !.pc = "told", !.looked = 0, !.origin = o, !.read = a]
           book == IF mode = "PAPER" /\ client = "ready" THEN "PAPER" ELSE "DEMO"
           filled == [told EXCEPT !.pc = "filled", !.label = Market!Label(o), !.book = book]
<1>1. Market!Told(r, o, a) \in {told, Market!Sized(r), Market!Idle, filled}
  BY DEF Market!Told, Serving
<1>2. told \in Serving /\ Sound(told)
  <2>1. told \in Serving
    <3>1. 0 \in Market!Age
      BY DEF Lasting, Market!Age
    <3> QED
      BY <3>1 DEF Serving
  <2>2. /\ told.pc = "told" /\ told.wanted = r.wanted /\ told.origin = o
        /\ told.read = a /\ told.calm = r.calm
    BY DEF Serving
  <2> HIDE DEF told
  <2> QED
    BY <2>1, <2>2 DEF Sound
<1>3. Market!Label(o) \in {"live_ltp", "sandbox_quote", "choice_chart_data",
                    "holdings_snapshot", "submitted"}
  BY DEF Market!Label
<1>4. mode = "PAPER" /\ client = "ready" /\ o \in Market!Real =>
        (Market!Label(o) = "live_ltp" <=> o = "touchline")
  BY DEF Market!Label, Market!UsesBrokerData, Market!Real
<1>5. filled \in Serving
  <2> HIDE DEF told
  <2>1. told \in Serving /\ book \in {"", "PAPER", "DEMO"}
    BY <1>2
  <2> HIDE DEF book
  <2> DEFINE label == Market!Label(o)
  <2>2. label \in {"live_ltp", "sandbox_quote", "choice_chart_data",
                   "holdings_snapshot", "submitted"}
    BY <1>3
  <2> HIDE DEF label
  <2>3. \A x \in Serving : [x EXCEPT !.pc = "filled"] \in Serving
    BY ZenonT(60) DEF Serving
  <2>4. \A x \in Serving : [x EXCEPT !.label = label] \in Serving
    BY <2>2 DEF Serving
  <2>5. \A x \in Serving : [x EXCEPT !.book = book] \in Serving
    BY <2>1, ZenonT(60) DEF Serving
  <2>6. filled = [[[told EXCEPT !.pc = "filled"] EXCEPT !.label = label] EXCEPT !.book = book]
    BY <2>1 DEF Serving, label
  <2> QED
    BY <2>1, <2>3, <2>4, <2>5, <2>6
<1>6. /\ filled.pc = "filled" /\ filled.wanted = r.wanted /\ filled.origin = o
      /\ filled.read = a /\ filled.calm = r.calm /\ filled.label = Market!Label(o) /\ filled.book = book
  BY DEF Serving
<1>7. Sound(filled)
  <2> HIDE DEF filled
  <2> QED
    BY <1>4, <1>6 DEF Sound
<1>8. Market!Sized(r) \in Serving /\ Sound(Market!Sized(r))
  BY AskedSound
<1> HIDE DEF told, filled
<1> QED
  BY <1>1, <1>2, <1>5, <1>7, <1>8, Nothing

-----------------------------------------------------------------------------
(* At first the cache is empty and no thread serves a request.             *)
LEMMA InitQuotes == ASSUME Lasting PROVE Market!Init => QuoteInv
<1>1. 0 \in Market!Age /\ Lifetime \in Market!Age
  BY DEF Lasting, Market!Age
<1> QED
  BY <1>1, Nothing DEF Market!Init, QuoteInv, QuoteTypes

(* A sandbox is started: what is real stays, what was calm is not.         *)
LEMMA StepDemo == ASSUME Lasting, QuoteInv, Market!StartDemo PROVE QuoteInv'
<1>1. /\ mode' = "DEMO" /\ client' = "no" /\ sandbox' = 0 /\ cache' = cache
      /\ req' = [t \in Reader |-> [req[t] EXCEPT !.calm = FALSE]]
  BY DEF Market!StartDemo, Market!NotCalm
<1>2. 0 \in Market!Age /\ Market!Age \subseteq Nat
  BY DEF Lasting, Market!Age
<1>3. ASSUME NEW t \in Reader PROVE req'[t] \in Serving /\ Sound(req[t])'
  <2>1. req[t] \in Serving /\ Sound(req[t]) /\ req'[t] = [req[t] EXCEPT !.calm = FALSE]
    BY <1>1 DEF QuoteInv, QuoteTypes
  <2>2. /\ req'[t] \in Serving /\ req'[t].calm = FALSE
        /\ req'[t].pc = req[t].pc /\ req'[t].wanted = req[t].wanted
        /\ req'[t].read = req[t].read /\ req'[t].looked = req[t].looked
        /\ req'[t].origin = req[t].origin /\ req'[t].book = req[t].book
        /\ req'[t].label = req[t].label
    BY <2>1 DEF Serving
  <2>3. req[t].looked \in Nat
    BY <1>2, <2>1 DEF Serving
  <2> QED
    BY <1>1, <1>2, <2>1, <2>2, <2>3 DEF Sound
<1>4. ASSUME NEW w \in Wanted PROVE Kept(cache[w])'
  <2>1. Kept(cache[w]) /\ cache[w] \in Entry
    BY DEF QuoteInv, QuoteTypes
  <2> QED
    BY <1>1, <1>2, <2>1 DEF Kept, Entry
<1>5. req' \in [Reader -> Serving]
  BY <1>1, <1>3
<1> QED
  BY <1>1, <1>2, <1>3, <1>4, <1>5 DEF QuoteInv, QuoteTypes, Sound

(* A sign-in leaves what is under way, and starts no sandbox.              *)
LEMMA StepSignIn == ASSUME QuoteInv, Market!BeginSignIn \/ Market!EndSignIn PROVE QuoteInv'
<1>1. UNCHANGED <<cache, req, sandbox>>
  BY DEF Market!BeginSignIn, Market!EndSignIn
<1>2. /\ mode' \in {"DISCONNECTED", "DEMO", "PAPER", "LIVE"}
      /\ client' \in {"no", "signing", "ready"}
      /\ mode' = "DEMO" => mode = "DEMO"
  BY DEF QuoteInv, QuoteTypes, Market!BeginSignIn, Market!EndSignIn
<1> QED
  BY <1>1, <1>2 DEF QuoteInv, QuoteTypes, Kept, Sound

(* Everything that lasts ages alike.                                       *)
LEMMA StepTick == ASSUME Lasting, QuoteInv, Market!Tick PROVE QuoteInv'
<1>1. /\ UNCHANGED <<mode, client>>
      /\ cache' = [w \in Wanted |-> Market!OlderEntry(cache[w])]
      /\ req' = [t \in Reader |-> Market!OlderRequest(req[t])]
      /\ sandbox' = IF mode = "DEMO" THEN 0 ELSE Market!Older(sandbox)
  BY DEF Market!Tick
<1>2. /\ sandbox \in Market!Age /\ sandbox' \in Market!Age /\ sandbox' <= Market!Older(sandbox)
      /\ sandbox = Lifetime => sandbox' = Lifetime
      /\ Market!Age \subseteq Nat /\ Lifetime \in Nat \ {0}
  <2>1. sandbox \in Market!Age /\ (mode = "DEMO" => sandbox = 0) /\ Market!Age \subseteq Nat
    BY DEF QuoteInv, QuoteTypes, Market!Age
  <2>2. Market!Older(sandbox) \in Market!Age /\ 0 \in Market!Age /\ (sandbox = Lifetime => Market!Older(sandbox) = Lifetime)
    BY <2>1, Ages
  <2>3. CASE mode = "DEMO"
    BY <1>1, <2>1, <2>2, <2>3 DEF Lasting, Market!Age
  <2>4. CASE mode # "DEMO"
    BY <1>1, <2>1, <2>2, <2>4 DEF Lasting, Market!Age
  <2> QED
    BY <2>3, <2>4
<1>3. ASSUME NEW w \in Wanted PROVE cache'[w] \in Entry /\ Kept(cache[w])'
  <2> DEFINE c == cache[w]
  <2>1. c \in Entry /\ Kept(c) /\ cache'[w] = Market!OlderEntry(c)
    BY <1>1 DEF QuoteInv, QuoteTypes
  <2> HIDE DEF c
  <2>2. CASE Market!Older(c.at) = Lifetime
    BY <1>2, <2>1, <2>2, Nothing DEF Market!OlderEntry, Market!Expired, Kept
  <2>3. CASE Market!Older(c.at) # Lifetime
    <3>1. c.at \in Market!Age /\ c.read \in Market!Age /\ c.origin \in Market!Origin
      BY <2>1 DEF Entry
    <3>2. /\ Market!Older(c.at) \in Market!Age /\ Market!Older(c.read) \in Market!Age /\ Market!Older(c.at) < Lifetime
          /\ c.at <= Market!Older(c.at)
          /\ c.read <= c.at => Market!Older(c.read) <= Market!Older(c.at)
          /\ sandbox <= c.at => Market!Older(sandbox) <= Market!Older(c.at)
      BY <1>2, <2>3, <3>1, Ages DEF Market!Age
    <3>3. cache'[w] = [at |-> Market!Older(c.at), origin |-> c.origin, read |-> Market!Older(c.read)]
      BY <2>1, <2>3 DEF Market!OlderEntry, Entry
    <3>4. c.at < Lifetime
      BY <1>2, <3>1, <3>2 DEF Market!Age
    <3>5. Market!Older(sandbox) \in Nat
      BY <1>2, Ages
    <3> QED
      <4>1. cache'[w] \in Entry
        BY <3>1, <3>2, <3>3 DEF Entry
      <4>2. c.origin \notin Market!Real => sandbox' <= Market!Older(c.at)
        BY <1>2, <2>1, <3>2, <3>4, <3>5 DEF Kept, Market!Age
      <4> QED
        BY <2>1, <3>2, <3>3, <3>4, <4>1, <4>2 DEF Kept, c
  <2> QED
    BY <2>2, <2>3
<1>4. ASSUME NEW t \in Reader PROVE req'[t] \in Serving /\ Sound(req[t])'
  <2> DEFINE r == req[t]
             o == Market!OlderRequest(r)
  <2>1. r \in Serving /\ Sound(r) /\ req'[t] = o
    BY <1>1 DEF QuoteInv, QuoteTypes
  <2> HIDE DEF r
  <2>2. r.looked \in Market!Age /\ r.read \in Market!Age
    BY <2>1 DEF Serving
  <2>3. /\ Market!Older(r.looked) \in Market!Age /\ Market!Older(r.read) \in Market!Age /\ Market!Older(sandbox) \in Nat
        /\ r.read <= r.looked => Market!Older(r.read) <= Market!Older(r.looked)
        /\ sandbox <= r.looked => Market!Older(sandbox) <= Market!Older(r.looked)
    BY <1>2, <2>2, Ages
  <2>4. /\ o \in Serving
        /\ o.pc = r.pc /\ o.wanted = r.wanted /\ o.origin = r.origin /\ o.calm = r.calm
        /\ o.book = r.book /\ o.label = r.label
        /\ o.pc = "store" => o.looked = Market!Older(r.looked) /\ o.read = Market!Older(r.read)
        /\ o.pc # "store" => o.read = r.read
    BY <2>1, <2>3 DEF Market!OlderRequest, Serving
  <2> HIDE DEF o
  <2>5. o.looked \in Nat /\ Market!Older(r.looked) \in Nat
    BY <1>2, <2>3, <2>4 DEF Serving
  <2> QED
    BY <1>2, <2>1, <2>3, <2>4, <2>5 DEF Sound
<1>5. cache' \in [Wanted -> Entry] /\ req' \in [Reader -> Serving]
  BY <1>1, <1>3, <1>4
<1> QED
  BY <1>1, <1>2, <1>3, <1>4, <1>5 DEF QuoteInv, QuoteTypes

(* A new request, for quotes or to place an order.                         *)
LEMMA StepNew ==
  ASSUME Lasting, QuoteInv, NEW t \in Reader, NEW w \in Wanted,
         Market!GetQuotes(t, w) \/ \E form \in BOOLEAN : Market!PlaceOrder(t, w, form)
  PROVE  QuoteInv'
<1>1. CASE Market!GetQuotes(t, w)
  <2> DEFINE r == [Market!Asked(Market!Idle) EXCEPT !.wanted = w]
  <2>1. r \in Serving
    <3>1. 0 \in Market!Age /\ "none" \in Market!Origin /\ Market!Idle \in Serving
      BY Nothing DEF Market!Origin, Lasting, Market!Age
    <3> QED
      BY <3>1 DEF Market!Asked, Serving
  <2>3. r.pc = "lookup" /\ r.wanted = w /\ r.calm = FALSE
    BY DEF Market!Asked, Market!Idle
  <2>2. Market!Step(t, r)
    BY <1>1 DEF Market!GetQuotes
  <2> HIDE DEF r
  <2>4. Sound(r)
    BY <2>3 DEF Sound
  <2> QED
    BY <2>1, <2>2, <2>4, StepKeeps
<1>2. ASSUME NEW form \in BOOLEAN, Market!PlaceOrder(t, w, form) PROVE QuoteInv'
  <2> DEFINE r == [Market!Idle EXCEPT !.wanted = w, !.form = form, !.calm = (sandbox = Lifetime)]
  <2>1. r \in Serving /\ r.wanted \in Wanted /\ (r.calm => sandbox = Lifetime)
    BY Nothing DEF Serving, Market!Idle
  <2>2. Market!Step(t, IF form THEN Market!Sized(r) ELSE [Market!Asked(r) EXCEPT !.for = "size"])
    BY <1>2 DEF Market!PlaceOrder
  <2> HIDE DEF r
  <2>3. /\ Market!Sized(r) \in Serving /\ Sound(Market!Sized(r))
        /\ [Market!Asked(r) EXCEPT !.for = "size"] \in Serving
        /\ Sound([Market!Asked(r) EXCEPT !.for = "size"])
    BY <2>1, AskedSound
  <2>4. CASE form
    BY <2>2, <2>3, <2>4, StepKeeps
  <2>5. CASE ~form
    BY <2>2, <2>3, <2>5, StepKeeps
  <2> QED
    BY <2>4, <2>5
<1> QED
  BY <1>1, <1>2

(* What is looked up in the cache in time was read in time.                *)
LEMMA StepLookup == ASSUME Lasting, QuoteInv, NEW t \in Reader, Market!Lookup(t) PROVE QuoteInv'
<1> DEFINE r == req[t]
           c == cache[r.wanted]
<1>1. /\ r \in Serving /\ Sound(r) /\ r.pc = "lookup" /\ r.wanted \in Wanted
      /\ c \in Entry /\ Kept(c) /\ sandbox \in Market!Age
      /\ IF c.at < Lifetime THEN Market!Step(t, Market!Told(r, c.origin, c.read))
         ELSE Market!Step(t, [r EXCEPT !.pc = "mode", !.looked = 0])
  BY DEF Market!Lookup, QuoteInv, QuoteTypes, Sound
<1> HIDE DEF r, c
<1>2. c.at \in 0 .. Lifetime /\ c.read \in Market!Age /\ c.read \in 0 .. Lifetime /\ c.origin \in Market!Origin
  BY <1>1 DEF Entry, Market!Age
<1>3. CASE c.at < Lifetime
  <2>1. c.read < Lifetime /\ (r.calm => sandbox = Lifetime /\ c.origin \in Market!Real)
    BY <1>1, <1>2, <1>3 DEF Kept, Sound, Lasting
  <2>2. Market!Told(r, c.origin, c.read) \in Serving /\ Sound(Market!Told(r, c.origin, c.read))
    BY <1>1, <1>2, <2>1, ToldSound
  <2> QED
    BY <1>1, <1>3, <2>2, StepKeeps
<1>4. CASE ~(c.at < Lifetime)
  <2>1. [r EXCEPT !.pc = "mode", !.looked = 0] \in Serving
    <3>1. 0 \in Market!Age
      BY DEF Lasting, Market!Age
    <3> QED
      BY <1>1, <3>1 DEF Serving
  <2>2. Sound([r EXCEPT !.pc = "mode", !.looked = 0])
    BY <1>1 DEF Serving, Sound
  <2> QED
    BY <1>1, <1>4, <2>1, <2>2, StepKeeps
<1> QED
  BY <1>3, <1>4

(* A sandbox answers for itself, and is told apart by the age it leaves.   *)
LEMMA StepReadMode == ASSUME Lasting, QuoteInv, NEW t \in Reader, Market!ReadMode(t) PROVE QuoteInv'
<1> DEFINE r == req[t]
           origin == IF r.wanted \cap fixture # {} THEN "fixture" ELSE "empty"
<1>1. /\ r \in Serving /\ Sound(r) /\ r.pc = "mode" /\ r.wanted \in Wanted
      /\ sandbox \in Market!Age /\ (mode = "DEMO" => sandbox = 0)
  BY DEF Market!ReadMode, QuoteInv, QuoteTypes, Sound
<1>2. /\ mode = "DEMO" => Market!Keep(r, origin, 0) /\ Market!Goes(t, Market!Told(r, origin, 0))
      /\ mode = "DISCONNECTED" => Market!Refused(t)
      /\ mode \notin {"DEMO", "DISCONNECTED"} => Market!Step(t, [r EXCEPT !.pc = "touchline"])
  BY DEF Market!ReadMode
<1>3. origin \in Market!Origin /\ origin # "none" /\ 0 \in Market!Age /\ r.looked \in Nat /\ 0 < Lifetime /\ Lifetime # 0
  <2>1. origin \in Market!Origin /\ origin # "none"
    BY DEF Market!Origin
  <2>2. r.looked \in Market!Age
    BY <1>1 DEF Serving
  <2> HIDE DEF origin, r
  <2> QED
    BY <2>1, <2>2, Zero
<1> HIDE DEF r, origin
<1>4. CASE mode = "DEMO"
  <2>1. ~r.calm
    BY <1>1, <1>3, <1>4 DEF Sound
  <2>2. Market!Told(r, origin, 0) \in Serving /\ Sound(Market!Told(r, origin, 0))
    BY <1>1, <1>3, <2>1, ToldSound
  <2> QED
    BY <1>1, <1>2, <1>3, <1>4, <2>2, AnswerKeeps
<1>5. CASE mode = "DISCONNECTED"
  <2>1. req[t].pc # "idle"
    BY <1>1 DEF r
  <2> QED
    BY <1>2, <1>5, <2>1, RefusedKeeps
<1>6. CASE mode \notin {"DEMO", "DISCONNECTED"}
  <2>1. [r EXCEPT !.pc = "touchline"] \in Serving
    BY <1>1 DEF Serving
  <2>2. Sound([r EXCEPT !.pc = "touchline"])
    BY <1>1 DEF Serving, Sound
  <2> QED
    BY <1>2, <1>6, <2>1, <2>2, StepKeeps
<1> QED
  BY <1>4, <1>5, <1>6

(* A source answers, the sandbox's portfolio only while it is one.         *)
LEMMA GotKeeps ==
  ASSUME Lasting, QuoteInv, NEW t \in Reader, NEW o \in Market!Real \cup {"demo holdings"},
         req[t].pc \in {"touchline", "chart", "holdings"},
         o \notin Market!Real => mode = "DEMO",
         Market!Step(t, [req[t] EXCEPT !.pc = "store", !.origin = o, !.read = 0])
  PROVE  QuoteInv'
<1> DEFINE r == req[t]
           got == [r EXCEPT !.pc = "store", !.origin = o, !.read = 0]
<1>1. /\ r \in Serving /\ Sound(r) /\ r.wanted \in Wanted /\ r.looked \in Nat
      /\ mode = "DEMO" => sandbox = 0
  <2>1. r \in Serving /\ Sound(r) /\ (mode = "DEMO" => sandbox = 0)
    BY DEF QuoteInv, QuoteTypes
  <2>2. r.looked \in Market!Age /\ r.pc # "idle"
    BY <2>1 DEF Serving
  <2> QED
    BY <2>1, <2>2, Zero DEF Sound
<1>2. 0 \in Market!Age /\ Lifetime # 0 /\ o \in Market!Origin /\ o # "none"
  BY Zero DEF Market!Origin, Market!Real
<1>3. o \notin Market!Real => sandbox = 0
  BY <1>1
<1> HIDE DEF r
<1>4. got \in Serving
  BY <1>1, <1>2 DEF Serving
<1>5. /\ got.pc = "store" /\ got.wanted = r.wanted /\ got.origin = o /\ got.read = 0
      /\ got.looked = r.looked /\ got.calm = r.calm
  BY <1>1 DEF Serving
<1>6. Market!Step(t, got)
  BY DEF r
<1> HIDE DEF got
<1>7. r.calm => sandbox = Lifetime /\ o \in Market!Real
  BY <1>1, <1>2, <1>3 DEF Sound
<1>8. Sound(got)
  <2>1. got.read <= got.looked /\ (o \notin Market!Real => sandbox <= got.looked)
    <3>1. \A a \in Nat : 0 <= a
      BY Zero
    <3>2. 0 <= got.looked
      BY <1>1, <1>5, <3>1, Zenon
    <3> QED
      BY <1>3, <1>5, <3>2, Zenon
  <2> QED
    BY <1>1, <1>2, <1>5, <1>7, <2>1 DEF Sound
<1> QED
  BY <1>4, <1>6, <1>8, StepKeeps

(* The next source is asked.                                               *)
LEMMA OnKeeps ==
  ASSUME QuoteInv, NEW t \in Reader, NEW next \in {"chart", "holdings", "refuse"},
         req[t].pc # "idle", Market!Step(t, [req[t] EXCEPT !.pc = next])
  PROVE  QuoteInv'
<1> DEFINE on == [req[t] EXCEPT !.pc = next]
<1>1. req[t] \in Serving /\ Sound(req[t])
  BY DEF QuoteInv, QuoteTypes
<1>2. on \in Serving
  BY <1>1 DEF Serving
<1>3. on.pc = next /\ on.wanted = req[t].wanted /\ on.calm = req[t].calm
  BY <1>1 DEF Serving
<1>4. Market!Step(t, on)
  OBVIOUS
<1> HIDE DEF on
<1>5. Sound(on)
  BY <1>1, <1>3 DEF Sound
<1> QED
  BY <1>2, <1>4, <1>5, StepKeeps

(* The answer goes into the cache under the stamp of its lookup.           *)
LEMMA StepStore == ASSUME Lasting, QuoteInv, NEW t \in Reader, Market!Store(t) PROVE QuoteInv'
<1> DEFINE r == req[t]
<1>1. /\ r \in Serving /\ Sound(r) /\ r.pc = "store" /\ r.wanted \in Wanted
      /\ Market!Keep(r, r.origin, r.read) /\ Market!Goes(t, Market!Told(r, r.origin, 0))
  BY DEF Market!Store, QuoteInv, QuoteTypes, Sound
<1> HIDE DEF r
<1>2. 0 \in Market!Age /\ 0 < Lifetime /\ r.origin \in Market!Origin /\ r.read \in Market!Age
  BY <1>1, Zero DEF Serving
<1>3. Market!Told(r, r.origin, 0) \in Serving /\ Sound(Market!Told(r, r.origin, 0))
  BY <1>1, <1>2, ToldSound DEF Sound
<1>4. /\ r.read <= r.looked /\ r.origin # "none"
      /\ r.origin \notin Market!Real => sandbox <= r.looked
  BY <1>1 DEF Sound
<1> QED
  BY <1>1, <1>2, <1>3, <1>4, AnswerKeeps

(* An order is routed, or a request ends.                                  *)
LEMMA StepRoute ==
  ASSUME Lasting, QuoteInv, NEW t \in Reader, Market!Route(t) \/ Market!Finish(t)
  PROVE  QuoteInv'
<1>1. req[t] \in Serving /\ Sound(req[t]) /\ req[t].pc # "idle"
  BY DEF QuoteInv, QuoteTypes, Market!Route, Market!Finish
<1>2. /\ [Market!Asked(req[t]) EXCEPT !.for = "fill"] \in Serving
      /\ Sound([Market!Asked(req[t]) EXCEPT !.for = "fill"])
  BY <1>1, AskedSound DEF Sound
<1>3. \/ Market!Step(t, [Market!Asked(req[t]) EXCEPT !.for = "fill"])
      \/ Market!Step(t, Market!Idle)
  BY DEF Market!Route, Market!Finish
<1> QED
  BY <1>2, <1>3, Nothing, StepKeeps

(* One step of the session, of time or of a thread.                        *)
LEMMA StepQuotes == ASSUME Lasting PROVE QuoteInv /\ [Market!Next]_Market!vars => QuoteInv'
<1> SUFFICES ASSUME QuoteInv, [Market!Next]_Market!vars PROVE QuoteInv'
  OBVIOUS
<1>1. CASE UNCHANGED Market!vars
  BY <1>1 DEF Market!vars, QuoteInv, QuoteTypes, Kept, Sound
<1>2. CASE Market!StartDemo
  BY <1>2, StepDemo
<1>3. CASE Market!BeginSignIn \/ Market!EndSignIn
  BY <1>3, StepSignIn
<1>4. CASE Market!Tick
  BY <1>4, StepTick
<1>5. ASSUME NEW t \in Reader, NEW w \in Wanted,
             Market!GetQuotes(t, w) \/ \E form \in BOOLEAN : Market!PlaceOrder(t, w, form)
      PROVE  QuoteInv'
  BY <1>5, StepNew
<1>6. ASSUME NEW t \in Reader, Market!Serve(t) PROVE QuoteInv'
  <2>1. CASE Market!Lookup(t)
    BY <2>1, StepLookup
  <2>2. CASE Market!ReadMode(t)
    BY <2>2, StepReadMode
  <2>3. CASE Market!AskTouchline(t)
    BY <2>3, GotKeeps, OnKeeps DEF Market!AskTouchline, Market!From, Market!Real
  <2>4. CASE Market!AskChart(t)
    BY <2>4, GotKeeps, OnKeeps DEF Market!AskChart, Market!From, Market!Real
  <2>5. CASE Market!AskHoldings(t)
    <3>1. /\ Market!Portfolio.origin \in Market!Real \cup {"demo holdings"}
          /\ Market!Portfolio.origin \notin Market!Real => mode = "DEMO"
      BY DEF Market!Portfolio, Market!Real
    <3>2. /\ req[t].pc = "holdings"
          /\ \/ Market!Step(t, [req[t] EXCEPT !.pc = "store", !.origin = Market!Portfolio.origin, !.read = 0])
             \/ Market!Step(t, [req[t] EXCEPT !.pc = "refuse"])
      BY <2>5 DEF Market!AskHoldings, Market!From
    <3> QED
      BY <3>1, <3>2, GotKeeps, OnKeeps
  <2>6. CASE Market!Refuse(t)
    BY <2>6, RefusedKeeps DEF Market!Refuse
  <2>7. CASE Market!Store(t)
    BY <2>7, StepStore
  <2>8. CASE Market!Route(t) \/ Market!Finish(t)
    BY <2>8, StepRoute
  <2> QED
    BY <1>6, <2>1, <2>2, <2>3, <2>4, <2>5, <2>6, <2>7, <2>8 DEF Market!Serve
<1> QED
  BY <1>1, <1>2, <1>3, <1>4, <1>5, <1>6 DEF Market!Next

(* For any instruments, threads and lifetime of the cache: nobody is told  *)
(* a price that was read a lifetime or longer before he asked.             *)
THEOREM QuotesFresh == Market!Spec => []NoStaleQuote
<1>1. QuoteInv => NoStaleQuote
  BY DEF QuoteInv, Sound, NoStaleQuote, Market!NoStaleQuote
<1> QED
  BY <1>1, InitQuotes, StepQuotes, QuotesAssumption, PTL DEF Market!Spec

(* A paper order that was placed a lifetime after the session last was a   *)
(* sandbox is filled at a price Choice reported, labelled as such.         *)
THEOREM FillsReal == Market!Spec => []RealPriceOrNone
<1>1. QuoteInv => RealPriceOrNone
  BY DEF QuoteInv, Sound, RealPriceOrNone, Market!RealPriceOrNone
<1> QED
  BY <1>1, InitQuotes, StepQuotes, QuotesAssumption, PTL DEF Market!Spec

-----------------------------------------------------------------------------
(***************************************************************************)
(* The instruments behind the symbols (Catalogue), for any lists of        *)
(* instruments, threads and changes of the session.  The invariant says of *)
(* a request that has its segment and token whose they can be (Placed),    *)
(* and that a request under way in a sandbox knows it.                     *)
(***************************************************************************)
Lots == {row.lot : row \in Listed \cup Known} \cup {Names!None, 1}
Places == (Names!Segment \cup {Names!None, 1}) \X (Names!Token \cup {Names!None})
Asked ==
  [pc : {"idle", "resolve", "master", "fallback", "mode", "chart", "yahoo", "run",
         "load", "details", "lot"},
   symbol : Names!Symbol \cup {"none"}, segment : Names!Segment \cup {Names!None}, token : Names!Token \cup {Names!None},
   at : Places,
   by : {"none", "token", "known", "demo", "complete", "partial", "fallback"},
   source : {"none", "SANDBOX_SYNTHETIC", "CHOICE_OPENAPI", "YFINANCE"},
   of : Names!Symbol \cup {"none", "nobody", "stranger"}, lot : Lots, sandbox : BOOLEAN]

\* A master is part of the list, and all of it once it is loaded.
Master == [rows : SUBSET Listed, loaded : BOOLEAN]
Read(m) == m \in Master /\ (m.loaded => m.rows = Listed)

\* Where the property lets a request have another instrument.
Excused(r) ==
  \/ r.by = "token"
  \/ r.segment = Names!None /\ (r.by = "partial" \/ ~Names!HasCash(r.symbol))

\* What is listed where the request has been sent is the symbol it asked for.
Placed(r) ==
  Excused(r) \/ \A row \in Listed : Names!Place(row) = r.at => row.symbol = r.symbol

\* A request that has run, or has its lot, as InstrumentsAreTrue wants it.
RanTrue(r) ==
  /\ r.source = "SANDBOX_SYNTHETIC" => r.sandbox
  /\ \/ r.source = "SANDBOX_SYNTHETIC"
     \/ r.of = r.symbol
     \/ r.source = "YFINANCE" /\ r.at[1] \notin Names!Suffixed
     \/ Excused(r)
LotTrue(r) ==
  r.lot # Names!None /\ ~r.sandbox =>
    \E row \in Listed : row.token = r.token /\ r.lot = IF row.lot = Names!None THEN 1 ELSE row.lot

Fine(r) ==
  /\ r.pc \in {"mode", "chart", "yahoo"} => Placed(r)
  /\ r.pc = "run" => RanTrue(r)
  /\ r.pc = "lot" => LotTrue(r)

CatalogueInv ==
  /\ Read(master)
  /\ question \in [Searcher -> Asked]
  /\ \A t \in Searcher : Fine(question[t])
  /\ session = "DEMO" => \A t \in Searcher : question[t].pc # "idle" => question[t].sandbox
-----------------------------------------------------------------------------
(* Some score is the lowest.                                               *)
LEMMA SmallestScore ==
  ASSUME NEW S, S \subseteq 0 .. 7, S # {}
  PROVE  \E n \in S : \A m \in S : n <= m
<1>1. \A n \in S : n \in {0, 1, 2, 3, 4, 5, 6, 7}
  OBVIOUS
<1>2. CASE 0 \in S
  BY <1>1, <1>2
<1>3. CASE 0 \notin S /\ 1 \in S
  BY <1>1, <1>3
<1>4. CASE {0, 1} \cap S = {} /\ 2 \in S
  BY <1>1, <1>4
<1>5. CASE {0, 1, 2} \cap S = {} /\ 3 \in S
  BY <1>1, <1>5
<1>6. CASE {0, 1, 2, 3} \cap S = {} /\ 4 \in S
  BY <1>1, <1>6
<1>7. CASE {0, 1, 2, 3, 4} \cap S = {} /\ 5 \in S
  BY <1>1, <1>7
<1>8. CASE {0, 1, 2, 3, 4, 5} \cap S = {}
  <2>1. \A n \in S : n \in {6, 7}
    BY <1>1, <1>8
  <2>2. CASE 6 \in S
    BY <2>1, <2>2
  <2>3. CASE 6 \notin S
    <3>1. \A n \in S : n = 7
      BY <2>1, <2>3
    <3>2. PICK n \in S : TRUE
      OBVIOUS
    <3> QED
      BY <3>1, <3>2
  <2> QED
    BY <2>2, <2>3
<1> QED
  BY <1>2, <1>3, <1>4, <1>5, <1>6, <1>7, <1>8

(* A row is picked among those there are, and none is preferable to it.    *)
LEMMA PickIs ==
  ASSUME NEW rows, rows # {}
  PROVE  /\ Names!PickTradable(rows) \in rows
         /\ \A other \in rows : Names!Score(Names!PickTradable(rows)) <= Names!Score(other)
<1>1. \A row : Names!Score(row) \in 0 .. 7
  BY DEF Names!Score
<1>2. \E best \in rows : \A other \in rows : Names!Score(best) <= Names!Score(other)
  <2> DEFINE scores == {Names!Score(row) : row \in rows}
  <2>1. scores \subseteq 0 .. 7 /\ scores # {}
    BY <1>1
  <2> HIDE DEF scores
  <2>2. PICK n \in scores : \A m \in scores : n <= m
    BY <2>1, SmallestScore
  <2> QED
    BY <2>2 DEF scores
<1> HIDE DEF Names!Score
<1> QED
  BY <1>2 DEF Names!PickTradable

(* With a cash row to choose from, the choice is a row of the cash segment.*)
LEMMA CashIsPicked ==
  ASSUME NEW rows, NEW cash \in rows, cash.segment = 1
  PROVE  Names!PickTradable(rows) \in rows /\ Names!PickTradable(rows).segment = 1
<1>1. /\ Names!PickTradable(rows) \in rows
      /\ Names!Score(Names!PickTradable(rows)) <= Names!Score(cash)
  BY PickIs
<1>2. Names!Score(cash) <= 3
  BY DEF Names!Score
<1>3. \A row : row.segment # 1 => Names!Score(row) >= 4
  BY DEF Names!Score
<1>4. \A row : Names!Score(row) \in 0 .. 7
  BY DEF Names!Score
<1> HIDE DEF Names!Score
<1>5. Names!Score(Names!PickTradable(rows)) <= 3
  BY <1>1, <1>2, <1>4
<1> QED
  BY <1>1, <1>3, <1>4, <1>5

(* An idle thread is within the invariant.                                 *)
LEMMA IdleFine == Names!Idle \in Asked /\ Fine(Names!Idle) /\ Names!Idle.pc = "idle"
  BY DEF Names!Idle, Asked, Places, Lots, Fine

(* A step of a thread, which may read the master.                          *)
LEMMA StepKeepsNames ==
  ASSUME CatalogueInv, NEW t \in Searcher, NEW r \in Asked, Fine(r),
         session = "DEMO" /\ r.pc # "idle" => r.sandbox,
         Names!Step(t, r), Names!Session, Read(master')
  PROVE  CatalogueInv'
<1>1. question' = [question EXCEPT ![t] = r] /\ UNCHANGED <<session, sdk, sessions>>
  BY DEF Names!Step, Names!Session
<1>2. \A s \in Searcher : Fine(question'[s]) /\ (session = "DEMO" /\ question'[s].pc # "idle" => question'[s].sandbox)
  BY <1>1 DEF CatalogueInv
<1>3. question' \in [Searcher -> Asked]
  BY <1>1 DEF CatalogueInv
<1> QED
  BY <1>1, <1>2, <1>3 DEF CatalogueInv

(* The same of a step that leaves the master alone.                        *)
LEMMA GivesKeeps ==
  ASSUME CatalogueInv, NEW t \in Searcher, NEW r \in Asked, Fine(r),
         session = "DEMO" /\ r.pc # "idle" => r.sandbox, Names!Gives(t, r), Names!Session
  PROVE  CatalogueInv'
<1>1. Read(master')
  BY DEF Names!Gives, CatalogueInv, Read
<1> QED
  BY <1>1, StepKeepsNames DEF Names!Gives

(* A refusal leaves the thread idle.                                       *)
LEMMA RefusedKeepsNames ==
  ASSUME CatalogueInv, NEW t \in Searcher, Names!Refused(t), Names!Session
  PROVE  CatalogueInv'
  BY GivesKeeps, IdleFine DEF Names!Refused

(* What a load may leave is a part of the list, all of it if it is loaded. *)
LEMMA LoadedReads ==
  ASSUME CatalogueInv
  PROVE  \A m \in Names!EnsureLoaded : Read(m)
<1>1. Read(master)
  BY DEF CatalogueInv
<1>2. ASSUME NEW m \in Names!Fetched PROVE Read(m)
  <2>1. CASE m = [rows |-> Listed, loaded |-> TRUE]
    BY <2>1 DEF Read, Master
  <2>2. ASSUME NEW read \in SUBSET Listed, m = [rows |-> master.rows \cup read, loaded |-> FALSE]
        PROVE  Read(m)
    BY <1>1, <2>2 DEF Read, Master
  <2> QED
    BY <2>1, <2>2 DEF Names!Fetched
<1> QED
  BY <1>1, <1>2 DEF Names!EnsureLoaded

(* A request that has got its segment and token.                           *)
LEMMA FoundFine ==
  ASSUME NEW r \in Asked, NEW by \in {"token", "known", "demo", "complete", "partial", "fallback"},
         NEW at \in Places,
         \/ by = "token"
         \/ r.segment = Names!None /\ (by = "partial" \/ ~Names!HasCash(r.symbol))
         \/ \A row \in Listed : Names!Place(row) = at => row.symbol = r.symbol
  PROVE  /\ Names!Found(r, by, at) \in Asked /\ Fine(Names!Found(r, by, at))
         /\ Names!Found(r, by, at).pc = "mode" /\ Names!Found(r, by, at).sandbox = r.sandbox
<1> DEFINE found == Names!Found(r, by, at)
<1>1. found \in Asked
  BY ZenonT(30) DEF Names!Found, Asked
<1>2. /\ found.pc = "mode" /\ found.by = by /\ found.at = at /\ found.segment = r.segment
      /\ found.symbol = r.symbol /\ found.sandbox = r.sandbox
  BY DEF Names!Found, Asked
<1> HIDE DEF found
<1>3. Fine(found)
  BY <1>2 DEF Fine, Placed, Excused
<1> QED
  BY <1>1, <1>2, <1>3 DEF found

(* The place of a known or listed row is its own.                          *)
LEMMA OwnPlace ==
  ASSUME Unambiguous, NEW other \in Listed \cup Known
  PROVE  /\ Names!Place(other) \in Places
         /\ \A row \in Listed : Names!Place(row) = Names!Place(other) => row.symbol = other.symbol
  BY DEF Unambiguous, Names!Place, Places, Names!Segment, Names!Token
-----------------------------------------------------------------------------
(* Nobody asks at first, and nothing has been read.                        *)
LEMMA InitCatalogue == Names!Init => CatalogueInv
<1> SUFFICES ASSUME Names!Init PROVE CatalogueInv
  OBVIOUS
<1>1. Read(master)
  BY DEF Names!Init, Names!Unread, Read, Master
<1> QED
  BY <1>1, IdleFine DEF Names!Init, CatalogueInv

(* A sandbox is started or a sign-in begins: the next master is unread, and *)
(* a request under way is told of the sandbox.                             *)
LEMMA StepSession ==
  ASSUME CatalogueInv, Names!StartDemo \/ Names!BeginSignIn \/ Names!EndSignIn
  PROVE  CatalogueInv'
<1>1. Read(master')
  <2>1. Read(master) /\ Read(Names!Unread)
    BY DEF CatalogueInv, Read, Names!Unread, Master
  <2>2. master' \in {master, Names!Unread}
    BY DEF Names!StartDemo, Names!BeginSignIn, Names!EndSignIn
  <2> QED
    BY <2>1, <2>2 DEF Read
<1>2. CASE Names!StartDemo
  <2>1. question' = [t \in Searcher |-> [question[t] EXCEPT !.sandbox = TRUE]]
    BY <1>2 DEF Names!StartDemo
  <2>2. ASSUME NEW t \in Searcher
        PROVE  question'[t] \in Asked /\ Fine(question'[t]) /\ question'[t].sandbox
    <3>1. question[t] \in Asked /\ Fine(question[t]) /\ question'[t] = [question[t] EXCEPT !.sandbox = TRUE]
      BY <2>1 DEF CatalogueInv
    <3>2. /\ question'[t] \in Asked /\ question'[t].sandbox
          /\ question'[t].pc = question[t].pc /\ question'[t].symbol = question[t].symbol
          /\ question'[t].segment = question[t].segment /\ question'[t].token = question[t].token
          /\ question'[t].at = question[t].at /\ question'[t].by = question[t].by /\ question'[t].source = question[t].source
          /\ question'[t].of = question[t].of /\ question'[t].lot = question[t].lot
      BY <3>1 DEF Asked
    <3> QED
      BY <3>1, <3>2 DEF Fine, Placed, RanTrue, LotTrue, Excused
  <2>3. question' \in [Searcher -> Asked]
    BY <2>1, <2>2
  <2> QED
    BY <1>1, <2>2, <2>3 DEF CatalogueInv
<1>3. CASE Names!BeginSignIn \/ Names!EndSignIn
  <2>1. question' = question /\ (session' = "DEMO" => session = "DEMO")
    BY <1>3 DEF Names!BeginSignIn, Names!EndSignIn
  <2> QED
    BY <1>1, <2>1 DEF CatalogueInv
<1> QED
  BY <1>2, <1>3

(* A new request knows whether it starts in a sandbox.                     *)
LEMMA StepAsk ==
  ASSUME CatalogueInv, NEW t \in Searcher,
         \/ \E symbol \in Names!Symbol, segment \in Names!Segment \cup {Names!None}, token \in Names!Token \cup {Names!None} :
              Names!AskHistory(t, symbol, segment, token)
         \/ \E token \in Names!Token : Names!AskLot(t, token)
  PROVE  CatalogueInv'
<1>1. ASSUME NEW symbol \in Names!Symbol, NEW segment \in Names!Segment \cup {Names!None},
             NEW token \in Names!Token \cup {Names!None}, Names!AskHistory(t, symbol, segment, token)
      PROVE  CatalogueInv'
  <2> DEFINE r == [Names!Idle EXCEPT !.pc = "resolve", !.symbol = symbol, !.segment = segment,
                               !.token = token, !.sandbox = (session = "DEMO")]
  <2>1. r \in Asked /\ r.pc = "resolve" /\ r.sandbox = (session = "DEMO")
    BY IdleFine DEF Asked, Names!Idle
  <2>2. Names!Gives(t, r) /\ Names!Session
    BY <1>1 DEF Names!AskHistory
  <2> HIDE DEF r
  <2> QED
    BY <2>1, <2>2, GivesKeeps DEF Fine
<1>2. ASSUME NEW token \in Names!Token, Names!AskLot(t, token) PROVE CatalogueInv'
  <2> DEFINE r == [Names!Idle EXCEPT !.pc = "load", !.token = token, !.sandbox = (session = "DEMO")]
  <2>1. r \in Asked /\ r.pc = "load" /\ r.sandbox = (session = "DEMO")
    BY IdleFine DEF Asked, Names!Idle
  <2>2. Names!Gives(t, r) /\ Names!Session
    BY <1>2 DEF Names!AskLot
  <2> HIDE DEF r
  <2> QED
    BY <2>1, <2>2, GivesKeeps DEF Fine
<1> QED
  BY <1>1, <1>2

-----------------------------------------------------------------------------
(* The steps of a request.  What it is at the start of each of them.       *)
LEMMA Under ==
  ASSUME CatalogueInv, NEW t \in Searcher
  PROVE  /\ question[t] \in Asked /\ Fine(question[t])
         /\ session = "DEMO" /\ question[t].pc # "idle" => question[t].sandbox
  BY DEF CatalogueInv

(* A token that was given, or a known symbol in its segment.               *)
LEMMA StepResolve ==
  ASSUME Unambiguous, CatalogueInv, NEW t \in Searcher, Names!Resolve(t)
  PROVE  CatalogueInv'
<1> DEFINE r == question[t]
           known == {row \in Names!KnownAs(r.symbol) : session = "DEMO" \/ r.segment \in {Names!None, row.segment}}
<1>1. /\ r \in Asked /\ (session = "DEMO" => r.sandbox) /\ r.pc = "resolve" /\ Names!Session
      /\ \/ r.token # Names!None /\ Names!Gives(t, Names!Found(r, "token", Names!Segmented(r, r.token)))
         \/ \E row \in known :
              Names!Gives(t, Names!Found(r, IF session = "DEMO" THEN "demo" ELSE "known", Names!Place(row)))
         \/ Names!Gives(t, [r EXCEPT !.pc = "master"])
  BY Under DEF Names!Resolve
<1> HIDE DEF r
<1>2. CASE Names!Gives(t, Names!Found(r, "token", Names!Segmented(r, r.token)))
  <2>1. Names!Segmented(r, r.token) \in Places
    BY <1>1 DEF Names!Segmented, Places, Asked
  <2>2. /\ Names!Found(r, "token", Names!Segmented(r, r.token)) \in Asked
        /\ Fine(Names!Found(r, "token", Names!Segmented(r, r.token)))
        /\ Names!Found(r, "token", Names!Segmented(r, r.token)).sandbox = r.sandbox
    BY <1>1, <2>1, FoundFine
  <2> QED
    BY <1>1, <1>2, <2>2, GivesKeeps
<1>3. ASSUME NEW row \in known,
             Names!Gives(t, Names!Found(r, IF session = "DEMO" THEN "demo" ELSE "known", Names!Place(row)))
      PROVE  CatalogueInv'
  <2> DEFINE by == IF session = "DEMO" THEN "demo" ELSE "known"
  <2>1. row \in Known /\ row.symbol = r.symbol
    BY DEF Names!KnownAs
  <2>2. /\ by \in {"token", "known", "demo", "complete", "partial", "fallback"}
        /\ Names!Gives(t, Names!Found(r, by, Names!Place(row)))
    BY <1>3
  <2> HIDE DEF by
  <2>3. /\ Names!Found(r, by, Names!Place(row)) \in Asked /\ Fine(Names!Found(r, by, Names!Place(row)))
        /\ Names!Found(r, by, Names!Place(row)).sandbox = r.sandbox
    BY <1>1, <2>1, <2>2, OwnPlace, FoundFine
  <2> QED
    BY <1>1, <2>2, <2>3, GivesKeeps
<1>4. CASE Names!Gives(t, [r EXCEPT !.pc = "master"])
  <2>1. /\ [r EXCEPT !.pc = "master"] \in Asked /\ Fine([r EXCEPT !.pc = "master"])
        /\ [r EXCEPT !.pc = "master"].sandbox = r.sandbox
    BY <1>1 DEF Asked, Fine
  <2> QED
    BY <1>1, <1>4, <2>1, GivesKeeps
<1> QED
  BY <1>1, <1>2, <1>3, <1>4

(* The master gives the token of a row of the symbol in the segment asked  *)
(* for, or of the cash row if there is one and the master is complete.     *)
LEMMA MasterFinds ==
  ASSUME Unambiguous, NEW r \in Asked, NEW m, Read(m), NEW token \in Names!GetToken(m, r)
  PROVE  /\ Names!Segmented(r, token) \in Places
         /\ \/ r.segment = Names!None /\ (~m.loaded \/ ~Names!HasCash(r.symbol))
            \/ \A row \in Listed : Names!Place(row) = Names!Segmented(r, token) => row.symbol = r.symbol
<1>1. m.rows \subseteq Listed /\ (m.loaded => m.rows = Listed)
  BY DEF Read, Master
<1>2. CASE r.segment # Names!None
  <2>1. PICK found \in Names!Matches(m, r) : token = found.token
    BY <1>2 DEF Names!GetToken
  <2>2. found \in Listed /\ found.symbol = r.symbol /\ found.segment = r.segment
    BY <1>1, <1>2, <2>1 DEF Names!Matches
  <2>3. Names!Segmented(r, token) = Names!Place(found)
    BY <1>2, <2>1, <2>2 DEF Names!Segmented, Names!Place
  <2> QED
    BY <2>2, <2>3, OwnPlace
<1>3. CASE r.segment = Names!None
  <2> DEFINE rows == Names!Matches(m, r)
             pick == Names!PickTradable(rows)
  <2>1. rows # {} /\ token = pick.token
    BY <1>3 DEF Names!GetToken
  <2>2. \A row \in rows : row \in m.rows /\ row.symbol = r.symbol
    BY DEF Names!Matches
  <2>3. pick \in rows
    BY <2>1, PickIs
  <2>4. pick \in Listed /\ pick.symbol = r.symbol
    BY <1>1, <2>2, <2>3
  <2>5. Names!Segmented(r, token) = <<1, pick.token>>
    BY <1>3, <2>1 DEF Names!Segmented
  <2>6. Names!Segmented(r, token) \in Places
    BY <2>4, <2>5 DEF Places, Names!Token
  <2>7. ASSUME m.loaded, Names!HasCash(r.symbol)
        PROVE  \A row \in Listed : Names!Place(row) = Names!Segmented(r, token) => row.symbol = r.symbol
    <3>1. PICK cash \in Listed : cash.symbol = r.symbol /\ cash.segment = 1
      BY <2>7 DEF Names!HasCash
    <3>2. cash \in rows
      BY <1>1, <1>3, <2>7, <3>1 DEF Names!Matches
    <3> HIDE DEF rows
    <3>3. pick.segment = 1
      BY <3>1, <3>2, CashIsPicked
    <3>4. Names!Segmented(r, token) = Names!Place(pick)
      BY <2>5, <3>3 DEF Names!Place
    <3> HIDE DEF pick
    <3> QED
      BY <2>4, <3>4, OwnPlace
  <2> QED
    BY <1>3, <2>6, <2>7
<1> QED
  BY <1>2, <1>3

(* The token of the master, or on without one.                             *)
LEMMA StepMaster ==
  ASSUME Unambiguous, CatalogueInv, NEW t \in Searcher, Names!AskMaster(t)
  PROVE  CatalogueInv'
<1> DEFINE r == question[t]
           back == [r EXCEPT !.pc = "fallback"]
           By(m) == IF m.loaded THEN "complete" ELSE "partial"
<1>1. r \in Asked /\ (session = "DEMO" => r.sandbox) /\ r.pc = "master" /\ Names!Session
  BY Under DEF Names!AskMaster
<1>2. \/ Names!Gives(t, back)
      \/ \E m \in Names!EnsureLoaded :
           /\ master' = m
           /\ Names!Step(t, back) \/ \E token \in Names!GetToken(m, r) :
                                Names!Step(t, Names!Found(r, By(m), Names!Segmented(r, token)))
  BY DEF Names!AskMaster
<1> HIDE DEF r
<1>3. back \in Asked /\ Fine(back) /\ back.sandbox = r.sandbox
  BY <1>1 DEF Asked, Fine
<1> HIDE DEF back
<1>4. CASE Names!Gives(t, back)
  BY <1>1, <1>3, <1>4, GivesKeeps
<1>5. ASSUME NEW m \in Names!EnsureLoaded, master' = m,
             Names!Step(t, back) \/ \E token \in Names!GetToken(m, r) :
                                Names!Step(t, Names!Found(r, By(m), Names!Segmented(r, token)))
      PROVE  CatalogueInv'
  <2>1. Read(m) /\ Read(master')
    BY <1>5, LoadedReads
  <2>2. CASE Names!Step(t, back)
    BY <1>1, <1>3, <2>1, <2>2, StepKeepsNames
  <2>3. ASSUME NEW token \in Names!GetToken(m, r), Names!Step(t, Names!Found(r, By(m), Names!Segmented(r, token)))
        PROVE  CatalogueInv'
    <3> DEFINE by == By(m)
               at == Names!Segmented(r, token)
               f == Names!Found(r, by, at)
    <3>1. by \in {"complete", "partial"} /\ (~m.loaded => by = "partial")
      OBVIOUS
    <3>2. at \in Places
      BY <1>1, <2>1, MasterFinds
    <3>3. \/ r.segment = Names!None /\ (by = "partial" \/ ~Names!HasCash(r.symbol))
          \/ \A row \in Listed : Names!Place(row) = at => row.symbol = r.symbol
      BY <1>1, <2>1, <3>1, MasterFinds
    <3> HIDE DEF by, at
    <3>4. f \in Asked /\ Fine(f) /\ f.sandbox = r.sandbox
      BY <1>1, <3>1, <3>2, <3>3, FoundFine
    <3>5. Names!Step(t, f)
      BY <2>3 DEF by, at
    <3> HIDE DEF f
    <3> QED
      BY <1>1, <2>1, <3>4, <3>5, StepKeepsNames
  <2> QED
    BY <1>5, <2>2, <2>3
<1> QED
  BY <1>2, <1>4, <1>5

(* A known symbol in whatever segment it has.                              *)
LEMMA StepFallback ==
  ASSUME Unambiguous, CatalogueInv, NEW t \in Searcher, Names!Fallback(t)
  PROVE  CatalogueInv'
<1> DEFINE r == question[t]
<1>1. /\ r \in Asked /\ (session = "DEMO" => r.sandbox) /\ r.pc = "fallback" /\ Names!Session
      /\ \/ \E row \in Names!KnownAs(r.symbol) : Names!Gives(t, Names!Found(r, "fallback", Names!Place(row)))
         \/ Names!Refused(t)
  BY Under DEF Names!Fallback
<1> HIDE DEF r
<1>2. CASE Names!Refused(t)
  BY <1>1, <1>2, RefusedKeepsNames
<1>3. ASSUME NEW row \in Names!KnownAs(r.symbol), Names!Gives(t, Names!Found(r, "fallback", Names!Place(row)))
      PROVE  CatalogueInv'
  <2>1. row \in Known /\ row.symbol = r.symbol
    BY DEF Names!KnownAs
  <2>2. /\ Names!Found(r, "fallback", Names!Place(row)) \in Asked /\ Fine(Names!Found(r, "fallback", Names!Place(row)))
        /\ Names!Found(r, "fallback", Names!Place(row)).sandbox = r.sandbox
    BY <1>1, <2>1, OwnPlace, FoundFine
  <2> QED
    BY <1>1, <1>3, <2>2, GivesKeeps
<1> QED
  BY <1>1, <1>2, <1>3

(* The three sources of candles.                                           *)
LEMMA CandlesFine ==
  ASSUME NEW r \in Asked, NEW source \in {"SANDBOX_SYNTHETIC", "CHOICE_OPENAPI", "YFINANCE"},
         NEW of \in Names!Symbol \cup {"none", "nobody", "stranger"},
         source = "SANDBOX_SYNTHETIC" => r.sandbox,
         \/ source = "SANDBOX_SYNTHETIC"
         \/ of = r.symbol
         \/ source = "YFINANCE" /\ r.at[1] \notin Names!Suffixed
         \/ Excused(r)
  PROVE  /\ Names!Candles(r, source, of) \in Asked /\ Fine(Names!Candles(r, source, of))
         /\ Names!Candles(r, source, of).sandbox = r.sandbox
<1> DEFINE c == Names!Candles(r, source, of)
<1>1. c \in Asked
  <2>1. [r EXCEPT !.pc = "run"] \in Asked
    BY DEF Asked
  <2>2. \A x \in Asked : [x EXCEPT !.source = source] \in Asked
    BY DEF Asked
  <2>3. \A x \in Asked : [x EXCEPT !.of = of] \in Asked
    BY DEF Asked
  <2>4. c = [[[r EXCEPT !.pc = "run"] EXCEPT !.source = source] EXCEPT !.of = of]
    BY DEF Names!Candles, Asked
  <2> QED
    BY <2>1, <2>2, <2>3, <2>4
<1>2. /\ c.pc = "run" /\ c.source = source /\ c.of = of /\ c.sandbox = r.sandbox
      /\ c.symbol = r.symbol /\ c.segment = r.segment /\ c.by = r.by /\ c.at = r.at
  BY DEF Names!Candles, Asked
<1> HIDE DEF c
<1>3. Fine(c)
  BY <1>2 DEF Fine, RanTrue, Excused
<1> QED
  BY <1>1, <1>2, <1>3 DEF c

(* The candles come from a source, or the next one is asked.               *)
LEMMA StepCandles ==
  ASSUME CatalogueInv, NEW t \in Searcher, Names!ReadMode(t) \/ Names!AskChart(t) \/ Names!AskYahoo(t)
  PROVE  CatalogueInv'
<1> DEFINE r == question[t]
<1>1. /\ r \in Asked /\ Fine(r) /\ (session = "DEMO" => r.sandbox) /\ Names!Session
      /\ r.pc \in {"mode", "chart", "yahoo"}
  BY Under DEF Names!ReadMode, Names!AskChart, Names!AskYahoo
<1>2. Placed(r)
  BY <1>1 DEF Fine
<1>3. CASE Names!Refused(t)
  BY <1>1, <1>3, RefusedKeepsNames
<1>4. ASSUME NEW pc \in {"chart", "yahoo"}, Names!Gives(t, [r EXCEPT !.pc = pc]) PROVE CatalogueInv'
  <2> DEFINE on == [r EXCEPT !.pc = pc]
  <2>1. on \in Asked
    BY <1>1 DEF Asked
  <2>2. /\ on.pc = pc /\ on.symbol = r.symbol /\ on.segment = r.segment /\ on.by = r.by
        /\ on.at = r.at /\ on.sandbox = r.sandbox
    BY <1>1 DEF Asked
  <2>3. Names!Gives(t, on)
    BY <1>4
  <2> HIDE DEF on, r
  <2>4. Fine(on)
    BY <1>2, <2>2 DEF Fine, Placed, Excused
  <2> QED
    BY <1>1, <2>1, <2>2, <2>3, <2>4, GivesKeeps
<1>5. ASSUME session = "DEMO", Names!Gives(t, Names!MadeUp(r)) PROVE CatalogueInv'
  <2>1. Names!MadeUp(r) \in Asked /\ Fine(Names!MadeUp(r)) /\ Names!MadeUp(r).sandbox = r.sandbox
    BY <1>1, <1>5, CandlesFine DEF Names!MadeUp
  <2> QED
    BY <1>1, <1>5, <2>1, GivesKeeps
<1>6. ASSUME NEW row \in Listed, Names!Place(row) = r.at,
             Names!Gives(t, Names!Candles(r, "CHOICE_OPENAPI", row.symbol))
      PROVE  CatalogueInv'
  <2>1. row.symbol \in Names!Symbol
    BY DEF Names!Symbol
  <2>2. row.symbol = r.symbol \/ Excused(r)
    BY <1>2, <1>6 DEF Placed
  <2> HIDE DEF r
  <2>3. /\ Names!Candles(r, "CHOICE_OPENAPI", row.symbol) \in Asked
        /\ Fine(Names!Candles(r, "CHOICE_OPENAPI", row.symbol))
        /\ Names!Candles(r, "CHOICE_OPENAPI", row.symbol).sandbox = r.sandbox
    BY <1>1, <2>1, <2>2, CandlesFine
  <2> QED
    BY <1>1, <1>6, <2>3, GivesKeeps
<1>7. CASE Names!Gives(t, Names!Yahoo(r))
  <2>1. Names!Yahoo(r) \in Asked /\ Fine(Names!Yahoo(r)) /\ Names!Yahoo(r).sandbox = r.sandbox
    <3> DEFINE of == IF r.at[1] \in Names!Suffixed THEN r.symbol ELSE "stranger"
    <3>1. r.symbol \in Names!Symbol \cup {"none"}
      BY <1>1 DEF Asked
    <3>2. /\ of \in Names!Symbol \cup {"none", "nobody", "stranger"}
          /\ of = r.symbol \/ r.at[1] \notin Names!Suffixed
      BY <3>1
    <3> HIDE DEF of, r
    <3> QED
      BY <1>1, <3>2, CandlesFine DEF Names!Yahoo, of
  <2> QED
    BY <1>1, <1>7, <2>1, GivesKeeps
<1>8. CASE Names!ReadMode(t)
  BY <1>3, <1>4, <1>5, <1>8 DEF Names!ReadMode
<1>9. CASE Names!AskChart(t)
  BY <1>4, <1>6, <1>9 DEF Names!AskChart
<1>10. CASE Names!AskYahoo(t)
  BY <1>3, <1>7, <1>10 DEF Names!AskYahoo
<1> QED
  BY <1>8, <1>9, <1>10
-----------------------------------------------------------------------------
(* The lot of a known token, or 1 if there is none.                        *)
LEMMA KnownLot == \A token : Names!LotOfKnown(token) \in Lots
<1> SUFFICES ASSUME NEW token PROVE Names!LotOfKnown(token) \in Lots
  OBVIOUS
<1>1. CASE \E row \in Known : row.token = token
  <2> DEFINE row == CHOOSE row \in Known : row.token = token
  <2>1. row \in Known
    BY <1>1
  <2> HIDE DEF row
  <2>2. row.lot \in Lots
    BY <2>1 DEF Lots
  <2> QED
    BY <1>1, <2>2 DEF Names!LotOfKnown, row
<1>2. CASE ~\E row \in Known : row.token = token
  BY <1>2 DEF Names!LotOfKnown, Lots
<1> QED
  BY <1>1, <1>2

(* An answered lot: none, the sandbox's, or that of a listed row.          *)
LEMMA LotFine ==
  ASSUME NEW r \in Asked, NEW lot \in Lots,
         \/ lot = Names!None
         \/ r.sandbox
         \/ \E row \in Listed :
              row.token = r.token /\ lot = IF row.lot = Names!None THEN 1 ELSE row.lot
  PROVE  LET l == [r EXCEPT !.pc = "lot", !.lot = lot]
         IN  l \in Asked /\ Fine(l) /\ l.sandbox = r.sandbox
<1> DEFINE l == [r EXCEPT !.pc = "lot", !.lot = lot]
<1>1. l \in Asked
  <2>1. [r EXCEPT !.pc = "lot"] \in Asked
    BY DEF Asked
  <2>2. \A x \in Asked : [x EXCEPT !.lot = lot] \in Asked
    BY DEF Asked
  <2>3. l = [[r EXCEPT !.pc = "lot"] EXCEPT !.lot = lot]
    BY DEF Asked
  <2> QED
    BY <2>1, <2>2, <2>3
<1>2. l.pc = "lot" /\ l.lot = lot /\ l.token = r.token /\ l.sandbox = r.sandbox
  BY DEF Asked
<1> HIDE DEF l
<1>3. Fine(l)
  BY <1>2 DEF Fine, LotTrue
<1> QED
  BY <1>1, <1>2, <1>3 DEF l

(* get_lot_size: in a sandbox, without a loaded master, or on to the row.  *)
LEMMA StepLoadLot ==
  ASSUME CatalogueInv, NEW t \in Searcher, Names!LoadLot(t)
  PROVE  CatalogueInv'
<1> DEFINE r == question[t]
           on == [r EXCEPT !.pc = "details"]
           unknown == [r EXCEPT !.pc = "lot", !.lot = Names!None]
           demo == [r EXCEPT !.pc = "lot", !.lot = Names!LotOfKnown(r.token)]
<1>1. /\ r \in Asked /\ (session = "DEMO" => r.sandbox) /\ Names!Session
      /\ \/ session = "DEMO" /\ Names!Gives(t, demo)
         \/ \E m \in Names!EnsureLoaded :
              master' = m /\ (Names!Step(t, on) \/ Names!Step(t, unknown))
         \/ Names!Refused(t)
  <2>1. r \in Asked /\ (session = "DEMO" => r.sandbox) /\ Names!Session
    BY Under DEF Names!LoadLot
  <2>2. CASE session = "DEMO"
    BY <2>1, <2>2 DEF Names!LoadLot
  <2>3. CASE session # "DEMO" /\ Names!HasClient
    BY <2>1, <2>3 DEF Names!LoadLot
  <2>4. CASE session # "DEMO" /\ ~Names!HasClient
    BY <2>1, <2>4 DEF Names!LoadLot
  <2> QED
    BY <2>2, <2>3, <2>4
<1> HIDE DEF r
<1>2. on \in Asked /\ Fine(on) /\ on.sandbox = r.sandbox
  BY <1>1 DEF Asked, Fine
<1>3. unknown \in Asked /\ Fine(unknown) /\ unknown.sandbox = r.sandbox
  <2>1. Names!None \in Lots
    BY DEF Lots
  <2> QED
    BY <1>1, <2>1, LotFine
<1>4. session = "DEMO" => demo \in Asked /\ Fine(demo) /\ demo.sandbox = r.sandbox
  BY <1>1, KnownLot, LotFine
<1> HIDE DEF on, unknown, demo
<1>5. CASE session = "DEMO" /\ Names!Gives(t, demo)
  BY <1>1, <1>4, <1>5, GivesKeeps
<1>6. ASSUME NEW m \in Names!EnsureLoaded, master' = m, Names!Step(t, on) \/ Names!Step(t, unknown)
      PROVE  CatalogueInv'
  <2>1. Read(master')
    BY <1>6, LoadedReads
  <2> QED
    BY <1>1, <1>2, <1>3, <1>6, <2>1, StepKeepsNames
<1>7. CASE Names!Refused(t)
  BY <1>1, <1>7, RefusedKeepsNames
<1> QED
  BY <1>1, <1>5, <1>6, <1>7

(* get_details: the lot of a row that has been read, and so is listed.     *)
LEMMA StepDetails ==
  ASSUME CatalogueInv, NEW t \in Searcher, Names!Details(t)
  PROVE  CatalogueInv'
<1> DEFINE r == question[t]
           answer(lot) == [r EXCEPT !.pc = "lot", !.lot = lot]
           Of(m) == {IF row.lot = Names!None THEN 1 ELSE row.lot :
                       row \in {x \in m.rows : x.token = r.token}}
<1>1. /\ r \in Asked /\ (session = "DEMO" => r.sandbox) /\ Names!Session
      /\ \/ session = "DEMO" /\ \E lot \in {Names!LotOfKnown(r.token), Names!None} : Names!Gives(t, answer(lot))
         \/ \E m \in Names!EnsureLoaded :
              master' = m /\ \E lot \in {Names!None} \cup Of(m) : Names!Step(t, answer(lot))
         \/ Names!Refused(t)
  <2>1. r \in Asked /\ (session = "DEMO" => r.sandbox) /\ Names!Session
    BY Under DEF Names!Details
  <2>2. CASE session = "DEMO"
    BY <2>1, <2>2 DEF Names!Details
  <2>3. CASE session # "DEMO" /\ Names!HasClient
    BY <2>1, <2>3 DEF Names!Details
  <2>4. CASE session # "DEMO" /\ ~Names!HasClient
    BY <2>1, <2>4 DEF Names!Details
  <2> QED
    BY <2>2, <2>3, <2>4
<1> HIDE DEF r
<1>2. Names!None \in Lots
  BY DEF Lots
<1>3. ASSUME session = "DEMO", NEW lot \in {Names!LotOfKnown(r.token), Names!None}, Names!Gives(t, answer(lot))
      PROVE  CatalogueInv'
  <2>1. lot \in Lots
    BY <1>2, KnownLot
  <2>2. answer(lot) \in Asked /\ Fine(answer(lot)) /\ answer(lot).sandbox = r.sandbox
    BY <1>1, <1>3, <2>1, LotFine
  <2> HIDE DEF answer
  <2> QED
    BY <1>1, <1>3, <2>2, GivesKeeps
<1>4. ASSUME NEW m \in Names!EnsureLoaded, master' = m,
             NEW lot \in {Names!None} \cup Of(m), Names!Step(t, answer(lot))
      PROVE  CatalogueInv'
  <2>1. Read(m) /\ Read(master')
    BY <1>4, LoadedReads
  <2>2. lot = Names!None \/ \E row \in Listed :
                        row.token = r.token /\ lot = IF row.lot = Names!None THEN 1 ELSE row.lot
    BY <2>1 DEF Read, Master
  <2>3. lot \in Lots
    BY <1>2, <2>2 DEF Lots
  <2>4. answer(lot) \in Asked /\ Fine(answer(lot)) /\ answer(lot).sandbox = r.sandbox
    BY <1>1, <2>2, <2>3, LotFine
  <2> HIDE DEF answer
  <2> QED
    BY <1>1, <1>4, <2>1, <2>4, StepKeepsNames
<1>5. CASE Names!Refused(t)
  BY <1>1, <1>5, RefusedKeepsNames
<1> QED
  BY <1>1, <1>3, <1>4, <1>5
-----------------------------------------------------------------------------
(* Every step keeps the invariant.                                         *)
LEMMA StepCatalogue ==
  ASSUME Unambiguous, CatalogueInv, [Names!Next]_Names!vars
  PROVE  CatalogueInv'
<1>1. CASE Names!StartDemo \/ Names!BeginSignIn \/ Names!EndSignIn
  BY <1>1, StepSession
<1>2. ASSUME NEW t \in Searcher,
             \/ \E symbol \in Names!Symbol, segment \in Names!Segment \cup {Names!None}, token \in Names!Token \cup {Names!None} :
                  Names!AskHistory(t, symbol, segment, token)
             \/ \E token \in Names!Token : Names!AskLot(t, token)
      PROVE  CatalogueInv'
  BY <1>2, StepAsk
<1>3. ASSUME NEW t \in Searcher, Names!Serve(t) PROVE CatalogueInv'
  <2>1. CASE Names!Resolve(t)
    BY <2>1, StepResolve
  <2>2. CASE Names!AskMaster(t)
    BY <2>2, StepMaster
  <2>3. CASE Names!Fallback(t)
    BY <2>3, StepFallback
  <2>4. CASE Names!ReadMode(t) \/ Names!AskChart(t) \/ Names!AskYahoo(t)
    BY <2>4, StepCandles
  <2>5. CASE Names!LoadLot(t)
    BY <2>5, StepLoadLot
  <2>6. CASE Names!Details(t)
    BY <2>6, StepDetails
  <2>7. CASE Names!Finish(t)
    BY <2>7, RefusedKeepsNames DEF Names!Finish
  <2> QED
    BY <1>3, <2>1, <2>2, <2>3, <2>4, <2>5, <2>6, <2>7 DEF Names!Serve
<1>4. CASE UNCHANGED Names!vars
  BY <1>4 DEF Names!vars, CatalogueInv, Read
<1> QED
  BY <1>1, <1>2, <1>3, <1>4 DEF Names!Next

(* What a request may run on, and answer with, follows from the invariant. *)
LEMMA InvIsTrue == CatalogueInv => Names!InstrumentsAreTrue
<1> SUFFICES ASSUME CatalogueInv PROVE Names!NoOtherInstrument /\ Names!LotNeverGuessed
  BY DEF Names!InstrumentsAreTrue
<1>1. ASSUME NEW t \in Searcher
      PROVE  (question[t].pc = "run" => RanTrue(question[t])) /\ (question[t].pc = "lot" => LotTrue(question[t]))
  BY DEF CatalogueInv, Fine
<1>2. Names!NoOtherInstrument
  BY <1>1 DEF Names!NoOtherInstrument, RanTrue, Excused
<1>3. Names!LotNeverGuessed
  BY <1>1 DEF Names!LotNeverGuessed, LotTrue
<1> QED
  BY <1>2, <1>3

(* A backtest by symbol runs on the prices of that symbol, with the        *)
(* exceptions the property names, and an answered lot is the lot of an     *)
(* instrument with the token: for any master, however much of it a         *)
(* download brings, any threads, and any change of the session under way   *)
(* (scrip_master.py resolve_instrument, get_lot_size; historical.py).      *)
THEOREM InstrumentsTrue ==
  Names!Spec => []InstrumentsAreTrue
<1>1. CatalogueInv /\ [Names!Next]_Names!vars => CatalogueInv'
  BY StepCatalogue, NamesAssumption
<1>2. CatalogueInv => InstrumentsAreTrue
  BY InvIsTrue DEF InstrumentsAreTrue
<1> QED
  BY <1>1, <1>2, InitCatalogue, PTL DEF Names!Spec
=============================================================================
