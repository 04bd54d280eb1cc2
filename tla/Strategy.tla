------------------------------ MODULE Strategy ------------------------------
(***************************************************************************)
(* The strategy language: engine/app/strategy_engine/dsl.py, the editor    *)
(* that stores a definition (backend/app/services/strategy_service.py) and *)
(* the two programs that read it bar by bar, the live runner (runner.py)   *)
(* and the backtest (backtest_runner.py).  Both see the same bars here, so *)
(* that what they make of them can be compared; what they do with the      *)
(* signal is in PaperRun and Backtest.                                     *)
(***************************************************************************)
EXTENDS Integers, Sequences, SequencesExt

CONSTANTS
  Definition,  \* what is typed into the editor, see below
  Identifier,  \* names of indicators that are identifiers of the language
  Bands,       \* Bands[n]: the further fields of an indicator n with bands
  Price,       \* closing prices
  Level,       \* readings of an indicator other than RSI
  Number,      \* the number conditions compare with
  MaxBars      \* bound of the model: bars both readers see

(* A definition has indicators, a function from their names to their type  *)
(* and length, nodes (a node refers to later ones only), the nodes of the  *)
(* entry and of the exit list, and the quantity.  A length is "good",      *)
(* "zero" (or another number or text that is refused) or "null".           *)

VARIABLES
  editor,    \* "empty", "refused", or "stored"
  strategy,  \* the stored definition
  bars,      \* the bars so far: how many, and the readings of the last two
  holding,   \* whether a position is open at the last bar
  live,      \* the live run: its state and its last signal
  backtest   \* the backtest: the status of its row, whether its request is
             \* being served, and its last signal

vars == <<editor, strategy, bars, holding, live, backtest>>

NaN == -1
Column == {"close", "timestamp"}
Supported == {"SMA", "RSI", "BOLLINGER", "VWAP"}
Comparisons == {"<", "!="}
CrossOperators == {"crosses_above", "crosses_below"}

(* What evaluating a condition gives: a truth value, or an exception: an   *)
(* invalid definition (a ValueError) or an operation on the wrong types.   *)
Raised == {"invalid", "type"}
Truth(b) == IF b THEN "true" ELSE "false"

(* A bar: the closing price, the reading of indicators other than RSI, and *)
(* the average gain and loss RSI is computed from (NaN while it warms up). *)
Average == {[gain |-> NaN, loss |-> NaN]} \cup [gain : {0, 1}, loss : {0, 1}]
BarOf(d) ==
  LET types == {d.indicators[n].type : n \in DOMAIN d.indicators}
      Flat == [gain |-> NaN, loss |-> NaN]
  IN  [close : Price, level : IF types = {"RSI"} THEN {NaN} ELSE Level \cup {NaN},
       average : IF "RSI" \in types THEN Average ELSE {Flat}]
NoBar == [close |-> NaN, level |-> NaN, average |-> [gain |-> NaN, loss |-> NaN]]

NoRun == [state |-> "off", signal |-> "none"]
NoTest == [status |-> "none", serving |-> FALSE, signal |-> "none"]

Init ==
  /\ editor = "empty" /\ strategy = <<>>
  /\ bars = [count |-> 0, last |-> NoBar, before |-> NoBar]
  /\ holding = FALSE /\ live = NoRun /\ backtest = NoTest

-----------------------------------------------------------------------------
(* validate: what the editor refuses.                                       *)

HasBands(cfg) == cfg.type = "BOLLINGER"
FieldsOf(d) ==
  Column \cup DOMAIN d.indicators
    \cup UNION {Bands[n] : n \in {m \in DOMAIN d.indicators : HasBands(d.indicators[m])}}

ValidIndicator(cfg) == cfg.type \in Supported

ValidLeaf(d, leaf) ==
  /\ leaf.field \in FieldsOf(d)
  /\ leaf.operator \in Comparisons \cup CrossOperators
  /\ leaf.value \in FieldsOf(d) \cup {"number", "nothing"}

\* Mutant: the conditions of a group are not looked at.
ValidNode_flat(d, node, ok) ==
  \/ node.kind = "leaf" /\ ValidLeaf(d, node)
  \/ node.kind \in {"any", "all"} /\ node.parts # <<>>
\* A node with both kinds of group, or with something that is no list of
\* conditions, is refused, and so is an empty group.
ValidNode(d, node, ok) ==
  \/ node.kind = "leaf" /\ ValidLeaf(d, node)
  \/ /\ node.kind \in {"any", "all"} /\ node.parts # <<>>
     /\ \A m \in ToSet(node.parts) : ok[m]

CheckNode(d) ==
  LET Ok[n \in 1 .. Len(d.nodes)] == ValidNode(d, d.nodes[n], Ok)
  IN  Ok

Valid(d) ==
  /\ \A n \in DOMAIN d.indicators : ValidIndicator(d.indicators[n])
  /\ d.entry # <<>> /\ d.exit # <<>>
  /\ \A n \in ToSet(d.entry) \cup ToSet(d.exit) : CheckNode(d)[n]
  /\ d.quantity > 0

-----------------------------------------------------------------------------
(* calculate_indicators, for one bar: the fields of its row.                *)

\* The three lines after the ratio, in their order; NaN differs from 0.
Rsi(a) ==
  LET ratio == IF a.loss \in {NaN, 0} THEN NaN ELSE 100 - 100 \div (1 + a.gain)
      upper == IF a.loss # 0 THEN ratio ELSE 100
      lower == IF a.gain # 0 THEN upper ELSE 0
  IN  IF a.gain # 0 \/ a.loss # 0 THEN lower ELSE 50

\* An indicator under the name of a column takes its place.
Calculated(d, bar) ==
  [f \in FieldsOf(d) |->
     IF f \in DOMAIN d.indicators /\ d.indicators[f].type = "RSI" THEN Rsi(bar.average)
     ELSE IF f \notin Column \cup DOMAIN d.indicators \/ f \in DOMAIN d.indicators THEN bar.level
     ELSE IF f = "close" THEN bar.close ELSE 0]

\* What it raises: an unknown type or a length below 1, or no number.
IndicatorError(d) ==
  IF \E n \in DOMAIN d.indicators : d.indicators[n].length = "null" THEN "type"
  ELSE IF \E n \in DOMAIN d.indicators :
            ~ValidIndicator(d.indicators[n]) \/ d.indicators[n].length = "zero"
  THEN "invalid" ELSE "none"

\* Bars built from ticks carry no volume, so a price weighted by it is NaN.
LiveRow(d, bar) ==
  LET row == Calculated(d, bar)
      weighted == {n \in DOMAIN d.indicators : d.indicators[n].type = "VWAP"}
  IN  [f \in DOMAIN row |-> IF f \in weighted THEN NaN ELSE row[f]]

\* as_series: the rows are tuples with named fields, and a field whose name
\* is no identifier gets another one and is NaN under its own.
BacktestRow(d, bar) ==
  LET row == Calculated(d, bar)
      renamed == DOMAIN d.indicators \ Identifier
  IN  [f \in DOMAIN row |-> IF f \in renamed THEN NaN ELSE row[f]]

-----------------------------------------------------------------------------
(* evaluate_condition and the groups.                                       *)

Operand(row, value) == IF value = "number" THEN Number ELSE row[value]

Ordered(leaf) == (leaf.field = "timestamp") = (leaf.value = "timestamp")

Compare(leaf, a, b) ==
  IF leaf.operator = "!=" THEN Truth(a # b \/ ~Ordered(leaf))
  ELSE IF Ordered(leaf) THEN Truth(a < b) ELSE "type"

\* A crossing needs the row before, with both sides on it; without a value
\* there is none.
Crosses(leaf, row, prev) ==
  IF prev = <<>> \/ leaf.value = "nothing" THEN "false"
  ELSE LET a == row[leaf.field]   b == Operand(row, leaf.value)
           c == prev[leaf.field]  e == Operand(prev, leaf.value)
       IN  IF c = NaN \/ e = NaN THEN "false"
           ELSE IF ~Ordered(leaf) THEN "type"
           ELSE IF leaf.operator = "crosses_above" THEN Truth(c <= e /\ a > b)
           ELSE Truth(c >= e /\ a < b)

EvaluateCondition(leaf, row, prev) ==
  IF \/ leaf.operator \notin Comparisons \cup CrossOperators
     \/ leaf.field \notin DOMAIN row
     \/ leaf.value \notin DOMAIN row \cup {"number", "nothing"} THEN "invalid"
  ELSE IF row[leaf.field] = NaN THEN "false"
  ELSE IF leaf.value = "nothing"
  THEN IF leaf.operator \in CrossOperators THEN "false"
       ELSE IF leaf.operator = "!=" THEN "true" ELSE "type"
  ELSE IF Operand(row, leaf.value) = NaN THEN "false"
  ELSE IF leaf.operator \in CrossOperators THEN Crosses(leaf, row, prev)
  ELSE Compare(leaf, row[leaf.field], Operand(row, leaf.value))

\* any and all of the language: the first result that decides, or raises.
FirstOther(results, value) ==
  LET others == {i \in DOMAIN results : results[i] # value}
  IN  IF others = {} THEN value
      ELSE results[CHOOSE i \in others : \A j \in others : i <= j]

\* An object with both kinds of group is read as "any".
NodeResult(node, of, row, prev) ==
  LET parts == [i \in DOMAIN node.parts |-> of[node.parts[i]]]
  IN  IF node.kind = "leaf" THEN EvaluateCondition(node, row, prev)
      ELSE IF node.kind \notin {"any", "all", "both"} THEN "invalid"
      ELSE IF parts = <<>> THEN "false"
      ELSE FirstOther(parts, IF node.kind = "all" THEN "true" ELSE "false")

EvaluateNode(d, row, prev) ==
  LET Of[n \in 1 .. Len(d.nodes)] == NodeResult(d.nodes[n], Of, row, prev)
  IN  Of

EvaluateAll(d, list, row, prev) ==
  LET of == EvaluateNode(d, row, prev)
  IN  IF list = <<>> THEN "false"
      ELSE FirstOther([i \in DOMAIN list |-> of[list[i]]], "true")

-----------------------------------------------------------------------------
(* The editor and the two readers.                                          *)

\* create_strategy and update_strategy: validated first, then stored.
Submit(d) ==
  /\ IF Valid(d) THEN editor' = "stored" /\ strategy' = d
     ELSE editor' = "refused" /\ UNCHANGED strategy
  /\ UNCHANGED <<bars, holding, live, backtest>>

\* A run starts; the row of a backtest is committed as running.  Indicators
\* are computed over all its bars before the first one.
Start ==
  /\ editor = "stored" /\ live.state = "off"
  /\ live' = [NoRun EXCEPT !.state = "running"]
  /\ backtest' =
       CASE IndicatorError(strategy) = "none" ->
              [status |-> "RUNNING", serving |-> TRUE, signal |-> "none"]
         [] IndicatorError(strategy) = "invalid" -> [NoTest EXCEPT !.status = "FAILED"]
         [] OTHER -> [NoTest EXCEPT !.status = "RUNNING"]
  /\ UNCHANGED <<editor, strategy, bars, holding>>

List(held) == IF held THEN strategy.exit ELSE strategy.entry

\* on_bar: two bars at least; any exception fails the run.
OnBar(bar, held) ==
  LET signal == IF IndicatorError(strategy) # "none" THEN IndicatorError(strategy)
                ELSE EvaluateAll(strategy, List(held), LiveRow(strategy, bar),
                                 LiveRow(strategy, bars.last))
  IN  IF live.state # "running" \/ bars.count = 0 THEN [live EXCEPT !.signal = "none"]
      ELSE IF signal \in Raised THEN [state |-> "failed", signal |-> "none"]
      ELSE [live EXCEPT !.signal = signal]

\* Mutant: the row before is never kept.
PrevRow_none == <<>>
PrevRow == IF bars.count = 0 THEN <<>> ELSE BacktestRow(strategy, bars.last)

\* The loop of run_backtest; run_backtest of the service takes a ValueError.
Tested(bar, held) ==
  LET signal == EvaluateAll(strategy, List(held), BacktestRow(strategy, bar), PrevRow)
  IN  IF ~backtest.serving THEN [backtest EXCEPT !.signal = "none"]
      ELSE IF signal = "invalid" THEN [NoTest EXCEPT !.status = "FAILED"]
      ELSE IF signal = "type" THEN [NoTest EXCEPT !.status = "RUNNING"]
      ELSE [backtest EXCEPT !.signal = signal]

Bar(bar, held) ==
  /\ live.state # "off" /\ (live.state = "running" \/ backtest.serving)
  /\ bars' = [count |-> bars.count + 1, last |-> bar, before |-> bars.last]
  /\ holding' = held
  /\ live' = OnBar(bar, held) /\ backtest' = Tested(bar, held)
  /\ UNCHANGED <<editor, strategy>>

\* The last bar: the backtest completes.
Complete ==
  /\ backtest.serving
  /\ backtest' = [NoTest EXCEPT !.status = "COMPLETED"]
  /\ UNCHANGED <<editor, strategy, bars, holding, live>>

Next ==
  \/ editor # "stored" /\ \E d \in Definition : Submit(d)
  \/ Start
  \/ /\ live.state # "off" /\ bars.count < MaxBars
     /\ \E bar \in BarOf(strategy), held \in BOOLEAN : Bar(bar, held)
  \/ Complete

Spec == Init /\ [][Next]_vars

-----------------------------------------------------------------------------
(* The meaning of a definition that is complete: lengths and values are    *)
(* given, a time is compared with a time only, and indicators have names   *)
(* of their own.  RSI is 100 * gain / (gain + loss), and 50 without both.  *)

Leaves(d) == {node \in ToSet(d.nodes) : node.kind = "leaf"}

IsComplete(d) ==
  /\ \A n \in DOMAIN d.indicators : n \notin Column /\ d.indicators[n].length = "good"
  /\ \A leaf \in Leaves(d) : leaf.value # "nothing" /\ Ordered(leaf)

Reading(d, bar, f) ==
  LET a == bar.average
      ratio == IF a.gain = NaN THEN NaN
               ELSE IF a.gain + a.loss = 0 THEN 50
               ELSE (100 * a.gain) \div (a.gain + a.loss)
  IN  IF f = "number" THEN Number
      ELSE IF f = "close" THEN bar.close
      ELSE IF f = "timestamp" THEN 0
      ELSE IF f \in DOMAIN d.indicators /\ d.indicators[f].type = "RSI" THEN ratio
      ELSE bar.level

Means(d, leaf, bar, before) ==
  LET a == Reading(d, bar, leaf.field)     b == Reading(d, bar, leaf.value)
      c == Reading(d, before, leaf.field)  e == Reading(d, before, leaf.value)
  IN  /\ NaN \notin {a, b}
      /\ leaf.operator \in CrossOperators => NaN \notin {c, e}
      /\ \/ leaf.operator = "<" /\ a < b
         \/ leaf.operator = "!=" /\ a # b
         \/ leaf.operator = "crosses_above" /\ c <= e /\ a > b
         \/ leaf.operator = "crosses_below" /\ c >= e /\ a < b

Meant(d, node, holds, bar, before) ==
  \/ node.kind = "leaf" /\ Means(d, node, bar, before)
  \/ node.kind = "any" /\ \E m \in ToSet(node.parts) : holds[m]
  \/ node.kind = "all" /\ \A m \in ToSet(node.parts) : holds[m]

Holds(d, bar, before) ==
  LET Of[n \in 1 .. Len(d.nodes)] == Meant(d, d.nodes[n], Of, bar, before)
  IN  Of

(* What the editor has accepted does what it says: a live run of a complete *)
(* definition never fails for its conditions, and from its second bar it   *)
(* signals if and only if every condition of the list it reads holds on    *)
(* the readings, whatever the nesting.                                     *)
SignalsAreTrue ==
  live.state # "off" /\ IsComplete(strategy) =>
    /\ live.state = "running"
    /\ bars.count >= 2 /\ "VWAP" \notin {strategy.indicators[n].type : n \in DOMAIN strategy.indicators} =>
         LET holds == Holds(strategy, bars.last, bars.before)
         IN  live.signal = Truth(\A n \in ToSet(List(holding)) : holds[n])

(* A backtest says what the live run would have said on the same bars, from *)
(* the second bar and in the same position, if its indicators have names   *)
(* that are identifiers and none is weighted by volume.                    *)
BacktestAgrees ==
  LET types == {strategy.indicators[n].type : n \in DOMAIN strategy.indicators}
  IN  live.state = "running" /\ backtest.serving /\ bars.count >= 2
        /\ DOMAIN strategy.indicators \subseteq Identifier /\ "VWAP" \notin types =>
        backtest.signal = live.signal

(* "If the run cannot complete, the run row is marked FAILED": no row says *)
(* RUNNING when its request has ended.  It does not hold, a condition      *)
(* without a value raises what the service does not catch.                 *)
BacktestIsMarked == backtest.status = "RUNNING" => backtest.serving
=============================================================================
