---------------------------- MODULE MCStrategy ----------------------------
(* Definitions of a strategy for TLC: what may be typed into the editor,    *)
(* good ones of every shape and every kind of mistake.                      *)
EXTENDS Integers

Leaf(field, operator, value) ==
  [kind |-> "leaf", field |-> field, operator |-> operator, value |-> value, parts |-> <<>>]
Group(kind, parts) ==
  [kind |-> kind, field |-> "none", operator |-> "none", value |-> "none", parts |-> parts]

\* Conditions over the close and an indicator n, with and without mistakes.
Low == Leaf("close", "<", "number")
Few(n) == {Low, Leaf("close", "crosses_above", n), Leaf("nowhere", "<", "number")}
Many(n) == Few(n) \cup
  {Leaf(n, "<", "number"), Leaf(n, "crosses_below", "number"), Leaf("bands", "<", "number"),
   Leaf(n, "!=", "nothing"), Leaf(n, "<", "nothing"), Leaf("timestamp", "<", "number"),
   Leaf("close", "!=", "nowhere"), Leaf("close", "soon", "number")}

Good(type) == [type |-> type, length |-> "good"]
Indicators ==
  {Good(type) : type \in {"SMA", "RSI", "BOLLINGER", "VWAP", "WMA"}}
    \cup {[type |-> "SMA", length |-> length] : length \in {"zero", "null"}}

DefinitionOf(n, indicator, nodes, entry, exit) ==
  [indicators |-> [m \in {n} |-> indicator], nodes |-> nodes,
   entry |-> entry, exit |-> exit, quantity |-> 1]

\* Lists of conditions without groups, under both kinds of name.
Lists ==
  {DefinitionOf(n, indicator, <<one, two>>, entry, <<2>>) :
     n \in {"sma", "my sma"}, indicator \in Indicators,
     one \in Many("sma") \cup Many("my sma"), two \in Few("sma"), entry \in {<<1>>, <<1, 2>>}}

Groups ==
  {DefinitionOf("sma", indicator, <<Group(kind, parts), two, three>>, <<1>>, <<2>>) :
     indicator \in {Good("SMA"), Good("RSI")}, kind \in {"any", "all"},
     parts \in {<<2>>, <<2, 3>>}, two \in Few("sma"), three \in Few("sma")}

GroupsInGroups ==
  {DefinitionOf("sma", Good("SMA"),
                <<Group(outer, <<2, 3>>), Group(inner, <<3, 4>>), Low, four>>, <<1>>, <<3>>) :
     outer \in {"any", "all"}, inner \in {"any", "all"}, four \in Many("sma")}

Mistaken ==
  {DefinitionOf("sma", Good("SMA"), <<one, Low>>, <<1>>, <<2>>) :
     one \in {Group("any", <<>>), Group("both", <<2>>), Group("text", <<>>)}}
  \cup {DefinitionOf("sma", Good("SMA"), <<Low>>, <<>>, <<1>>),
        DefinitionOf("sma", Good("SMA"), <<Low>>, <<1>>, <<>>),
        DefinitionOf("close", Good("SMA"), <<Low>>, <<1>>, <<1>>),
        [DefinitionOf("sma", Good("SMA"), <<Low>>, <<1>>, <<1>>) EXCEPT !.quantity = 0]}

Definitions == Lists \cup Groups \cup GroupsInGroups \cup Mistaken
=============================================================================
