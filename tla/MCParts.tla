------------------------------ MODULE MCParts ------------------------------
(* The parts of the program that share no state, for TLC: one of them       *)
(* moves, the others stay where they started.                               *)
EXTENDS Accounts, MarketData, Services, MCStrategy

CONSTANTS s1, s2, t1, t2

VARIABLE part

\* What the editor's names of indicators bring besides a field of their own.
NamedBands == [n \in {"sma", "my sma", "close"} |-> {"bands"}]

\* One number is three instruments', and ABB is listed three times.
Row(symbol, segment, series, plain, token, lot) ==
  [symbol |-> symbol, segment |-> segment, series |-> series, plain |-> plain,
   token |-> token, lot |-> lot]
Index == Row("NIFTY", 1, "XX", TRUE, 3, 25)
Rows == {Index, Row("ABB", 1, "EQ", TRUE, 1, 0), Row("ABB", 2, "XX", FALSE, 2, 50),
         Row("ABB", 3, "EQ", TRUE, 2, 1), Row("BEL", 1, "EQ", TRUE, 2, 0),
         Row("COPPER", 5, "XX", FALSE, 1, 10)}
Indices == {Index}

Init ==
  /\ part \in {"book", "bars", "test", "gate", "language", "market", "partner", "desktop",
              "names", "money"}
  /\ Book!Init /\ Bars!Init /\ Test!Init /\ Gate!Init /\ Language!Init
  /\ Market!Init /\ Login!Init /\ Desktop!Init /\ Names!Init /\ Payouts!Init
  /\ part # "book" => fill[t1].symbol = s1
  /\ part # "test" => initial = 100
  /\ part # "gate" => offset = 3
  /\ part # "market" => mode = "PAPER" /\ fixture = {}
  /\ part # "partner" => configured
  /\ part # "names" => session = "PAPER"
  /\ part # "money" => account = "PAPER"

engineVars == <<bookVars, barsVars, testVars, gateVars, languageVars>>
serviceVars == <<marketVars, loginVars, desktopVars, namesVars, moneyVars>>

Engine ==
  \/ /\ part = "book" /\ Book!Next
     /\ UNCHANGED <<barsVars, testVars, gateVars, languageVars>>
  \/ /\ part = "bars" /\ Bars!Next
     /\ UNCHANGED <<bookVars, testVars, gateVars, languageVars>>
  \/ /\ part = "test" /\ Test!Next
     /\ UNCHANGED <<bookVars, barsVars, gateVars, languageVars>>
  \/ /\ part = "gate" /\ Gate!Next
     /\ UNCHANGED <<bookVars, barsVars, testVars, languageVars>>
  \/ /\ part = "language" /\ Language!Next
     /\ UNCHANGED <<bookVars, barsVars, testVars, gateVars>>

Services ==
  \/ /\ part = "market" /\ Market!Next
     /\ UNCHANGED <<loginVars, desktopVars, namesVars, moneyVars>>
  \/ /\ part = "partner" /\ Login!Next
     /\ UNCHANGED <<marketVars, desktopVars, namesVars, moneyVars>>
  \/ /\ part = "desktop" /\ Desktop!Next
     /\ UNCHANGED <<marketVars, loginVars, namesVars, moneyVars>>
  \/ /\ part = "names" /\ Names!Next
     /\ UNCHANGED <<marketVars, loginVars, desktopVars, moneyVars>>
  \/ /\ part = "money" /\ Payouts!Next
     /\ UNCHANGED <<marketVars, loginVars, desktopVars, namesVars>>

Next ==
  /\ UNCHANGED part
  /\ \/ Engine /\ UNCHANGED serviceVars
     \/ Services /\ UNCHANGED engineVars

Spec == Init /\ [][Next]_<<part, engineVars, serviceVars>>
=============================================================================
