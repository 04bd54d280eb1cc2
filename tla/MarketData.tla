----------------------------- MODULE MarketData -----------------------------
(* The parts that make something of the market: the bars a paper run is    *)
(* fed (BarBuilder), the strategies that read them (Strategy), quotes and  *)
(* the prices of fills (Quotes), and the instruments behind the symbols    *)
(* (Catalogue).  They share no state; here are their parameters, what is   *)
(* assumed of those, and their properties.                                 *)
EXTENDS Integers, Sequences

CONSTANTS
  Seconds, TickPrice, LastTime, MaxTicks,                           \* of the bars
  Definition, Identifier, Bands, Close, Level, Number, ReadBars,    \* of the strategies
  Wanted, Held, DemoHeld, Reader, Trader, Lifetime, MaxModes,       \* of the quotes
  Listed, Known, Provider, Searcher, MaxSessions                    \* of the instruments

VARIABLES
  current, bucket, closed, ticks,
  editor, strategy, bars, holding, live, backtest,
  mode, client, cache, req, switches, fixture, sandbox,
  session, sdk, master, question, sessions

Bars == INSTANCE BarBuilder WITH Price <- TickPrice
Language == INSTANCE Strategy WITH Price <- Close, MaxBars <- ReadBars
Market == INSTANCE Quotes WITH Request <- Wanted, Thread <- Reader, Ttl <- Lifetime,
  MaxSwitches <- MaxModes
Names == INSTANCE Catalogue WITH Thread <- Searcher, MaxSwitches <- MaxSessions,
  mode <- session, client <- sdk, req <- question, switches <- sessions

barsVars == <<current, bucket, closed, ticks>>
languageVars == <<editor, strategy, bars, holding, live, backtest>>
marketVars == <<mode, client, cache, req, switches, fixture, sandbox>>
namesVars == <<session, sdk, master, question, sessions>>

\* A bar takes time, and prices are whole ticks.
LawfulBars == Seconds \in Nat \ {0} /\ TickPrice \subseteq Int
ASSUME BarsAssumption == LawfulBars

\* What is typed into the editor is finite and refers to later nodes only (a
\* tree, in the order it is written), and the words that stand for a number and
\* for no value are names of nothing.
WellFormed(d) ==
  /\ Len(d.nodes) \in Nat /\ DOMAIN d.nodes = 1 .. Len(d.nodes)
  /\ \A n \in 1 .. Len(d.nodes) : d.nodes[n].parts \in Seq(n + 1 .. Len(d.nodes))
  /\ d.entry \in Seq(1 .. Len(d.nodes)) /\ d.exit \in Seq(1 .. Len(d.nodes))
  /\ {"number", "nothing"} \cap Language!FieldsOf(d) = {}
LawfulLanguage == \A d \in Definition : WellFormed(d)
ASSUME LanguageAssumption == LawfulLanguage

\* The cache keeps an answer for some time.
Lasting == Lifetime \in Nat \ {0}
ASSUME QuotesAssumption == Lasting

\* A token is one instrument's within its segment.
Unambiguous ==
  \A row \in Listed, other \in Listed \cup Known :
    Names!Place(row) = Names!Place(other) => row.symbol = other.symbol
ASSUME NamesAssumption == Unambiguous

(* Stated and explained in the modules of the parts.                       *)
BarsAreTrue == Bars!BarsAreTrue
SignalsAreTrue == Language!SignalsAreTrue
BacktestAgrees == Language!BacktestAgrees
NoStaleQuote == Market!NoStaleQuote
RealPriceOrNone == Market!RealPriceOrNone
InstrumentsAreTrue == Names!InstrumentsAreTrue
=============================================================================
