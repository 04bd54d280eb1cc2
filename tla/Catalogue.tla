------------------------------ MODULE Catalogue ------------------------------
(***************************************************************************)
(* From the symbol of a backtest to the candles it runs on, and from a     *)
(* token to its lot: engine/app/choice_gateway/scrip_master.py             *)
(* (resolve_instrument, get_token, get_details, get_lot_size) and          *)
(* historical.py (get_historical_ohlcv), on one Choice session whose mode  *)
(* and client change under them.                                           *)
(*                                                                         *)
(* Tokens are numbers of one segment: two instruments may share one.  The  *)
(* instrument master is a download of the client's SDK that may break off, *)
(* and what it had read by then stays.                                     *)
(***************************************************************************)
EXTENDS Integers, FiniteSets

CONSTANTS
  Listed,      \* the rows of the master: [symbol, segment, series, plain, token,
               \* lot]; plain: the symbol is also the description
  Known,       \* SANDBOX_SCRIPS: rows that are known without it
  Provider,    \* HISTORICAL_DATA_PROVIDER: "AUTO" or "CHOICE"
  Thread,      \* threads that serve requests
  MaxSwitches  \* bound of the model: sign-ins and sandboxes started

VARIABLES
  mode,      \* the session's mode
  client,    \* its client: "no", "signing" while it has no session id, "ready"
  master,    \* the client's instrument master: the rows read so far, and
             \* whether it is_loaded
  req,       \* req[t]: the request thread t serves
  switches   \* changes of the session so far

vars == <<mode, client, master, req, switches>>

Symbol == {row.symbol : row \in Listed \cup Known}
Segment == {row.segment : row \in Listed \cup Known}
Token == {row.token : row \in Listed \cup Known}
None == 0                                   \* no segment, token or lot given
Unread == [rows |-> {}, loaded |-> FALSE]

(* symbol, segment and token as asked; at: the segment and token resolved  *)
(* to; by: how; source and of: where the candles come from and whose they  *)
(* are; lot: the answer to a question for one; sandbox (history): whether  *)
(* the session was a sandbox while the request was under way.              *)
Idle == [pc |-> "idle", symbol |-> "none", segment |-> None, token |-> None,
         at |-> <<None, None>>, by |-> "none", source |-> "none", of |-> "none",
         lot |-> None, sandbox |-> FALSE]

TypeOK ==
  /\ mode \in {"DISCONNECTED", "DEMO", "PAPER", "LIVE"}
  /\ client \in {"no", "signing", "ready"}
  /\ master.rows \subseteq Listed /\ master.loaded \in BOOLEAN
  /\ req \in [Thread ->
       [pc : {"idle", "resolve", "master", "fallback", "mode", "chart", "yahoo", "run",
              "load", "details", "lot"},
        symbol : Symbol \cup {"none"}, segment : Segment \cup {None},
        token : Token \cup {None}, at : (Segment \cup {None}) \X (Token \cup {None}),
        by : {"none", "token", "known", "demo", "complete", "partial", "fallback"},
        source : {"none", "SANDBOX_SYNTHETIC", "CHOICE_OPENAPI", "YFINANCE"},
        of : Symbol \cup {"none", "nobody", "stranger"}, lot : Nat, sandbox : BOOLEAN]]
  /\ switches \in 0 .. MaxSwitches

Init ==
  /\ \/ mode = "DISCONNECTED" /\ client = "no"
     \/ mode \in {"PAPER", "LIVE"} /\ client = "ready"
  /\ master = Unread /\ req = [t \in Thread |-> Idle] /\ switches = 0

HasClient == mode \in {"PAPER", "LIVE"} /\ client = "ready"

-----------------------------------------------------------------------------
(* The session under the requests.                                          *)

StartDemo ==
  /\ switches < MaxSwitches /\ switches' = switches + 1
  /\ mode' = "DEMO" /\ client' = "no" /\ master' = Unread
  /\ req' = [t \in Thread |-> [req[t] EXCEPT !.sandbox = TRUE]]

\* A new client, with a master that has not been read.
BeginSignIn ==
  /\ switches < MaxSwitches /\ switches' = switches + 1
  /\ client' = "signing" /\ master' = Unread
  /\ UNCHANGED <<mode, req>>

EndSignIn ==
  /\ client = "signing"
  /\ \/ mode' \in {"PAPER", "LIVE"} /\ client' = "ready"
     \/ mode' = "DISCONNECTED" /\ UNCHANGED client
  /\ UNCHANGED <<master, req, switches>>

-----------------------------------------------------------------------------
(* The instrument master.                                                   *)

Step(t, r) == req' = [req EXCEPT ![t] = r]
Session == UNCHANGED <<mode, client, switches>>
Gives(t, r) == Step(t, r) /\ UNCHANGED master
Refused(t) == Gives(t, Idle)

\* fetch: a download that breaks off has added some of the rows.
Fetched == {[rows |-> Listed, loaded |-> TRUE]}
             \cup {[rows |-> master.rows \cup read, loaded |-> FALSE] : read \in SUBSET Listed}
EnsureLoaded == IF master.loaded THEN {master} ELSE Fetched

\* The preference of a person: cash before the rest, the equity series, the
\* plainest name.
Score(row) == (IF row.segment = 1 THEN 0 ELSE 4) + (IF row.series = "EQ" THEN 0 ELSE 2)
                + (IF row.plain THEN 0 ELSE 1)
\* Mutant: the segment does not count.
PickTradable_anySegment(rows) ==
  CHOOSE row \in rows : \A other \in rows :
    /\ Score(row) % 4 <= Score(other) % 4
    /\ Score(row) % 4 = Score(other) % 4 => row.segment >= other.segment
PickTradable(rows) == CHOOSE row \in rows : \A other \in rows : Score(row) <= Score(other)

\* scrip_master.get_token of the SDK: the rows of a symbol, or with a segment
\* the token of one of them.
Matches(m, r) ==
  {row \in m.rows : row.symbol = r.symbol /\ r.segment \in {None, row.segment}}
GetToken(m, r) ==
  IF r.segment # None THEN {row.token : row \in Matches(m, r)}
  ELSE {PickTradable(rows).token : rows \in {Matches(m, r)} \ {{}}}

-----------------------------------------------------------------------------
(* resolve_instrument.                                                      *)

KnownAs(symbol) == {row \in Known : row.symbol = symbol}
Place(row) == <<row.segment, row.token>>
Segmented(r, token) == <<IF r.segment = None THEN 1 ELSE r.segment, token>>
Found(r, by, at) == [r EXCEPT !.pc = "mode", !.by = by, !.at = at]

AskHistory(t, symbol, segment, token) ==
  /\ req[t].pc = "idle" /\ mode # "DISCONNECTED"
  /\ Gives(t, [Idle EXCEPT !.pc = "resolve", !.symbol = symbol, !.segment = segment,
                           !.token = token, !.sandbox = (mode = "DEMO")])
  /\ Session

\* An explicit token wins; a known symbol needs no master in its segment.
Resolve(t) ==
  LET r == req[t]
      known == {row \in KnownAs(r.symbol) : mode = "DEMO" \/ r.segment \in {None, row.segment}}
  IN  /\ r.pc = "resolve"
      /\ \/ r.token # None /\ Gives(t, Found(r, "token", Segmented(r, r.token)))
         \/ /\ r.token = None
            /\ \E row \in known :
                 Gives(t, Found(r, IF mode = "DEMO" THEN "demo" ELSE "known", Place(row)))
         \/ r.token = None /\ known = {} /\ Gives(t, [r EXCEPT !.pc = "master"])
      /\ Session

\* get_token, if the session is a broker's: whether the master could be
\* loaded is not asked, and an error is no token.
AskMaster(t) ==
  LET r == req[t]
      Picks(m) == IF GetToken(m, r) = {} THEN {[r EXCEPT !.pc = "fallback"]}
                  ELSE {Found(r, IF m.loaded THEN "complete" ELSE "partial", Segmented(r, token)) :
                          token \in GetToken(m, r)}
  IN  /\ r.pc = "master"
      /\ IF HasClient THEN \E m \in EnsureLoaded :
                             master' = m /\ \E answer \in Picks(m) : Step(t, answer)
         ELSE Gives(t, [r EXCEPT !.pc = "fallback"])
      /\ Session

\* A known symbol in another segment than the one asked for.
Fallback(t) ==
  LET r == req[t]
  IN  /\ r.pc = "fallback"
      /\ \/ \E row \in KnownAs(r.symbol) : Gives(t, Found(r, "fallback", Place(row)))
         \/ KnownAs(r.symbol) = {} /\ Refused(t)
      /\ Session

-----------------------------------------------------------------------------
(* get_historical_ohlcv.                                                    *)

Candles(r, source, of) == [r EXCEPT !.pc = "run", !.source = source, !.of = of]

\* generate_sandbox_ohlcv: a series nobody traded.
MadeUp(r) == Candles(r, "SANDBOX_SYNTHETIC", "nobody")

ReadMode(t) ==
  LET r == req[t]
  IN  /\ r.pc = "mode"
      /\ CASE mode = "DEMO" -> Gives(t, MadeUp(r))
           [] mode = "DISCONNECTED" -> Refused(t)
           [] OTHER -> Gives(t, [r EXCEPT !.pc = "chart"])
      /\ Session

\* Choice has candles of the instrument with that token in that segment.  An
\* error, a session that has no client by now and a timeframe Choice does not
\* know all count as no candles.
AskChart(t) ==
  LET r == req[t]
  IN  /\ r.pc = "chart"
      /\ \/ /\ HasClient
            /\ \E row \in Listed : /\ Place(row) = r.at
                                   /\ Gives(t, Candles(r, "CHOICE_OPENAPI", row.symbol))
         \/ Gives(t, [r EXCEPT !.pc = "yahoo"])
      /\ Session

\* Yahoo is asked by name: with the suffix of NSE for its two segments, with
\* that of BSE for its shares, and without one for the rest, which is the
\* name of some other exchange's paper if it is any.
Suffixed == {1, 2, 3}
Yahoo(r) == Candles(r, "YFINANCE", IF r.at[1] \in Suffixed THEN r.symbol ELSE "stranger")

AskYahoo(t) ==
  LET r == req[t]
  IN  /\ r.pc = "yahoo"
      /\ \/ Provider = "AUTO" /\ Gives(t, Yahoo(r))
         \/ Refused(t)
      /\ Session

-----------------------------------------------------------------------------
(* The lot of a token, for the order form.                                  *)

AskLot(t, token) ==
  /\ req[t].pc = "idle" /\ mode # "DISCONNECTED"
  /\ Gives(t, [Idle EXCEPT !.pc = "load", !.token = token, !.sandbox = (mode = "DEMO")])
  /\ Session

LotOfKnown(token) ==
  IF \E row \in Known : row.token = token
  THEN (CHOOSE row \in Known : row.token = token).lot ELSE 1

\* Mutant: one unit while the master cannot be loaded.
LoadLot_one(t) ==
  LET r == req[t]
  IN  /\ r.pc = "load"
      /\ CASE mode = "DEMO" -> Gives(t, [r EXCEPT !.pc = "lot", !.lot = LotOfKnown(r.token)])
           [] HasClient -> \E m \in EnsureLoaded :
                /\ master' = m
                /\ Step(t, IF m.loaded THEN [r EXCEPT !.pc = "details"]
                           ELSE [r EXCEPT !.pc = "lot", !.lot = 1])
           [] OTHER -> Refused(t)
      /\ Session
\* Without a loaded master the lot is unknown.
LoadLot(t) ==
  LET r == req[t]
  IN  /\ r.pc = "load"
      /\ CASE mode = "DEMO" -> Gives(t, [r EXCEPT !.pc = "lot", !.lot = LotOfKnown(r.token)])
           [] HasClient -> \E m \in EnsureLoaded :
                /\ master' = m
                /\ Step(t, IF m.loaded THEN [r EXCEPT !.pc = "details"]
                           ELSE [r EXCEPT !.pc = "lot", !.lot = None])
           [] OTHER -> Refused(t)
      /\ Session

\* get_details loads again, for a new client may have come, and looks the
\* token up in no particular segment.  A row without a lot trades in units.
Details(t) ==
  LET r == req[t]
      Of(m) == {IF row.lot = None THEN 1 ELSE row.lot : row \in {x \in m.rows : x.token = r.token}}
  IN  /\ r.pc = "details"
      /\ CASE mode = "DEMO" ->
                Gives(t, [r EXCEPT !.pc = "lot",
                  !.lot = IF \E row \in Known : row.token = r.token THEN LotOfKnown(r.token) ELSE None])
           [] HasClient -> \E m \in EnsureLoaded :
                /\ master' = m
                /\ \E lot \in IF Of(m) = {} THEN {None} ELSE Of(m) :
                     Step(t, [r EXCEPT !.pc = "lot", !.lot = lot])
           [] OTHER -> Refused(t)
      /\ Session

Finish(t) == req[t].pc \in {"run", "lot"} /\ Refused(t) /\ Session

Serve(t) == Resolve(t) \/ AskMaster(t) \/ Fallback(t) \/ ReadMode(t) \/ AskChart(t)
              \/ AskYahoo(t) \/ LoadLot(t) \/ Details(t) \/ Finish(t)

Next ==
  \/ StartDemo \/ BeginSignIn \/ EndSignIn
  \/ \E t \in Thread :
       \/ \E symbol \in Symbol, segment \in Segment \cup {None}, token \in Token \cup {None} :
            AskHistory(t, symbol, segment, token)
       \/ \E token \in Token : AskLot(t, token)
       \/ Serve(t)

Spec == Init /\ [][Next]_vars

-----------------------------------------------------------------------------
HasCash(symbol) == \E row \in Listed : row.symbol = symbol /\ row.segment = 1

(* A backtest by symbol runs on prices of that symbol and of nothing else, *)
(* whoever supplied them and whatever the session became on the way: never *)
(* on those of another instrument that has the token in another segment.   *)
(* Made-up candles are used only by a session that was a sandbox meanwhile.*)
(* The exceptions: a token was given; the master was incomplete or has no  *)
(* cash row for the symbol and no segment was given; Yahoo was asked for   *)
(* something that is listed neither at NSE nor at BSE.                     *)
NoOtherInstrument ==
  \A t \in Thread :
    LET r == req[t]
    IN  r.pc = "run" =>
          /\ r.source = "SANDBOX_SYNTHETIC" => r.sandbox
          /\ \/ r.source = "SANDBOX_SYNTHETIC"
             \/ r.of = r.symbol
             \/ r.by = "token"
             \/ r.source = "YFINANCE" /\ r.at[1] \notin Suffixed
             \/ r.segment = None /\ (r.by = "partial" \/ ~HasCash(r.symbol))

(* A lot is the lot of an instrument with that token, or unknown: also if  *)
(* the master breaks off, or the client is replaced between the two times  *)
(* it is loaded; only a sandbox answers 1 for want of anything better.     *)
LotNeverGuessed ==
  \A t \in Thread :
    LET r == req[t]
    IN  r.pc = "lot" /\ r.lot # None /\ ~r.sandbox =>
          \E row \in Listed : row.token = r.token /\ r.lot = IF row.lot = None THEN 1 ELSE row.lot

(* A symbol gets its own prices and a token its own lot.                   *)
InstrumentsAreTrue == NoOtherInstrument /\ LotNeverGuessed

(* "A derivative is only returned when nothing else matches": the token of *)
(* a symbol with a cash row is that row's.  It does not hold while the     *)
(* master is incomplete.                                                   *)
CashComesFirst ==
  \A t \in Thread :
    LET r == req[t]
    IN  r.pc = "run" /\ r.by \in {"complete", "partial"} /\ r.segment = None /\ HasCash(r.symbol)
          => \E row \in Listed : row.symbol = r.symbol /\ Place(row) = r.at

(* "Fallback fetcher using yfinance for Indian equities."  It does not     *)
(* hold, futures and commodities are asked for as well.                    *)
YahooHasEquities ==
  \A t \in Thread :
    req[t].pc = "run" /\ req[t].source = "YFINANCE" => req[t].at[1] \in {1, 3}
=============================================================================
