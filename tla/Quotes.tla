------------------------------- MODULE Quotes -------------------------------
(***************************************************************************)
(* Quotes of one Choice session and the prices simulated market orders are *)
(* filled at: engine/app/choice_gateway/market.py (get_multiple_touchline  *)
(* with its cache and fallbacks), portfolio.py (the rows it falls back to) *)
(* and the pricing half of orders.py (place_order).                        *)
(*                                                                         *)
(* The session object outlives a change of its mode, and its quote cache   *)
(* with it.  Requests run in threads of their own, without a lock: a step  *)
(* ends where the code reads the mode, asks Choice or writes the cache.    *)
(* Times are kept as ages, and an age counts up to Ttl only: nothing in    *)
(* the code tells two longer ones apart.                                   *)
(***************************************************************************)
EXTENDS Integers

CONSTANTS
  Request,     \* sets of instruments asked for together
  Held,        \* instruments the account holds
  DemoHeld,    \* instruments of the sandbox's portfolio
  Thread,      \* threads that serve requests
  Trader,      \* those that also place orders
  Ttl,         \* QUOTE_CACHE_TTL
  MaxSwitches  \* bound of the model: sign-ins and sandboxes started

VARIABLES
  mode,      \* the session's mode
  client,    \* its client: "no", "signing" while it has no session id, "ready"
  cache,     \* quote_cache[w]: what was answered, by origin, and two ages: of
             \* the stamp, and (history) of the reading of the prices
  req,       \* req[t]: the request thread t serves
  switches,  \* changes of the session so far
  fixture,   \* instruments the sandbox has a made-up price for
  sandbox    \* history: the age of the last moment as a sandbox

vars == <<mode, client, cache, req, switches, fixture, sandbox>>

(* Where the prices of an answer really come from: Choice, by one of its   *)
(* endpoints, or the sandbox, which may have none.  An answer for some of  *)
(* the instruments is an answer.                                           *)
Real == {"touchline", "chart", "holdings"}
Origin == Real \cup {"fixture", "demo holdings", "empty", "none"}
Age == 0 .. Ttl
Expired == [at |-> Ttl, origin |-> "none", read |-> Ttl]

(* for: what the quotes are for; form: the order form carries a price;     *)
(* looked: the age of the lookup; read: the age of the prices when they    *)
(* were looked up or, before the answer is stored, by now; calm: the       *)
(* session was no sandbox for Ttl when the order came and is none since.   *)
Idle == [pc |-> "idle", wanted |-> {}, for |-> "quotes", form |-> FALSE,
         looked |-> 0, origin |-> "none", read |-> 0, label |-> "",
         book |-> "", calm |-> FALSE]

TypeOK ==
  /\ mode \in {"DISCONNECTED", "DEMO", "PAPER", "LIVE"}
  /\ client \in {"no", "signing", "ready"}
  /\ cache \in [Request -> [at : Age, origin : Origin, read : Age]]
  /\ req \in [Thread ->
       [pc : {"idle", "lookup", "mode", "touchline", "chart", "holdings",
              "refuse", "store", "route", "told", "filled"},
        wanted : Request \cup {{}}, for : {"quotes", "size", "fill"},
        form : BOOLEAN, looked : Age, origin : Origin, read : Age,
        label : {"", "live_ltp", "sandbox_quote", "choice_chart_data",
                 "holdings_snapshot", "submitted"},
        book : {"", "PAPER", "DEMO"}, calm : BOOLEAN]]
  /\ switches \in 0 .. MaxSwitches /\ fixture \subseteq UNION Request /\ sandbox \in Age

Init ==
  /\ \/ mode = "DISCONNECTED" /\ client = "no"
     \/ mode = "PAPER" /\ client = "ready"
  /\ cache = [w \in Request |-> Expired]
  /\ req = [t \in Thread |-> Idle]
  /\ switches = 0 /\ fixture \in SUBSET UNION Request /\ sandbox = Ttl

UsesBrokerData == mode \in {"PAPER", "LIVE"} /\ client = "ready"

-----------------------------------------------------------------------------
(* The session changes under the requests, and time passes.                 *)

NotCalm == req' = [t \in Thread |-> [req[t] EXCEPT !.calm = FALSE]]

\* start_demo; the cache stays.
StartDemo ==
  /\ switches < MaxSwitches /\ switches' = switches + 1
  /\ mode' = "DEMO" /\ client' = "no" /\ sandbox' = 0
  /\ NotCalm /\ UNCHANGED <<cache, fixture>>

\* login_totp: a new client without a session id, the mode still the old one.
BeginSignIn ==
  /\ switches < MaxSwitches /\ switches' = switches + 1
  /\ client' = "signing"
  /\ UNCHANGED <<mode, cache, req, fixture, sandbox>>

EndSignIn ==
  /\ client = "signing"
  /\ \/ mode' \in {"PAPER", "LIVE"} /\ client' = "ready"
     \/ mode' = "DISCONNECTED" /\ UNCHANGED client
  /\ UNCHANGED <<cache, req, switches, fixture, sandbox>>

Older(age) == IF age < Ttl THEN age + 1 ELSE Ttl
OlderEntry(c) == IF Older(c.at) = Ttl THEN Expired
                 ELSE [c EXCEPT !.at = Older(@), !.read = Older(@)]
OlderRequest(r) ==
  CASE r.pc \in {"mode", "touchline", "chart", "holdings"} -> [r EXCEPT !.looked = Older(@)]
    [] r.pc = "store" -> [r EXCEPT !.looked = Older(@), !.read = Older(@)]
    [] OTHER -> r

Tick ==
  /\ cache' = [w \in Request |-> OlderEntry(cache[w])]
  /\ req' = [t \in Thread |-> OlderRequest(req[t])]
  /\ sandbox' = IF mode = "DEMO" THEN 0 ELSE Older(sandbox)
  /\ UNCHANGED <<mode, client, switches, fixture>>

-----------------------------------------------------------------------------
(* get_multiple_touchline.                                                  *)

Goes(t, r) ==
  req' = [req EXCEPT ![t] = r] /\ UNCHANGED <<mode, client, switches, fixture, sandbox>>
Step(t, r) == Goes(t, r) /\ UNCHANGED cache

Asked(r) == [r EXCEPT !.pc = "lookup", !.origin = "none", !.read = 0]
Sized(r) == [Asked(r) EXCEPT !.pc = "route", !.looked = 0]

\* The request is refused: sizing an order takes 0 for a price and goes on,
\* a fill stays refused.
Refused(t) == Step(t, IF req[t].for = "size" THEN Sized(req[t]) ELSE Idle)

\* A market order takes the first quote with a price, under the quote's own
\* source if it has one, or the price of its form.
Label(origin) ==
  CASE origin = "chart" -> "choice_chart_data"
    [] origin \in {"holdings", "demo holdings"} -> "holdings_snapshot"
    [] origin = "empty" -> "submitted"
    [] OTHER -> IF UsesBrokerData THEN "live_ltp" ELSE "sandbox_quote"

\* What becomes of request r with an answer; without a price there is no fill.
Told(r, origin, read) ==
  LET told == [r EXCEPT !.pc = "told", !.looked = 0, !.origin = origin, !.read = read]
  IN  CASE r.for = "quotes" -> told
        [] r.for = "size" -> Sized(r)
        [] r.for = "fill" /\ origin = "empty" /\ ~r.form -> Idle
        [] OTHER -> [told EXCEPT !.pc = "filled", !.label = Label(origin),
                       !.book = IF mode = "PAPER" /\ client = "ready" THEN "PAPER" ELSE "DEMO"]

GetQuotes(t, w) ==
  /\ req[t].pc = "idle" /\ mode # "DISCONNECTED"
  /\ Step(t, [Asked(Idle) EXCEPT !.wanted = w])

\* The cached answer, unless it is Ttl old.  The stamp of a new answer is
\* taken here, before anything is asked.
Lookup(t) ==
  LET r == req[t]
      c == cache[r.wanted]
  IN  /\ r.pc = "lookup"
      /\ IF c.at < Ttl THEN Step(t, Told(r, c.origin, c.read))
         ELSE Step(t, [r EXCEPT !.pc = "mode", !.looked = 0])

\* Mutant: the stamp is the time of the answer.
Keep_late(r, origin, read) ==
  cache' = [cache EXCEPT ![r.wanted] = [at |-> 0, origin |-> origin, read |-> read]]
Keep(r, origin, read) ==
  cache' = [cache EXCEPT ![r.wanted] =
    IF r.looked = Ttl THEN Expired ELSE [at |-> r.looked, origin |-> origin, read |-> read]]

\* A sandbox answers from its fixtures, also with none; without a connection
\* the request is refused.
ReadMode(t) ==
  LET r == req[t]
      origin == IF r.wanted \cap fixture # {} THEN "fixture" ELSE "empty"
  IN  /\ r.pc = "mode"
      /\ CASE mode = "DEMO" -> Keep(r, origin, 0) /\ Goes(t, Told(r, origin, 0))
           [] mode = "DISCONNECTED" -> Refused(t)
           [] OTHER -> Step(t, [r EXCEPT !.pc = "touchline"])

\* Choice answers, or has nothing (an error counts as nothing) and the next
\* source is asked.
From(t, origin, possible, next) ==
  LET r == req[t]
  IN  \/ possible /\ Step(t, [r EXCEPT !.pc = "store", !.origin = origin, !.read = 0])
      \/ Step(t, [r EXCEPT !.pc = next])

\* The touchline: all instruments in one call, then one by one.
AskTouchline(t) == req[t].pc = "touchline" /\ From(t, "touchline", UsesBrokerData, "chart")

\* The chart is asked through the client whatever the mode.
AskChart(t) == req[t].pc = "chart" /\ From(t, "chart", client = "ready", "holdings")

\* get_holdings and get_positions.  A session that has become a sandbox
\* answers with its made-up portfolio.
Portfolio ==
  CASE mode = "DEMO" -> [origin |-> "demo holdings", rows |-> DemoHeld]
    [] UsesBrokerData -> [origin |-> "holdings", rows |-> Held]
    [] OTHER -> [origin |-> "holdings", rows |-> {}]

\* Holdings and positions: rows with a last price of their own.
AskHoldings(t) ==
  /\ req[t].pc = "holdings"
  /\ From(t, Portfolio.origin, req[t].wanted \cap Portfolio.rows # {}, "refuse")

\* No price is invented, in LIVE or PAPER mode.
Refuse(t) == req[t].pc = "refuse" /\ Refused(t)

\* The answer goes into the cache, whatever is there by now.
Store(t) ==
  LET r == req[t]
  IN  /\ r.pc = "store"
      /\ Keep(r, r.origin, r.read)
      /\ Goes(t, Told(r, r.origin, 0))

-----------------------------------------------------------------------------
(* place_order, for a market order.                                         *)

\* The order is sized by its form's price, or else by a quote.
PlaceOrder(t, w, form) ==
  LET r == [Idle EXCEPT !.wanted = w, !.form = form, !.calm = (sandbox = Ttl)]
  IN  /\ req[t].pc = "idle" /\ t \in Trader /\ mode # "DISCONNECTED"
      /\ \A x, y \in w : x = y
      /\ Step(t, IF form THEN Sized(r) ELSE [Asked(r) EXCEPT !.for = "size"])

\* The mode is read again: a LIVE order goes to Choice without a price.
Route(t) ==
  LET r == req[t]
  IN  /\ r.pc = "route"
      /\ Step(t, IF mode \in {"DEMO", "PAPER"} THEN [Asked(r) EXCEPT !.for = "fill"]
                 ELSE Idle)

Finish(t) == req[t].pc \in {"told", "filled"} /\ Step(t, Idle)

Serve(t) == Lookup(t) \/ ReadMode(t) \/ AskTouchline(t) \/ AskChart(t) \/ AskHoldings(t)
              \/ Refuse(t) \/ Store(t) \/ Route(t) \/ Finish(t)

Next ==
  \/ StartDemo \/ BeginSignIn \/ EndSignIn \/ Tick
  \/ \E t \in Thread :
       \/ \E w \in Request : GetQuotes(t, w) \/ \E form \in BOOLEAN : PlaceOrder(t, w, form)
       \/ Serve(t)

Spec == Init /\ [][Next]_vars

-----------------------------------------------------------------------------
(* Nobody is told a price that was read Ttl or longer before he asked, by  *)
(* whichever thread, however late that thread stored its answer and        *)
(* whatever it overwrote in the cache.                                     *)
NoStaleQuote ==
  \A t \in Thread : req[t].pc \in {"told", "filled"} => req[t].read < Ttl

(* A market order of a paper session is filled at a price Choice reported, *)
(* under the name of where it came from, and never at what its form says,  *)
(* if it was placed Ttl or longer after the session last was a sandbox:    *)
(* no sandbox price, sandbox portfolio or empty sandbox answer survives a  *)
(* switch for longer, in the cache or in a thread that was under way.      *)
RealPriceOrNone ==
  \A t \in Thread :
    LET r == req[t]
    IN  r.pc = "filled" /\ r.book = "PAPER" /\ r.calm =>
          /\ r.origin \in Real
          /\ r.label = "live_ltp" <=> r.origin = "touchline"

(* "Paper trading needs a real price": the same without the condition on   *)
(* the time of the switch.  It does not hold, the cache answers for the    *)
(* sandbox.                                                                *)
PaperFillsAreReal ==
  \A t \in Thread : req[t].pc = "filled" /\ req[t].book = "PAPER" => req[t].origin \in Real
=============================================================================
