----------------------------- MODULE HlEquity -----------------------------
(***************************************************************************)
(* The Hyperliquid account of one wallet as the sync layer keeps it: the   *)
(* perp equity last polled, the capital flow netted out of it, and the     *)
(* anchors (day baseline, high-water mark) the drawdown circuit breakers   *)
(* read.  A tick polls the account first and the transfer ledger after it, *)
(* with the venue moving in between.  POST /permits saves back the account *)
(* it loaded, POST /wallets and POST /sync one they polled; the first two  *)
(* take no lock (module WalletSync), so a request may save at any time.    *)
(*                                                                         *)
(* Amounts are integers, where the code adds f64s.  Time is counted in     *)
(* ledger time stamps (milliseconds): Sec of them make a second, Day of    *)
(* them a day.                                                             *)
(***************************************************************************)
EXTENDS Integers, Sequences, FiniteSets

CONSTANTS Start,        \* equity when we start to look
          Trades,       \* what a trade may earn or lose
          Transfers,    \* what may be moved into (or out of) the perp account
          Sides,        \* how much of the equity may lie at a builder's perp dex
          Sec, Day,
          None,
          MaxTime, MaxMoves, MaxPosts, MaxFaults  \* bounds

ASSUME EquityAssumption ==
  /\ Start \in Int /\ Trades \subseteq Int /\ Transfers \subseteq Int /\ Sides \subseteq Int /\ None \notin Int
  /\ Sec \in Nat \ {0} /\ Day \in Nat \ {0}
  /\ MaxTime \in Nat /\ MaxMoves \in Nat /\ MaxPosts \in Nat /\ MaxFaults \in Nat

VARIABLES
  time, raw, ledger,  \* the venue: clock, perp accountValue, non-funding ledger
  pnl, trades,        \* history: what no readable ledger amount explains; number of trades
  acct, seen,         \* the saved account, and what it was computed from
  pc, at,             \* the tick, and the time it started at
  copy, look,         \* its copy of acct and seen
  busy, held, glance, \* a request that writes the row, and its copy of acct and seen
  posts, faults       \* bounded counters

venue  == <<time, raw, ledger, pnl, trades>>
tick   == <<pc, at, copy, look>>
writer == <<busy, held, glance>>
vars   == <<venue, acct, seen, tick, writer, posts, faults>>

Amount  == Int \cup {None}
\* HlAccount: perp_account_value_usd, equity_hwm, equity_baseline (value, day of
\* anchored_at, trusted), cumulative_net_flow, ledger_cursor_ms.
Account == [value : Amount, hwm : Amount, base : Amount, day : Int, trusted : BOOLEAN,
            flow : Int, cursor : Nat]
Default == [value |-> None, hwm |-> None, base |-> None, day |-> -1, trusted |-> FALSE,
            flow |-> 0, cursor |-> 0]

\* What an account was computed from: equity minus profit at the first roll, the
\* ledger length then and at the last roll, the best and the last trading
\* equity, the ledger entries folded into the flow, whether every roll saw the
\* whole account and found the ledger folded exactly since the first, and the
\* first observation of each day.
Ghost   == [origin : Int, first : Nat, rolled : Nat, peak : Int, last : Int,
            folded : SUBSET Nat, clean : BOOLEAN, opens : SUBSET (Nat \X Int)]
Unseen(opens) == [origin |-> 0, first |-> 0, rolled |-> 0, peak |-> 0, last |-> 0,
                  folded |-> {}, clean |-> TRUE, opens |-> opens]

TypeOK ==
  /\ time \in Nat /\ raw \in Int /\ ledger \in Seq([time : Nat, amount : Int])
  /\ pnl \in Int /\ trades \in Nat
  /\ acct \in Account /\ copy \in Account /\ seen \in Ghost /\ look \in Ghost
  /\ busy \in BOOLEAN /\ held \in Account /\ glance \in Ghost
  /\ pc \in {"idle", "core", "tail", "save"} /\ at \in Nat
  /\ posts \in Nat /\ faults \in Nat

Init ==
  /\ time = 1 /\ raw = Start /\ ledger = <<>> /\ pnl = 0 /\ trades = 0
  /\ acct = Default /\ seen = Unseen({})
  /\ pc = "idle" /\ at = 0 /\ copy = Default /\ look = Unseen({})
  /\ busy = FALSE /\ held = Default /\ glance = Unseen({})
  /\ posts = 0 /\ faults = 0

-----------------------------------------------------------------------------
(* The venue                                                                 *)

Clock ==
  /\ time < MaxTime /\ time' = time + 1
  /\ UNCHANGED <<raw, ledger, pnl, trades, acct, seen, tick, writer, posts, faults>>

Trade(d) ==
  /\ trades + Len(ledger) < MaxMoves /\ trades' = trades + 1
  /\ raw' = raw + d /\ pnl' = pnl + d
  /\ UNCHANGED <<time, ledger, acct, seen, tick, writer, posts, faults>>

\* accountClassTransfer and the vault moves.  Entries may share a millisecond;
\* an amount that cannot be parsed reads as zero (ledger_usdc).
Transfer(d, legible) ==
  LET amount == IF legible THEN d ELSE 0
  IN  /\ trades + Len(ledger) < MaxMoves
      /\ raw' = raw + d /\ pnl' = pnl + (d - amount)
      /\ ledger' = Append(ledger, [time |-> time, amount |-> amount])
      /\ legible \/ faults < MaxFaults
      /\ faults' = IF legible THEN faults ELSE faults + 1
      /\ UNCHANGED <<time, trades, acct, seen, tick, writer, posts>>

-----------------------------------------------------------------------------
(* roll_equity_anchors                                                       *)

Neutral(a) == a.value - a.flow
UtcDay(t)  == t \div Day

\* A high-water mark taken of the raw equity, and a baseline trusted whenever
\* there was one before.
RawHigh(a, m)   == IF a.hwm = None THEN a.value ELSE IF a.value > a.hwm THEN a.value ELSE a.hwm
AnyBefore(a, today) == a.base # None

NextHwm(a, m)   == IF a.hwm = None THEN m ELSE IF m > a.hwm THEN m ELSE a.hwm
Watched(a, today) == a.base # None /\ a.day + 1 = today

Roll(a, t) ==
  LET today == UtcDay(t)
      m     == Neutral(a)
      high  == [a EXCEPT !.hwm = NextHwm(a, m)]
  IN  IF a.base # None /\ a.day = today THEN high
      ELSE [high EXCEPT !.base = m, !.day = today, !.trusted = Watched(a, today)]

\* The same roll, of a poll that answered v, as a spectator of the venue sees it.
RollSeen(g, a, v, t) ==
  LET fresh == a.hwm = None
      o     == IF fresh THEN raw - pnl ELSE g.origin
      n     == IF fresh THEN Len(ledger) ELSE g.first
      tr    == o + pnl
  IN  [g EXCEPT !.origin = o, !.first = n, !.rolled = Len(ledger), !.last = tr,
                !.peak = IF fresh \/ tr > g.peak THEN tr ELSE g.peak,
                !.clean = /\ v = raw
                          /\ IF fresh THEN g.folded = {} ELSE g.clean /\ g.folded = (n + 1) .. Len(ledger),
                !.opens = IF \E e \in g.opens : e[1] = UtcDay(t) THEN @
                          ELSE @ \cup {<<UtcDay(t), v - a.flow>>}]

-----------------------------------------------------------------------------
(* The tick: core, long-tail, save                                           *)

Load ==
  /\ pc = "idle" /\ pc' = "core"
  /\ at' = (time \div Sec) * Sec
  /\ copy' = acct /\ look' = seen
  /\ UNCHANGED <<venue, acct, seen, writer, posts, faults>>

\* sync_hyperliquid_core: merge the clearinghouse, then roll the anchors.
Observe(v) ==
  /\ pc = "core" /\ pc' = "tail"
  /\ copy' = Roll([copy EXCEPT !.value = v], at)
  /\ look' = RollSeen(look, copy, v, at)
  /\ UNCHANGED <<venue, acct, seen, at, writer, posts>>

Core == Observe(raw) /\ UNCHANGED faults

\* perp_dexs or the call for a builder's dex failed: an error is noted, and the
\* clearinghouse is fresh without the part s of the equity that lies there.
CorePartial(s) ==
  /\ Observe(raw - s)
  /\ faults < MaxFaults /\ faults' = faults + 1

\* The native clearinghouse or its parse failed: nothing merged.
CoreFails ==
  /\ pc = "core" /\ pc' = "tail"
  /\ faults < MaxFaults /\ faults' = faults + 1
  /\ UNCHANGED <<venue, acct, seen, at, copy, look, writer, posts>>

NewerThan(c) == {i \in DOMAIN ledger : ledger[i].time > c}

\* Sum of the amounts of a set of entries of the ledger l.
SumOf(l, S) == LET f[n \in 0 .. Len(l)] ==
                     IF n = 0 THEN 0 ELSE f[n - 1] + IF n \in S THEN l[n].amount ELSE 0
               IN  f[Len(l)]

\* A cursor left where the poll started.
KeptCursor(c) == c
\* The newest entry seen, or the cursor where there is none.
NewCursor(c) == IF NewerThan(c) = {} THEN c ELSE ledger[Len(ledger)].time

\* sync_hyperliquid_longtail: the first poll counts flows from the tick's start.
Since == IF copy.cursor > 0 THEN copy.cursor ELSE at

\* parse_ledger_net_flow and merge_longtail.
Longtail ==
  /\ pc = "tail" /\ pc' = "save"
  /\ copy' = [copy EXCEPT !.flow = @ + SumOf(ledger, NewerThan(Since)), !.cursor = NewCursor(Since)]
  /\ look' = [look EXCEPT !.folded = @ \cup NewerThan(Since)]
  /\ UNCHANGED <<venue, acct, seen, at, writer, posts, faults>>

\* The poll failed, or was not due (hl_longtail_every; every tick of the worker
\* is the first one of its scheduler, for which it is due): nothing merged.
LongtailSkipped ==
  /\ pc = "tail" /\ pc' = "save"
  /\ UNCHANGED <<venue, acct, seen, at, copy, look, writer, posts, faults>>

Idle == /\ pc' = "idle" /\ at' = 0 /\ copy' = Default /\ look' = Unseen({})

Save ==
  /\ pc = "save" /\ Idle
  /\ acct' = copy /\ seen' = look
  /\ UNCHANGED <<venue, writer, posts, faults>>

\* The save fails, or the worker dies anywhere on the way.
Lost ==
  /\ pc # "idle" /\ Idle
  /\ faults < MaxFaults /\ faults' = faults + 1
  /\ UNCHANGED <<venue, acct, seen, writer, posts>>

-----------------------------------------------------------------------------
(* POST /permits, POST /wallets and POST /sync: load, perhaps poll, save     *)

Request ==
  /\ ~busy /\ busy' = TRUE
  /\ posts < MaxPosts /\ posts' = posts + 1
  /\ held' = acct /\ glance' = seen
  /\ UNCHANGED <<venue, acct, seen, tick, faults>>

\* sync_hyperliquid_account: fetch_account_snapshot sees every dex or fails, and
\* upsert_hyperliquid_account puts it in place of the whole account.
Replace ==
  /\ busy
  /\ held' = [Default EXCEPT !.value = raw]
  /\ glance' = Unseen(glance.opens)
  /\ UNCHANGED <<venue, acct, seen, tick, busy, posts, faults>>

Answer == busy' = FALSE /\ held' = Default /\ glance' = Unseen({})

RequestSave ==
  /\ busy /\ Answer
  /\ acct' = held /\ seen' = glance
  /\ UNCHANGED <<venue, tick, posts, faults>>

\* A call of the request fails: nothing is saved.
RequestFails ==
  /\ busy /\ Answer
  /\ faults < MaxFaults /\ faults' = faults + 1
  /\ UNCHANGED <<venue, acct, seen, tick, posts>>

Venue ==
  \/ Clock
  \/ \E d \in Trades : Trade(d)
  \/ \E d \in Transfers, legible \in BOOLEAN : Transfer(d, legible)

Next ==
  \/ Venue
  \/ Load \/ Core \/ (\E s \in Sides : CorePartial(s)) \/ CoreFails \/ Longtail \/ LongtailSkipped \/ Save \/ Lost
  \/ Request \/ Replace \/ RequestSave \/ RequestFails

Spec == Init /\ [][Next]_vars

-----------------------------------------------------------------------------
(* perp.equity_drawdown_bps                                                  *)

DrawdownBps(anchor, current) ==
  IF current >= anchor THEN 0
  ELSE LET b == ((anchor - current) * 10000 + anchor \div 2) \div anchor
       IN  IF b > 1000000 THEN 1000000 ELSE b

Served(a) == a.value # None /\ a.base # None /\ a.base > 0
PeakDrawdown(a) == DrawdownBps(IF a.hwm > 0 THEN a.hwm ELSE a.base, Neutral(a))

-----------------------------------------------------------------------------
(* Properties                                                                *)

\* merge_longtail: cumulative_net_flow is the sum of the ledger entries folded
\* into it, each once; since the first of them the cursor has passed none by but
\* one that came in the very millisecond of an entry folded before.
FlowIsLedger ==
  /\ acct.flow = SumOf(ledger, seen.folded)
  /\ \A i \in DOMAIN ledger :
       /\ ledger[i].time > acct.cursor => i \notin seen.folded
       /\ \A j \in seen.folded : j <= i /\ ledger[i].time <= acct.cursor =>
            i \in seen.folded \/ \E k \in seen.folded : ledger[k].time = ledger[i].time

\* roll_equity_anchors: a trusted baseline is the first observation of its UTC
\* day that the saved row was computed from, and the day before was observed too.
TrustedIsDayOpen ==
  acct.trusted => /\ <<acct.day, acct.base>> \in seen.opens
                  /\ \E e \in seen.opens : e[1] + 1 = acct.day

\* equity_drawdown_bps: if every roll saw all the dexes and found the transfers
\* folded, and none came after the last roll, the served drawdown is the drawdown
\* of trading equity from its best observation, whatever polls, ticks and
\* requests failed or saved an older row.
DrawdownIsReal ==
  (Served(acct) /\ seen.peak > 0 /\ seen.clean /\ seen.folded = (seen.first + 1) .. seen.rolled)
    => PeakDrawdown(acct) = DrawdownBps(seen.peak, seen.last)

\* "a stale or failed poll must not move the anchors": without transfers the
\* served drawdown is the one that trading made.
FailedPollIsNoLoss ==
  (Served(acct) /\ seen.peak > 0 /\ ledger = <<>>) => PeakDrawdown(acct) = DrawdownBps(seen.peak, seen.last)

\* "a deposit/withdrawal does not read as profit/drawdown": no transfer lifts the
\* high-water mark above the best trading equity.
DepositIsNotProfit == acct.hwm # None => acct.hwm <= seen.peak
=============================================================================
