--------------------------- MODULE AssetReducer ---------------------------
(***************************************************************************)
(* The simulator behind POST /evaluate: every action of a request is       *)
(* reduced to a delta against the wallet's predicted state, and the delta  *)
(* is applied before the next action is looked at.  A multicall does the   *)
(* same with its children on a copy, merges their deltas, and hands the    *)
(* merged delta to the caller, who applies it once more.                   *)
(*                                                                         *)
(* One wallet, one lending pool, one perp market, one sale, one airdrop,   *)
(* one NFT.  Prices, pool curves and health factors only decide whether an *)
(* action is rejected and what amounts it yields, which is a free choice.  *)
(* Amounts stay far below 2^255, where the code starts to saturate.        *)
(***************************************************************************)
EXTENDS Integers, Sequences, SequencesExt

CONSTANTS Coins,      \* ERC-20 tokens the wallet holds
          Lp,         \* an LP token it does not hold yet
          Spender, Funds, \* an address; what the wallet holds of each coin
          Amounts,    \* what an action may name, or a live input may hint
          Err, None,
          MaxActions  \* bound: actions of one request, multicalls and their children

ASSUME ReducerAssumption ==
  /\ Lp \notin Coins /\ Funds \in Nat /\ Amounts \subseteq Nat \ {0}
  /\ MaxActions \in Nat /\ IsFiniteSet(Coins)
  /\ None \notin Int /\ "nft" \notin Coins \cup {Lp} /\ "native" \notin Coins \cup {Lp}

Tokens      == Coins \cup {Lp}
PositionIds == {"loan", "perp", "sale", "drop", "hl"}
Modes       == {"stable", "variable", "fixed"}

VARIABLES before,       \* state_before
          state,        \* the running state of evaluate
          deltas,       \* deltas kept so far
          pc,           \* "ready", in a "multicall", or "stopped" at an error
          current, merged,  \* apply_multicall: its copy, its accumulated delta
          actions,      \* bounded counter
          flow,         \* history: what counterparties gave (or took) of each token
          lost,         \* history: what reducers dropped of each token, to nobody
          multiflow, multilost, \* history: the same two for the children of the running multicall
          refused       \* history: kinds of actions whose delta could not be applied

vars == <<before, state, deltas, pc, current, merged, actions, flow, lost, multiflow, multilost, refused>>

Opt(n)      == n \cup {None}
Z(x)        == IF x = None THEN 0 ELSE x
Only(t, n)  == [u \in Tokens |-> IF u = t THEN n ELSE 0]
Plus(f, g)  == [u \in Tokens |-> f[u] + g[u]]
NoFlow      == [u \in Tokens |-> 0]

-----------------------------------------------------------------------------
(* Deltas: TokenChange, PositionChange, PendingChange                        *)

Nothing == [tokens |-> <<>>, positions |-> <<>>, pending |-> <<>>]

Token(d, c)      == IF d = Err THEN Err ELSE [d EXCEPT !.tokens = Append(@, c)]
Pos(d, op, id, b) == IF d = Err THEN Err
                     ELSE [d EXCEPT !.positions = Append(@, [op |-> op, id |-> id, body |-> b])]
Pending(op, id)  == [Nothing EXCEPT !.pending = <<[op |-> op, id |-> id]>>]

\* apply_balance_delta, apply_approval_set (the map is chosen by the kind of the
\* key, and the native coin has none), apply_approval_revoke, Erc721ApprovedTo and Mint of apply_token_change.
ApplyToken(s, c) ==
  IF s = Err THEN Err
  ELSE CASE c.op = "balance" -> IF c.t = "nft" \/ s.held[c.t] = None \/ s.held[c.t] + c.n < 0 THEN Err
                                ELSE [s EXCEPT !.held[c.t] = @ + c.n]
         [] c.op = "set"     -> IF c.t = "nft" THEN [s EXCEPT !.all = TRUE]
                                ELSE IF c.t = "native" THEN Err ELSE [s EXCEPT !.erc20[c.t] = c.n]
         [] c.op = "revoke"  -> IF c.t = "nft" THEN [s EXCEPT !.all = FALSE]
                                ELSE [s EXCEPT !.erc20[c.t] = None]
         [] c.op = "lockdown" -> [s EXCEPT !.permit2 = @ \ {c.t}]
         [] c.op = "approved" -> IF ~s.nft THEN Err ELSE [s EXCEPT !.nftTo = c.n]
         [] c.op = "mint"    -> IF s.held[c.t] = None THEN [s EXCEPT !.held[c.t] = 0] ELSE s

\* apply_position_change: Update replaces the first position with the id, Close
\* removes every one of them.
ApplyPosition(s, c) ==
  IF s = Err THEN Err
  ELSE IF c.op = "open" THEN [s EXCEPT !.pos[c.id] = Append(@, c.body)]
  ELSE IF s.pos[c.id] = <<>> THEN Err
  ELSE IF c.op = "update" THEN [s EXCEPT !.pos[c.id][1] = c.body]
  ELSE [s EXCEPT !.pos[c.id] = <<>>]

\* apply_pending_change: a removal takes out every entry with the id.
Drop(q, id) == FoldLeft(LAMBDA kept, x : IF x = id THEN kept ELSE Append(kept, x), <<>>, q)
ApplyPending(s, c) ==
  IF s = Err THEN Err
  ELSE IF c.op = "add" THEN [s EXCEPT !.pending = Append(@, c.id)]
  ELSE IF ~Contains(s.pending, c.id) THEN Err
  ELSE [s EXCEPT !.pending = Drop(@, c.id)]

ApplyDelta(s, d) ==
  FoldLeft(ApplyPending, FoldLeft(ApplyPosition, FoldLeft(ApplyToken, s, d.tokens), d.positions), d.pending)

\* A merge that puts the later changes first.
MergeBackwards(a, b) == [tokens |-> b.tokens \o a.tokens, positions |-> b.positions \o a.positions,
                         pending |-> b.pending \o a.pending]
MergeDelta(a, b) == [tokens |-> a.tokens \o b.tokens, positions |-> a.positions \o b.positions,
                     pending |-> a.pending \o b.pending]

-----------------------------------------------------------------------------
(* helpers: balance.rs, approval.rs, position.rs                             *)

\* effective_signed_balance: what is held, plus the changes queued in d.
Effective(s, d, t) ==
  FoldLeft(LAMBDA n, c : IF c.op = "balance" /\ c.t = t THEN n + c.n ELSE n, s.held[t], d.tokens)

\* A debit that only looks at the state.
DebitUnqueued(s, d, t, n) == IF d = Err \/ s.held[t] = None THEN Err
                             ELSE Token(d, [op |-> "balance", t |-> t, n |-> -n])
Debit(s, d, t, n) ==
  IF d = Err THEN Err
  ELSE IF s.held[t] = None THEN Err
  ELSE IF Effective(s, d, t) < n THEN Err
  ELSE Token(d, [op |-> "balance", t |-> t, n |-> -n])

RawCredit(d, t, n) == Token(d, [op |-> "balance", t |-> t, n |-> n])
Credit(s, d, t, n) == IF d = Err \/ s.held[t] = None THEN Err ELSE RawCredit(d, t, n)
\* Settle a signed amount of cash in token t.
Settle(s, d, t, n) == IF n > 0 THEN Credit(s, d, t, n) ELSE IF n < 0 THEN Debit(s, d, t, -n) ELSE d

\* set_erc20_allowance, upsert_permit2_allowance and the delegation of a borrow:
\* one kind of change.
Allow(d, t, n) == Token(d, [op |-> "set", t |-> t, n |-> n])
Change(op, t)  == Token(Nothing, [op |-> op, t |-> t, n |-> None])

Has(s, id) == s.pos[id] # <<>>
\* The position a reducer works on (each of them changes at most one).
Body(s, id) == s.pos[id][1]
\* open_position; pushing without a look at the open ones would leave two.
OpenBlindly(s, d, id, b) == Pos(d, "open", id, b)
Open(s, d, id, b) == IF Has(s, id) THEN Err ELSE Pos(d, "open", id, b)

\* merge_collateral and merge_debt; reduce_collateral and reduce_debt, which
\* evict an entry that reaches zero.  A slip: a larger amount than the entry
\* holds, let through.
MergeEntry(f, k, n)  == [f EXCEPT ![k] = Z(@) + n]
ReduceLoosely(f, k, n) == IF Z(f[k]) <= n THEN [f EXCEPT ![k] = None] ELSE [f EXCEPT ![k] = @ - n]
ReduceEntry(f, k, n) == IF f[k] = None THEN Err
                        ELSE IF f[k] < n THEN Err
                        ELSE IF f[k] = n THEN [f EXCEPT ![k] = None] ELSE [f EXCEPT ![k] = @ - n]

\* Add to the first entry of token t in a list of <<token, amount>>, or push one.
Coalesce(es, t, n) ==
  IF \E i \in DOMAIN es : es[i][1] = t
  THEN LET i == CHOOSE i \in DOMAIN es : es[i][1] = t IN [es EXCEPT ![i] = <<t, @[2] + n>>]
  ELSE Append(es, <<t, n>>)
SumOf(es, t) == FoldLeft(LAMBDA n, e : IF e[1] = t THEN n + e[2] ELSE n, 0, es)

-----------------------------------------------------------------------------
(* Reducers.  Each is the set of its outcomes in state s: the delta (or Err), *)
(* what counterparties give the wallet of each token, and what the delta     *)
(* itself drops, which no counterparty gets.                                 *)

Lossy(kind, d, f, l) == [kind |-> kind, delta |-> d, flow |-> f, lost |-> l]
Out(kind, d, f) == Lossy(kind, d, f, NoFlow)

\* effect/token.rs.  An approval through Permit2 is recorded like any other;
\* permits and the two Permit2 signatures become pending entries.
Approve == {Out("approve", Allow(Nothing, t, n), NoFlow) : t \in Coins, n \in Amounts}
Permit2Approve == {Out("permit2", Allow(Nothing, t, n), NoFlow) : t \in Coins, n \in Amounts}
SignPermit == {Out("permit", Pending("add", "permit"), NoFlow)}
SignPermit2 == {Out("sign", Pending("add", "permit"), NoFlow)}
Transfer(s) == {Out("transfer", Debit(s, Nothing, t, n), Only(t, -n)) : t \in Coins, n \in Amounts}
Revoke == {Out(op, Change(op, t), NoFlow) : op \in {"revoke", "lockdown"}, t \in Coins}

\* transfer_nft queues a balance change of -1.
NftTransfer(s) == IF s.nft THEN Token(Nothing, [op |-> "balance", t |-> "nft", n |-> -1]) ELSE Err
\* Approvals of the collection and of the one token, and a transfer.
NftActions(s) ==
  {Out("nft_all", Change(op, "nft"), NoFlow) : op \in {"set", "revoke"}}
  \cup {Out("nft_approve", Token(Nothing, [op |-> "approved", t |-> "nft", n |-> a]), NoFlow) :
          a \in {Spender, None}}
  \cup {Out("nft_transfer", NftTransfer(s), NoFlow)}

\* Yield, staking, liquid staking, restaking, governance, marketplace, bridge,
\* permission, GSM swap, collateral purchase, authorization and (un)wrapping
\* actions change nothing.
Inert == {Out("inert", Nothing, NoFlow)}

\* effect/lending.  The account is opened by the first supply.
Account == [coll : [Coins -> Opt(Nat)], debt : [Coins \X Modes -> Opt(Nat)]]
NewAccount == [coll |-> [t \in Coins |-> None], debt |-> [k \in Coins \X Modes |-> None]]

\* other_mode: "fixed" is swapped as if it were "variable".
Other(m) == IF m = "stable" THEN "variable" ELSE "stable"

SupplyOf(s, t, n, eligible) ==
  LET d == Debit(s, Nothing, t, n)
      a == IF Has(s, "loan") THEN Body(s, "loan") ELSE NewAccount
      b == [a EXCEPT !.coll = MergeEntry(@, t, n)]
  IN  IF Has(s, "loan") THEN Pos(d, "update", "loan", b)
      ELSE Open(s, d, "loan", IF eligible THEN b ELSE NewAccount)

\* A first supply that is not eligible as collateral leaves no entry behind.
Supply(s) ==
  {Lossy("supply", SupplyOf(s, t, n, e), NoFlow, IF Has(s, "loan") \/ e THEN NoFlow ELSE Only(t, n)) :
     t \in Coins, n \in Amounts, e \in BOOLEAN}

\* Update the account to b unless there is none or b is Err.
OnAccount(s, b) == IF ~Has(s, "loan") \/ b = Err THEN Err ELSE Pos(Nothing, "update", "loan", b)
Loan(s) == Body(s, "loan")

\* What withdrawing, borrowing, repaying and changing the rate mode make of an account.
LessColl(a, t, n) == LET c == ReduceEntry(a.coll, t, n) IN IF c = Err THEN Err ELSE [a EXCEPT !.coll = c]
MoreDebt(a, k, n) == [a EXCEPT !.debt = MergeEntry(a.debt, k, n)]
LessDebt(a, k, n) == LET c == ReduceEntry(a.debt, k, n) IN IF c = Err THEN Err ELSE [a EXCEPT !.debt = c]
MoveDebt(a, from, to) == IF a.debt[from] = None THEN Err
                         ELSE [a EXCEPT !.debt = MergeEntry([a.debt EXCEPT ![from] = None], to, a.debt[from])]
ToMode(a, t, m) == MoveDebt(a, <<t, Other(m)>>, <<t, m>>)

Withdraw(s) ==
  {LET d == OnAccount(s, LessColl(Loan(s), t, n))
   IN  Out("withdraw", IF own THEN Credit(s, d, t, n) ELSE d, IF own THEN NoFlow ELSE Only(t, -n)) :
     t \in Coins, n \in Amounts, own \in BOOLEAN}

Borrow(s) ==
  {Out("borrow", Credit(s, OnAccount(s, MoreDebt(Loan(s), <<t, m>>, n)), t, n), NoFlow) :
     t \in Coins, n \in Amounts, m \in Modes}

Repay(s) ==
  {Out("repay", Debit(s, OnAccount(s, LessDebt(Loan(s), <<t, m>>, n)), t, n), NoFlow) :
     t \in Coins, n \in Amounts, m \in Modes}

\* set_emode leaves the amounts alone.
SetEMode(s) == {Out("emode", OnAccount(s, Loan(s)), NoFlow)}
SwapRateMode(s) ==
  {Out("rate_mode", OnAccount(s, ToMode(Loan(s), t, m)), NoFlow) : t \in Coins, m \in Modes}
\* Disabling a collateral drops its entry, and with it the deposit.
SetCollateral(s) ==
  {Out("enable", OnAccount(s, [Loan(s) EXCEPT !.coll = [Loan(s).coll EXCEPT ![t] = Z(@)]]), NoFlow) : t \in Coins}
  \cup {Lossy("disable", OnAccount(s, [Loan(s) EXCEPT !.coll = [Loan(s).coll EXCEPT ![t] = None]]), NoFlow,
              IF Has(s, "loan") THEN Only(t, Z(Loan(s).coll[t])) ELSE NoFlow) : t \in Coins}

\* delegate_borrow records its allowance as the others do, without a look at the
\* kind of the key.
Delegate == {Out("delegate", Allow(Nothing, t, n), NoFlow) : t \in Coins \cup {"native"}, n \in Amounts}

\* A liquidator repays in one token and receives another.
Liquidate(s) ==
  {Out("liquidate", Credit(s, Debit(s, Nothing, t, n), u, m), Plus(Only(t, -n), Only(u, m))) :
     t \in Coins, u \in Coins, n \in Amounts, m \in Amounts}

\* effect/amm: a swap may not say what it yields.
Swap(s) ==
  {Out("swap", Credit(s, Debit(s, Nothing, t, n), u, m), Plus(Only(t, -n), Only(u, m))) :
     t \in Coins, u \in Tokens, n \in Amounts, m \in Amounts}
  \cup {Out("swap", Debit(s, Nothing, t, n), Only(t, -n)) : t \in Coins, n \in Amounts}
\* apply_permit_bundle: a swap through an aggregator may carry a permit for its
\* input, which is recorded before the swap itself.
PermitBundle(t, n) == Allow(Nothing, t, n)
AggregatorSwap(s) ==
  {Out("bundled_swap", Credit(s, Debit(s, PermitBundle(t, n), t, n), u, n), Plus(Only(t, -n), Only(u, n))) :
     t \in Coins, u \in Coins, n \in Amounts}

\* The pooled forms mint or burn LP tokens; the concentrated ones only debit.
DebitAll(s, n) == FoldLeft(LAMBDA d, t : Debit(s, d, t, n), Nothing, SetToSeq(Coins))
CreditAll(s, d, n) == FoldLeft(LAMBDA e, t : Credit(s, e, t, n), d, SetToSeq(Coins))
Every(n) == [u \in Tokens |-> IF u \in Coins THEN n ELSE 0]

AddLiquidity(s) ==
  {LET d == DebitAll(s, n)
   IN  Out("add_liquidity", IF s.held[Lp] # None THEN Credit(s, d, Lp, n)
                            ELSE RawCredit(Token(d, [op |-> "mint", t |-> Lp, n |-> None]), Lp, n),
           Plus(Every(-n), Only(Lp, n))) : n \in Amounts}
  \cup {Out("mint_range", DebitAll(s, n), Every(-n)) : n \in Amounts}
\* A further amount credited on top, unless it is zero.
Rider(s, d, t, n) == IF n = 0 THEN d ELSE Credit(s, d, t, n)
\* Burning a share yields all coins, or one, and a fee owed in coin u; a range is
\* decreased without effect and its NFT given up like any other.
RemoveLiquidity(s) ==
  {Out("remove_liquidity", Rider(s, CreditAll(s, Debit(s, Nothing, Lp, n), n), u, m),
       Plus(Plus(Only(Lp, -n), Every(n)), Only(u, m))) : u \in Coins, n \in Amounts, m \in {0} \cup Amounts}
  \cup {Out("remove_one", Rider(s, Credit(s, Debit(s, Nothing, Lp, n), t, n), u, m),
            Plus(Plus(Only(Lp, -n), Only(t, n)), Only(u, m))) :
          t \in Coins, u \in Coins, n \in Amounts, m \in {0} \cup Amounts}
  \cup {Out("decrease_range", Nothing, NoFlow), Out("nft_transfer", NftTransfer(s), NoFlow)}

\* Collecting fees and claiming funding credit what a live input says.
Collect(s) == {Out("collect", Credit(s, Nothing, t, n), Only(t, n)) : t \in Coins, n \in Amounts}

\* Signed orders of venues are pending until they are cancelled; a settlement
\* and a positive pre-signature change nothing.
SignOrder == {Out("sign_order", Pending("add", "order"), NoFlow)}
EndOrder  == {Out("end_order", d, NoFlow) : d \in {Pending("remove", "order"), Nothing}}

\* effect/perp.  Orderbook venues only leave a pending entry.
PerpOpen(s) ==
  {Out("perp_open", Open(s, Debit(s, Nothing, t, n), "perp", [size |-> 2, coll |-> <<<<t, n>>>>]), NoFlow) :
     t \in Coins, n \in Amounts}
PlaceOrder  == {Out("place", Pending("add", "order"), NoFlow)}
CancelOrder == {Out("cancel", Pending("remove", "order"), NoFlow)}

\* The other perp actions work on the open position, and fail without one.
Perp(s)  == Body(s, "perp")
First(s) == Perp(s).coll[1]
OnPerp(kind, d, b, f) == Out(kind, Pos(d, "update", "perp", b), f)

PerpIncrease(s) ==
  {OnPerp("increase", Nothing, [Perp(s) EXCEPT !.size = @ + 1], NoFlow)}
  \cup {OnPerp("increase", Debit(s, Nothing, t, n),
               [size |-> Perp(s).size + 1, coll |-> Coalesce(Perp(s).coll, t, n)], NoFlow) :
          t \in Coins, n \in Amounts}

PerpDecrease(s) ==
  {OnPerp("decrease", Settle(s, Nothing, First(s)[1], c), [Perp(s) EXCEPT !.size = @ - 1], Only(First(s)[1], c)) :
     c \in {c \in {-1, 0, 1} : Perp(s).size > 1}}

\* The other tokens of a position's collateral do not come back.
PerpClose(s) == LET e == First(s) IN
  {Lossy("perp_close", Pos(Settle(s, Credit(s, Nothing, e[1], e[2]), e[1], c), "close", "perp", None),
         Only(e[1], c), [u \in Tokens |-> SumOf(Tail(Perp(s).coll), u)]) : c \in {-1, 0, 1}}

AdjustMargin(s) == LET e == First(s) IN
  {OnPerp("margin", Settle(s, Nothing, e[1], -c), [Perp(s) EXCEPT !.coll[1] = <<e[1], e[2] + c>>], NoFlow) :
     c \in {c \in {-n : n \in Amounts} \cup Amounts : e[2] + c >= 0}}

\* Leverage and margin mode leave size and collateral alone.
ChangeLeverage(s) == {OnPerp("leverage", Nothing, Perp(s), NoFlow)}

PerpActions(s) ==
  IF ~Has(s, "perp") THEN {}
  ELSE PerpIncrease(s) \cup PerpDecrease(s) \cup PerpClose(s) \cup AdjustMargin(s) \cup ChangeLeverage(s)

\* effect/airdrop.rs: the claim pushes its position without a look at the others.
Airdrop(s) == {Out("airdrop", Pos(Credit(s, Nothing, t, n), "open", "drop", [amount |-> n]), Only(t, n)) : t \in Coins, n \in Amounts}

\* effect/launchpad.rs
Sale(s) == Body(s, "sale")
Committed(s, t, n, v) == IF Has(s, "sale") THEN [Sale(s) EXCEPT !.paid = Coalesce(@, t, n)]
                         ELSE [paid |-> <<<<t, n>>>>, token |-> t, claimed |-> 0, vest |-> v]
Commit(s) ==
  {Out("commit", Pos(Debit(s, Nothing, t, n), IF Has(s, "sale") THEN "update" ELSE "open", "sale", Committed(s, t, n, v)),
       Only(t, -n)) : t \in Coins, n \in Amounts, v \in BOOLEAN}

\* Claims and withdrawals work on the open participation; a refund may do without
\* one.  An allocation may refund a part m of what was paid.
Payer(s) == Sale(s).paid[1][1]
Claimed(s, t, n) == IF Sale(s).vest THEN [Sale(s) EXCEPT !.token = t] ELSE [Sale(s) EXCEPT !.token = t, !.claimed = n]
Allocation(s, t, n, m) == Rider(s, Credit(s, Nothing, t, n), Payer(s), m)
ClaimAllocation(s) ==
  {Out("claim_allocation", Pos(Allocation(s, t, n, m), "update", "sale", Claimed(s, t, n)), Plus(Only(t, n), Only(Payer(s), m))) :
     t \in Coins, n \in Amounts, m \in {0, 1}}

ClaimVested(s) ==
  {Out("claim_vested", Pos(Credit(s, Nothing, Sale(s).token, n), "update", "sale", [Sale(s) EXCEPT !.claimed = @ + n]),
       Only(Sale(s).token, n)) : n \in Amounts}

WithdrawCommit(s) == LET e == Sale(s).paid[1] IN
  {LET d == Credit(s, Nothing, e[1], n)
       total == FoldLeft(LAMBDA k, x : k + x[2], 0, Sale(s).paid)
   IN  Out("withdraw_commit", IF n >= total THEN Pos(d, "close", "sale", None)
                              ELSE Pos(d, "update", "sale", [Sale(s) EXCEPT !.paid[1] = <<e[1], IF n > e[2] THEN 0 ELSE e[2] - n>>]),
           Only(e[1], n)) : n \in Amounts}

SaleActions(s) == IF ~Has(s, "sale") THEN {} ELSE ClaimAllocation(s) \cup ClaimVested(s) \cup WithdrawCommit(s)

Refund(s) ==
  {LET d == Credit(s, Nothing, t, n)
   IN  Out("refund", IF Has(s, "sale") THEN Pos(d, "close", "sale", None) ELSE d, Only(t, n)) : t \in Coins, n \in Amounts}

\* effect/hyperliquid_core: an unsynced account has no balance to check.  A
\* synced one that is not checked either would go below zero.
OutflowUnchecked(s) ==
  {LET a == IF Has(s, "hl") THEN Body(s, "hl") ELSE [usdc |-> None, out |-> 0]
       b == [usdc |-> IF a.usdc = None THEN None ELSE a.usdc - n, out |-> a.out + n]
   IN  Out("outflow", Pos(Nothing, IF Has(s, "hl") THEN "update" ELSE "open", "hl", b), NoFlow) : n \in Amounts}
Outflow(s) ==
  {Out("outflow", IF ~Has(s, "hl") THEN Open(s, Nothing, "hl", [usdc |-> None, out |-> n])
                  ELSE LET a == Body(s, "hl")
                       IN  IF a.usdc = None THEN Pos(Nothing, "update", "hl", [a EXCEPT !.out = @ + n])
                           ELSE IF a.usdc < n THEN Err
                           ELSE Pos(Nothing, "update", "hl", [usdc |-> a.usdc - n, out |-> a.out + n]), NoFlow) : n \in Amounts}

\* A live input (paused reserve, cap, health factor, slippage floor, window), a
\* missing position or an unknown call may reject any action.
Rejected == Out("rejected", Err, NoFlow)

Reductions(s) ==
  {Rejected} \cup Approve \cup Permit2Approve \cup SignPermit \cup SignPermit2 \cup Transfer(s) \cup Revoke \cup NftActions(s) \cup Inert
  \cup Supply(s) \cup Withdraw(s) \cup Borrow(s) \cup Repay(s) \cup Liquidate(s) \cup Delegate
  \cup SetEMode(s) \cup SwapRateMode(s) \cup SetCollateral(s)
  \cup Swap(s) \cup AggregatorSwap(s) \cup AddLiquidity(s) \cup RemoveLiquidity(s) \cup Collect(s) \cup SignOrder \cup EndOrder
  \cup PerpOpen(s) \cup PlaceOrder \cup CancelOrder \cup PerpActions(s)
  \cup Airdrop(s) \cup Commit(s) \cup SaleActions(s) \cup Refund(s)
  \cup Outflow(s)

-----------------------------------------------------------------------------
(* evaluate and apply_multicall                                              *)

Wallet(loan, hl, p2) ==
  [held |-> [t \in Tokens |-> IF t \in Coins THEN Funds ELSE None],
   nft |-> TRUE, nftTo |-> None, all |-> FALSE,
   erc20 |-> [t \in Coins |-> None], permit2 |-> p2,
   pos |-> [id \in PositionIds |-> IF id = "loan" THEN loan ELSE IF id = "hl" THEN hl ELSE <<>>],
   pending |-> <<>>]

Init ==
  /\ before \in {Wallet(<<>>, <<>>, {}),
                  Wallet(<<[NewAccount EXCEPT !.coll = [t \in Coins |-> 2]]>>, <<[usdc |-> 1, out |-> 0]>>, Coins)}
  /\ state = before /\ deltas = <<>> /\ pc = "ready"
  /\ current = None /\ merged = None /\ actions = 0
  /\ flow = NoFlow /\ lost = NoFlow /\ multiflow = NoFlow /\ multilost = NoFlow /\ refused = {}

\* An error ends the loop; what was kept until then is answered.  A multicall
\* that worked on the state itself would leave half of it behind.
StopHalfway == /\ pc' = "stopped" /\ state' = IF current = None THEN state ELSE current
               /\ current' = None /\ merged' = None /\ UNCHANGED <<deltas, flow, lost>>
Stop == pc' = "stopped" /\ current' = None /\ merged' = None /\ UNCHANGED <<state, deltas, flow, lost>>

Applied(s, d) == IF d = Err THEN Err ELSE ApplyDelta(s, d)
Refused(s, r) == IF r.delta # Err /\ Applied(s, r.delta) = Err THEN {r.kind} ELSE {}

Keep(d, f, l) == /\ state' = Applied(state, d) /\ deltas' = Append(deltas, d)
                 /\ flow' = Plus(flow, f) /\ lost' = Plus(lost, l)
                 /\ pc' = "ready" /\ current' = None /\ merged' = None

\* One envelope that is not a multicall.
Envelope(r) ==
  /\ pc = "ready" /\ actions < MaxActions /\ actions' = actions + 1
  /\ IF Applied(state, r.delta) = Err THEN Stop ELSE Keep(r.delta, r.flow, r.lost)
  /\ refused' = refused \cup Refused(state, r)
  /\ UNCHANGED <<before, multiflow, multilost>>

BeginMulticall ==
  /\ pc = "ready" /\ actions < MaxActions /\ actions' = actions + 1
  /\ pc' = "multicall" /\ current' = state /\ merged' = Nothing
  /\ multiflow' = NoFlow /\ multilost' = NoFlow
  /\ UNCHANGED <<before, state, deltas, flow, lost, refused>>

Child(r) ==
  /\ pc = "multicall" /\ actions < MaxActions /\ actions' = actions + 1
  /\ IF Applied(current, r.delta) = Err
     THEN Stop /\ UNCHANGED <<multiflow, multilost>>
     ELSE /\ current' = Applied(current, r.delta) /\ merged' = MergeDelta(merged, r.delta)
          /\ multiflow' = Plus(multiflow, r.flow) /\ multilost' = Plus(multilost, r.lost)
          /\ UNCHANGED <<pc, state, deltas, flow, lost>>
  /\ refused' = refused \cup Refused(current, r)
  /\ UNCHANGED before

EndMulticall ==
  /\ pc = "multicall"
  /\ IF Applied(state, merged) = Err THEN Stop ELSE Keep(merged, multiflow, multilost)
  /\ refused' = refused \cup Refused(state, Out("multicall", merged, multiflow))
  /\ UNCHANGED <<before, actions, multiflow, multilost>>

Next ==
  \/ pc = "ready" /\ \E r \in Reductions(state) : Envelope(r)
  \/ BeginMulticall
  \/ pc = "multicall" /\ \E r \in Reductions(current) : Child(r)
  \/ EndMulticall

Spec == Init /\ [][Next]_vars

-----------------------------------------------------------------------------
(* Properties                                                                *)

Entries  == Seq(Coins \X Nat) \ {<<>>}
PerpBody == [size : Nat \ {0}, coll : Entries]
SaleBody == [paid : Entries, token : Coins, claimed : Nat, vest : BOOLEAN]
DropBody == [amount : Nat]
HlBody   == [usdc : Opt(Nat), out : Nat]
Bodies   == Account \cup PerpBody \cup SaleBody \cup DropBody \cup HlBody
BodyOf(id) ==
  CASE id = "loan" -> Account
    [] id = "perp" -> PerpBody
    [] id = "sale" -> SaleBody
    [] id = "drop" -> DropBody
    [] id = "hl"   -> HlBody

Wallets ==
  {s \in [held : [Tokens -> Opt(Nat)], erc20 : [Coins -> Opt(Nat)], permit2 : SUBSET Coins,
          nft : BOOLEAN, nftTo : {Spender, None}, all : BOOLEAN,
          pos : [PositionIds -> Seq(Bodies)], pending : Seq({"permit", "order"})] :
     \A id \in PositionIds : s.pos[id] \in Seq(BodyOf(id))}

TokenChange ==
  {c \in [op : {"balance", "set", "revoke", "lockdown", "approved", "mint"},
          t : Tokens \cup {"nft", "native"}, n : Int \cup {Spender, None}] :
     /\ c.op = "balance"  => c.n \in Int /\ c.t # "native"
     /\ c.op = "set"      => c.t \in {"nft", "native"} \/ (c.t \in Coins /\ c.n \in Nat)
     /\ c.op = "revoke"   => c.t = "nft" \/ c.t \in Coins
     /\ c.op = "approved" => c.n \in {Spender, None}
     /\ c.op = "mint"     => c.t \in Tokens}
PositionChange ==
  {c \in [op : {"open", "update", "close"}, id : PositionIds, body : Bodies \cup {None}] :
     c.op # "close" => c.body \in BodyOf(c.id)}
PendingChange == [op : {"add", "remove"}, id : {"permit", "order"}]
Deltas == [tokens : Seq(TokenChange), positions : Seq(PositionChange), pending : Seq(PendingChange)]

\* An error is none of the values it stands beside.
ASSUME ErrAssumption ==
  /\ Err \notin Wallets /\ Err \notin Deltas /\ Err \notin Account
  /\ Err \notin [Coins -> Opt(Nat)] /\ Err \notin [Coins \X Modes -> Opt(Nat)]

\* Amounts never go below zero, in the running state and in a multicall's copy,
\* and no reducer leaves a position that another would choke on.
TypeOK ==
  /\ pc \in {"ready", "multicall", "stopped"} /\ actions \in 0 .. MaxActions
  /\ before \in Wallets /\ state \in Wallets /\ deltas \in Seq(Deltas)
  /\ flow \in [Tokens -> Int] /\ multiflow \in [Tokens -> Int]
  /\ lost \in [Tokens -> Nat] /\ multilost \in [Tokens -> Nat]
  /\ pc = "multicall" => current \in Wallets /\ merged \in Deltas

\* apply_multicall, "sequence merge: apply a then b": the merged delta brings the
\* wallet where its children brought their copy.
MergedIsSequential == pc = "multicall" => ApplyDelta(state, merged) = current

\* evaluate: the deltas answered are exactly what leads from state_before to
\* state_after, also when an action or a child of a multicall failed.
DeltasExplainState == FoldLeft(ApplyDelta, before, deltas) = state

\* A delta that a reducer returned can be applied, except for the NFT changes,
\* cancellations and delegations that are queued without a look at state or key.
ReducedApplies == refused \subseteq {"nft_transfer", "nft_approve", "cancel", "end_order", "delegate"}

Collateral(s, t) == IF Has(s, "loan") THEN Z(Body(s, "loan").coll[t]) ELSE 0
DebtOf(debt, t)  == Z(debt[<<t, "stable">>]) + Z(debt[<<t, "variable">>]) + Z(debt[<<t, "fixed">>])
Debt(s, t)       == IF Has(s, "loan") THEN DebtOf(Body(s, "loan").debt, t) ELSE 0
Margin(s, t)     == IF Has(s, "perp") THEN SumOf(Body(s, "perp").coll, t) ELSE 0
Worth(s, t) == Z(s.held[t]) + Margin(s, t) + (IF t \in Coins THEN Collateral(s, t) - Debt(s, t) ELSE 0)

\* Supplies, loans, margins and multicalls make no tokens, and lose none but the
\* ones that three reducers drop: a disabled collateral (set_collateral), the
\* collateral after the first of a closed perp (close), a first supply that is not
\* eligible (supply).  All else the wallet's worth moves by is what
\* counterparties gave and took.
Conserved ==
  /\ \A t \in Tokens : Worth(state, t) = Worth(before, t) + flow[t] - lost[t]
  /\ pc = "multicall" => \A t \in Tokens : Worth(current, t) = Worth(state, t) + multiflow[t] - multilost[t]

\* set_collateral, "does not change token balances - it only flips a flag": a
\* wallet that comes with a lending account keeps what it deposited there.  The
\* code drops the whole entry on disabling.
DepositKept ==
  Has(before, "loan") => \A t \in Tokens : Worth(state, t) = Worth(before, t) + flow[t]

\* close, "the venue returns the locked margin": with no lending account, a wallet
\* that opened, increased and closed a perp is left with what it had and what
\* counterparties gave.  The code returns the first collateral token only.
MarginReturns ==
  ~Has(before, "loan") /\ ~Has(state, "loan") => \A t \in Tokens : Worth(state, t) = Worth(before, t) + flow[t]

\* Positions found by their id exist once (a repeated airdrop claim excepted).
OneEach(s) == \A id \in PositionIds \ {"drop"} : Len(s.pos[id]) <= 1
OnePerId == OneEach(state)

-----------------------------------------------------------------------------
\* The inductive invariant behind all of them.
ReducerInv ==
  /\ TypeOK /\ MergedIsSequential /\ DeltasExplainState /\ ReducedApplies /\ Conserved
  /\ OnePerId /\ (pc = "multicall" => OneEach(current))
=============================================================================
