------------------------ MODULE AssetReducerProofs ------------------------
(***************************************************************************)
(* Proofs about AssetReducer, for any tokens, amounts, actions and lengths *)
(* of requests and multicalls.                                             *)
(*                                                                         *)
(* apply_delta is three folds, and merging moves every token change before *)
(* every position and pending change: it is harmless because changes of    *)
(* different kinds commute, shown for single changes and carried to        *)
(* sequences by the theorems of Folding.  Moves says what a delta does to  *)
(* the tokens of a wallet, Good what an outcome of a reducer does to the   *)
(* wallet: it applies, keeps one position per id, and moves the worth by   *)
(* what counterparties give.  One lemma per reducer shows Good of each of  *)
(* its outcomes; ReducerInv, the conjunction of the properties, is then    *)
(* inductive.                                                              *)
(***************************************************************************)
EXTENDS AssetReducer, FiniteSetTheorems, TLAPS

-----------------------------------------------------------------------------
(* The folds of the model                                                    *)

TokenStep(p, s, c)    == ApplyToken(s, c)
PositionStep(p, s, c) == ApplyPosition(s, c)
PendingStep(p, s, c)  == ApplyPending(s, c)
DeltaStep(p, s, d)    == ApplyDelta(s, d)
DropStep(id, kept, x) == IF x = id THEN kept ELSE Append(kept, x)
EffectiveStep(t, n, c) == IF c.op = "balance" /\ c.t = t THEN n + c.n ELSE n
SumStep(t, n, e) == IF e[1] = t THEN n + e[2] ELSE n

Tok  == INSTANCE Folding WITH Op <- TokenStep
Posn == INSTANCE Folding WITH Op <- PositionStep
Pend == INSTANCE Folding WITH Op <- PendingStep
Del  == INSTANCE Folding WITH Op <- DeltaStep
Dro  == INSTANCE Folding WITH Op <- DropStep
Eff  == INSTANCE Folding WITH Op <- EffectiveStep
Summ == INSTANCE Folding WITH Op <- SumStep

AllTokens(s, q)    == Tok!Fold(None, s, q)
AllPositions(s, q) == Posn!Fold(None, s, q)
AllPending(s, q)   == Pend!Fold(None, s, q)

LEMMA TokenFold == \A s, q : FoldLeft(ApplyToken, s, q) = AllTokens(s, q)
BY DEF AllTokens, TokenStep, FoldLeft, MapThenFoldSet, Max, Tok!Fold, Tok!FoldLeft, Tok!MapThenFoldSet, Tok!Max
LEMMA PositionFold == \A s, q : FoldLeft(ApplyPosition, s, q) = AllPositions(s, q)
BY DEF AllPositions, PositionStep, FoldLeft, MapThenFoldSet, Max, Posn!Fold, Posn!FoldLeft, Posn!MapThenFoldSet, Posn!Max
LEMMA PendingFold == \A s, q : FoldLeft(ApplyPending, s, q) = AllPending(s, q)
BY DEF AllPending, PendingStep, FoldLeft, MapThenFoldSet, Max, Pend!Fold, Pend!FoldLeft, Pend!MapThenFoldSet, Pend!Max
LEMMA DeltaFold == \A s, q : FoldLeft(ApplyDelta, s, q) = Del!Fold(None, s, q)
BY DEF DeltaStep, FoldLeft, MapThenFoldSet, Max, Del!Fold, Del!FoldLeft, Del!MapThenFoldSet, Del!Max
LEMMA DropFold == \A q, id : Drop(q, id) = Dro!Fold(id, <<>>, q)
BY DEF Drop, DropStep, FoldLeft, MapThenFoldSet, Max, Dro!Fold, Dro!FoldLeft, Dro!MapThenFoldSet, Dro!Max

LEMMA EffectiveFold == \A s, d, t : Effective(s, d, t) = Eff!Fold(t, s.held[t], d.tokens)
BY DEF Effective, EffectiveStep, FoldLeft, MapThenFoldSet, Max, Eff!Fold, Eff!FoldLeft, Eff!MapThenFoldSet, Eff!Max

LEMMA SumFold == \A es, t : SumOf(es, t) = Summ!Fold(t, 0, es)
BY DEF SumOf, SumStep, FoldLeft, MapThenFoldSet, Max, Summ!Fold, Summ!FoldLeft, Summ!MapThenFoldSet, Summ!Max

LEMMA ApplyDeltaFolds ==
  \A s, d : ApplyDelta(s, d) = AllPending(AllPositions(AllTokens(s, d.tokens), d.positions), d.pending)
<1> TAKE s, d
<1> DEFINE a == FoldLeft(ApplyToken, s, d.tokens)
           b == FoldLeft(ApplyPosition, a, d.positions)
<1>1. a = AllTokens(s, d.tokens)  BY TokenFold
<1>2. b = AllPositions(a, d.positions)  
  <2> HIDE DEF a
  <2>. QED BY PositionFold
<1>3. ApplyDelta(s, d) = FoldLeft(ApplyPending, b, d.pending)  BY DEF ApplyDelta
<1> HIDE DEF a, b
<1>4. FoldLeft(ApplyPending, b, d.pending) = AllPending(b, d.pending)  BY PendingFold
<1>. QED  BY <1>1, <1>2, <1>3, <1>4

\* A wallet, or the error that an earlier change left.
Results == Wallets \cup {Err}

LEMMA SetHeld ==
  ASSUME NEW s \in Wallets, NEW t \in Tokens, NEW v \in Opt(Nat)
  PROVE  LET w == [s EXCEPT !.held[t] = v]
         IN  w \in Wallets /\ w.pos = s.pos /\ w.pending = s.pending /\ w.held = [s.held EXCEPT ![t] = v]
BY DEF Wallets
LEMMA SetErc ==
  ASSUME NEW s \in Wallets, NEW t \in Coins, NEW v \in Opt(Nat)
  PROVE  LET w == [s EXCEPT !.erc20[t] = v]
         IN  w \in Wallets /\ w.pos = s.pos /\ w.pending = s.pending /\ w.held = s.held
BY DEF Wallets
LEMMA BodyIn == \A id \in PositionIds : BodyOf(id) \subseteq Bodies
BY DEF BodyOf, Bodies, PositionIds
LEMMA SetPos ==
  ASSUME NEW s \in Wallets, NEW id \in PositionIds, NEW q \in Seq(BodyOf(id))
  PROVE  [s EXCEPT !.pos[id] = q] \in Wallets
<1>1. q \in Seq(Bodies)  BY BodyIn
<1>2. [s.pos EXCEPT ![id] = q] \in [PositionIds -> Seq(Bodies)] /\ \A k \in PositionIds : [s.pos EXCEPT ![id] = q][k] \in Seq(BodyOf(k))  BY <1>1 DEF Wallets
<1>. QED  BY <1>2 DEF Wallets
LEMMA SetRest ==
  ASSUME NEW s \in Wallets, NEW w,
         \/ \E b \in BOOLEAN : w = [s EXCEPT !.all = b]
         \/ \E a \in {Spender, None} : w = [s EXCEPT !.nftTo = a]
         \/ \E p \in SUBSET Coins : w = [s EXCEPT !.permit2 = p]
  PROVE  w \in Wallets /\ w.pos = s.pos /\ w.pending = s.pending /\ w.held = s.held
BY DEF Wallets
LEMMA SetPending ==
  ASSUME NEW s \in Wallets, NEW q \in Seq({"permit", "order"})
  PROVE  [s EXCEPT !.pending = q] \in Wallets
BY DEF Wallets

LEMMA DropType == ASSUME NEW S, NEW q \in Seq(S), NEW id PROVE Drop(q, id) \in Seq(S)
<1>1. \A a \in Seq(S), e \in S : DropStep(id, a, e) \in Seq(S)  BY DEF DropStep
<1>2. <<>> \in Seq(S)  OBVIOUS
<1>3. Dro!Fold(id, <<>>, q) \in Seq(S)  BY <1>1, <1>2, Dro!FoldType
<1>. QED  BY <1>3, DropFold

-----------------------------------------------------------------------------
(* What a change does to each part of the wallet                             *)

\* What a token change does to each part of the wallet.
NoToken(s, c) == \/ c.op = "balance" /\ (c.t = "nft" \/ s.held[c.t] = None \/ s.held[c.t] + c.n < 0)
                 \/ c.op = "set" /\ c.t = "native"
                 \/ c.op = "approved" /\ ~s.nft
NewHeld(h, c) == IF c.op = "balance" THEN [h EXCEPT ![c.t] = h[c.t] + c.n]
                 ELSE IF c.op = "mint" /\ h[c.t] = None THEN [h EXCEPT ![c.t] = 0] ELSE h
NewErc(e, c)  == IF c.t = "nft" THEN e ELSE IF c.op = "set" THEN [e EXCEPT ![c.t] = c.n]
                 ELSE IF c.op = "revoke" THEN [e EXCEPT ![c.t] = None] ELSE e
NewAll(b, c)  == IF c.t # "nft" THEN b ELSE IF c.op = "set" THEN TRUE ELSE IF c.op = "revoke" THEN FALSE ELSE b
NewTo(a, c)   == IF c.op = "approved" THEN c.n ELSE a
NewP2(q, c)   == IF c.op = "lockdown" THEN q \ {c.t} ELSE q
NewTokens(s, c) == [held |-> NewHeld(s.held, c), erc20 |-> NewErc(s.erc20, c), permit2 |-> NewP2(s.permit2, c),
                    nft |-> s.nft, nftTo |-> NewTo(s.nftTo, c), all |-> NewAll(s.all, c),
                    pos |-> s.pos, pending |-> s.pending]

LEMMA WalletIs ==
  ASSUME NEW s \in Wallets
  PROVE  s = [held |-> s.held, erc20 |-> s.erc20, permit2 |-> s.permit2, nft |-> s.nft, nftTo |-> s.nftTo,
              all |-> s.all, pos |-> s.pos, pending |-> s.pending]
BY DEF Wallets

LEMMA AllIs ==
  ASSUME NEW s \in Wallets, NEW b \in BOOLEAN
  PROVE  [s EXCEPT !.all = b] =
             [held |-> s.held, erc20 |-> s.erc20, permit2 |-> s.permit2, nft |-> s.nft, nftTo |-> s.nftTo,
              all |-> b, pos |-> s.pos, pending |-> s.pending]
BY DEF Wallets

LEMMA TokenIs ==
  ASSUME NEW s \in Wallets, NEW c \in TokenChange
  PROVE  ApplyToken(s, c) = IF NoToken(s, c) THEN Err ELSE NewTokens(s, c)
<1>0. s # Err  BY ErrAssumption
<1> USE <1>0, WalletIs DEF ApplyToken, NoToken, NewTokens, NewHeld, NewErc, NewAll, NewTo, NewP2
<1>2. CASE c.op = "balance"
  <2>1. ~NoToken(s, c) => [s EXCEPT !.held[c.t] = @ + c.n] = NewTokens(s, c)  BY <1>2
  <2>. QED  BY <1>2, <2>1
<1>3. CASE c.op = "set"  
  <2>1. CASE c.t = "nft"
    <3>1. ApplyToken(s, c) = [s EXCEPT !.all = TRUE] /\ ~NoToken(s, c)  BY <1>3, <2>1
    <3>2. NewTokens(s, c) = [s EXCEPT !.all = TRUE]  BY <1>3, <2>1, AllIs
    <3>. QED  BY <3>1, <3>2
  <2>2. CASE c.t # "nft" BY <1>3, <2>2
  <2>. QED  BY <2>1, <2>2
<1>4. CASE c.op = "revoke" 
  <2>1. CASE c.t = "nft"
    <3>1. ApplyToken(s, c) = [s EXCEPT !.all = FALSE] /\ ~NoToken(s, c)  BY <1>4, <2>1
    <3>2. NewTokens(s, c) = [s EXCEPT !.all = FALSE]  BY <1>4, <2>1, AllIs
    <3>. QED  BY <3>1, <3>2
  <2>2. CASE c.t # "nft" BY <1>4, <2>2
  <2>. QED  BY <2>1, <2>2
<1>5. CASE c.op = "lockdown"  BY <1>5
<1>6. CASE c.op = "approved"  BY <1>6
<1>7. CASE c.op = "mint"  BY <1>7
<1>. QED  BY <1>2, <1>3, <1>4, <1>5, <1>6, <1>7 DEF TokenChange

LEMMA TokenResult ==
  ASSUME NEW s \in Wallets, NEW c \in TokenChange, ~NoToken(s, c)
  PROVE  /\ ApplyToken(s, c) \in Wallets
         /\ ApplyToken(s, c).pos = s.pos /\ ApplyToken(s, c).pending = s.pending
<1>0. s # Err /\ s.held \in [Tokens -> Opt(Nat)] /\ s.permit2 \in SUBSET Coins
  BY ErrAssumption DEF Wallets
<1>1. CASE c.op = "balance"
  <2>1. /\ c.t # "nft" /\ s.held[c.t] # None /\ ~(s.held[c.t] + c.n < 0)
        /\ ApplyToken(s, c) = [s EXCEPT !.held[c.t] = @ + c.n]
    BY <1>0, <1>1 DEF ApplyToken, NoToken
  <2>2. c.t \in Tokens /\ c.n \in Int  BY <1>1, <2>1 DEF TokenChange
  <2>3. s.held[c.t] + c.n \in Opt(Nat)  BY <1>0, <2>1, <2>2 DEF Opt
  <2>4. ApplyToken(s, c) = [s EXCEPT !.held[c.t] = s.held[c.t] + c.n]  BY <2>1, <2>2, <1>0 DEF Wallets
  <2>. QED  BY <2>2, <2>3, <2>4, SetHeld
<1>2. CASE c.op = "set"
  <2>1. CASE c.t = "nft"
    <3>1. ApplyToken(s, c) = [s EXCEPT !.all = TRUE]  BY <1>0, <1>2, <2>1 DEF ApplyToken
    <3>. QED  BY <3>1, SetRest
  <2>2. CASE c.t # "nft"
    <3>0. c.t # "native"  BY <1>2 DEF NoToken
    <3>1. ApplyToken(s, c) = [s EXCEPT !.erc20[c.t] = c.n]  BY <1>0, <1>2, <2>2, <3>0 DEF ApplyToken
    <3>2. c.t \in Coins /\ c.n \in Opt(Nat)  BY <1>2, <2>2, <3>0 DEF TokenChange, Opt
    <3>. QED  BY <3>1, <3>2, SetErc
  <2>. QED  BY <2>1, <2>2
<1>3. CASE c.op = "revoke"
  <2>1. CASE c.t = "nft"
    <3>1. ApplyToken(s, c) = [s EXCEPT !.all = FALSE]  BY <1>0, <1>3, <2>1 DEF ApplyToken
    <3>. QED  BY <3>1, SetRest
  <2>2. CASE c.t # "nft"
    <3>1. ApplyToken(s, c) = [s EXCEPT !.erc20[c.t] = None]  BY <1>0, <1>3, <2>2 DEF ApplyToken
    <3>2. c.t \in Coins /\ None \in Opt(Nat)  BY <1>3, <2>2 DEF TokenChange, Opt
    <3>. QED  BY <3>1, <3>2, SetErc
  <2>. QED  BY <2>1, <2>2
<1>4. CASE c.op = "lockdown"
  <2>1. ApplyToken(s, c) = [s EXCEPT !.permit2 = s.permit2 \ {c.t}]  BY <1>0, <1>4 DEF ApplyToken, Wallets
  <2>2. s.permit2 \ {c.t} \in SUBSET Coins  BY <1>0
  <2>. QED  BY <2>1, <2>2, SetRest
<1>5. CASE c.op = "approved"
  <2>1. ApplyToken(s, c) = [s EXCEPT !.nftTo = c.n] /\ c.n \in {Spender, None}
    BY <1>0, <1>5 DEF ApplyToken, TokenChange, NoToken
  <2>. QED  BY <2>1, SetRest
<1>6. CASE c.op = "mint"
  <2>1. ApplyToken(s, c) = [s EXCEPT !.held[c.t] = 0] \/ ApplyToken(s, c) = s
    BY <1>0, <1>6 DEF ApplyToken
  <2>2. c.t \in Tokens /\ 0 \in Opt(Nat)  BY <1>6 DEF TokenChange, Opt
  <2>3. CASE ApplyToken(s, c) = s  BY <2>3
  <2>4. CASE ApplyToken(s, c) = [s EXCEPT !.held[c.t] = 0]  BY <2>2, <2>4, SetHeld
  <2>. QED  BY <2>1, <2>3, <2>4
<1>. QED  BY <1>1, <1>2, <1>3, <1>4, <1>5, <1>6 DEF TokenChange

NewPos(y, c) == [y EXCEPT ![c.id] = IF c.op = "open" THEN Append(y[c.id], c.body)
                                    ELSE IF c.op = "update" THEN [y[c.id] EXCEPT ![1] = c.body] ELSE <<>>]
NewPending(z, c) == IF c.op = "add" THEN Append(z, c.id) ELSE Drop(z, c.id)
NoPos(y, c)      == c.op # "open" /\ y[c.id] = <<>>
NoPending(z, c)  == c.op # "add" /\ ~Contains(z, c.id)
With(s, y, z) == [held |-> s.held, erc20 |-> s.erc20, permit2 |-> s.permit2, nft |-> s.nft, nftTo |-> s.nftTo,
                  all |-> s.all, pos |-> y, pending |-> z]

LEMMA PositionIs ==
  ASSUME NEW s \in Wallets, NEW c \in PositionChange
  PROVE  /\ NoPos(s.pos, c) => ApplyPosition(s, c) = Err
         /\ ~NoPos(s.pos, c) => /\ ApplyPosition(s, c) = With(s, NewPos(s.pos, c), s.pending)
                                /\ With(s, NewPos(s.pos, c), s.pending) \in Wallets
<1>0. s # Err /\ c.id \in PositionIds /\ s.pos[c.id] \in Seq(BodyOf(c.id)) /\ s.pos \in [PositionIds -> Seq(Bodies)]
  BY ErrAssumption DEF Wallets, PositionChange
<1>1. NoPos(s.pos, c) => ApplyPosition(s, c) = Err  BY <1>0 DEF ApplyPosition, NoPos
<1>2. ASSUME ~NoPos(s.pos, c)
      PROVE  /\ ApplyPosition(s, c) = With(s, NewPos(s.pos, c), s.pending)
             /\ With(s, NewPos(s.pos, c), s.pending) \in Wallets
  <2> DEFINE q == IF c.op = "open" THEN Append(s.pos[c.id], c.body)
                  ELSE IF c.op = "update" THEN [s.pos[c.id] EXCEPT ![1] = c.body] ELSE <<>>
  <2>1. NewPos(s.pos, c) = [s.pos EXCEPT ![c.id] = q]  BY DEF NewPos
  <2>2. ApplyPosition(s, c) = [s EXCEPT !.pos[c.id] = q]
    BY <1>0, <1>2 DEF ApplyPosition, PositionChange, NoPos, Wallets
  <2>3. q \in Seq(BodyOf(c.id))
    <3>1. CASE c.op = "close"  BY <3>1
    <3>2. CASE c.op = "open"
      <4>1. c.body \in BodyOf(c.id)  BY <3>2 DEF PositionChange
      <4>. QED  BY <1>0, <3>2, <4>1
    <3>3. CASE c.op = "update"
      <4>1. c.body \in BodyOf(c.id)  BY <3>3 DEF PositionChange
      <4>2. s.pos[c.id] # <<>>  BY <1>2, <3>3 DEF NoPos
      <4>3. 1 \in 1 .. Len(s.pos[c.id])  BY <1>0, <4>2
      <4>. QED  BY <1>0, <3>3, <4>1, <4>3
    <3>. QED  BY <3>1, <3>2, <3>3 DEF PositionChange
  <2> HIDE DEF q
  <2>4. [s EXCEPT !.pos[c.id] = q] \in Wallets  BY <1>0, <2>3, SetPos
  <2>5. [s EXCEPT !.pos[c.id] = q] = With(s, [s.pos EXCEPT ![c.id] = q], s.pending)  BY WalletIs DEF With
  <2>. QED  BY <2>1, <2>2, <2>4, <2>5
<1>. QED  BY <1>1, <1>2

LEMMA PendingIs ==
  ASSUME NEW s \in Wallets, NEW c \in PendingChange
  PROVE  /\ NoPending(s.pending, c) => ApplyPending(s, c) = Err
         /\ ~NoPending(s.pending, c) => /\ ApplyPending(s, c) = With(s, s.pos, NewPending(s.pending, c))
                                        /\ With(s, s.pos, NewPending(s.pending, c)) \in Wallets
<1>0. s # Err /\ s.pending \in Seq({"permit", "order"}) /\ c.id \in {"permit", "order"}
  BY ErrAssumption DEF Wallets, PendingChange
<1>1. NoPending(s.pending, c) => ApplyPending(s, c) = Err  BY <1>0 DEF ApplyPending, NoPending
<1> DEFINE q == NewPending(s.pending, c)
<1>2. ~NoPending(s.pending, c) => ApplyPending(s, c) = [s EXCEPT !.pending = q]
  BY <1>0 DEF ApplyPending, NoPending, NewPending, Wallets
<1>3. q \in Seq({"permit", "order"})
  <2>1. Drop(s.pending, c.id) \in Seq({"permit", "order"})  BY <1>0, DropType
  <2>2. Append(s.pending, c.id) \in Seq({"permit", "order"})  BY <1>0
  <2>. QED  BY <2>1, <2>2 DEF NewPending
<1> HIDE DEF q
<1>4. [s EXCEPT !.pending = q] \in Wallets  BY <1>3, SetPending
<1>5. [s EXCEPT !.pending = q] = With(s, s.pos, q)  BY WalletIs DEF With
<1>. QED  BY <1>1, <1>2, <1>4, <1>5 DEF q

-----------------------------------------------------------------------------
(* Changes of the three kinds commute                                        *)

LEMMA ErrStays == \A c : ApplyToken(Err, c) = Err /\ ApplyPosition(Err, c) = Err /\ ApplyPending(Err, c) = Err
BY DEF ApplyToken, ApplyPosition, ApplyPending

\* A change of one kind leaves the parts of the others, and does not look at them.
LEMMA TokenPosition ==
  ASSUME NEW a \in Results, NEW c \in TokenChange, NEW p \in PositionChange
  PROVE  ApplyToken(ApplyPosition(a, p), c) = ApplyPosition(ApplyToken(a, c), p)
<1>1. CASE a = Err  BY <1>1, ErrStays
<1>2. CASE a \in Wallets
  <2> DEFINE y == NewPos(a.pos, p)
             v == With(a, y, a.pending)
             w == NewTokens(a, c)
  <2>1. ~NoToken(a, c) => ApplyToken(a, c) = w /\ w \in Wallets /\ w.pos = a.pos
    <3> SUFFICES ASSUME ~NoToken(a, c) PROVE ApplyToken(a, c) = w /\ w \in Wallets /\ w.pos = a.pos  OBVIOUS
    <3>1. ApplyToken(a, c) = w  BY <1>2, TokenIs
    <3>. QED  BY <3>1, <1>2, TokenResult
  <2>2. NoToken(a, c) => ApplyToken(a, c) = Err  BY <1>2, TokenIs
  <2>3. NoToken(v, c) <=> NoToken(a, c)  BY DEF NoToken, With
  <2>4. NewTokens(v, c) = With(w, y, w.pending)  BY DEF With, NewTokens
  <2>5. NoPos(a.pos, p) => ApplyPosition(a, p) = Err  BY <1>2, PositionIs
  <2>6. ~NoPos(a.pos, p) => ApplyPosition(a, p) = v /\ v \in Wallets  BY <1>2, PositionIs
  <2> HIDE DEF v, w
  <2>7. ~NoPos(a.pos, p) => ApplyToken(v, c) = IF NoToken(v, c) THEN Err ELSE NewTokens(v, c)  BY <2>6, TokenIs
  <2>8. ~NoToken(a, c) => ApplyPosition(w, p) = IF NoPos(a.pos, p) THEN Err ELSE With(w, y, w.pending)
    BY <2>1, PositionIs
  <2>. QED  BY <2>1, <2>2, <2>3, <2>4, <2>5, <2>6, <2>7, <2>8, ErrStays
<1>. QED  BY <1>1, <1>2 DEF Results

LEMMA TokenPending ==
  ASSUME NEW a \in Results, NEW c \in TokenChange, NEW p \in PendingChange
  PROVE  ApplyToken(ApplyPending(a, p), c) = ApplyPending(ApplyToken(a, c), p)
<1>1. CASE a = Err  BY <1>1, ErrStays
<1>2. CASE a \in Wallets
  <2> DEFINE z == NewPending(a.pending, p)
             v == With(a, a.pos, z)
             w == NewTokens(a, c)
  <2>1. ~NoToken(a, c) => ApplyToken(a, c) = w /\ w \in Wallets /\ w.pending = a.pending
    <3> SUFFICES ASSUME ~NoToken(a, c) PROVE ApplyToken(a, c) = w /\ w \in Wallets /\ w.pending = a.pending  OBVIOUS
    <3>1. ApplyToken(a, c) = w  BY <1>2, TokenIs
    <3>. QED  BY <3>1, <1>2, TokenResult
  <2>2. NoToken(a, c) => ApplyToken(a, c) = Err  BY <1>2, TokenIs
  <2>3. NoToken(v, c) <=> NoToken(a, c)  BY DEF NoToken, With
  <2>4. NewTokens(v, c) = With(w, w.pos, z)  BY DEF With, NewTokens
  <2>5. NoPending(a.pending, p) => ApplyPending(a, p) = Err  BY <1>2, PendingIs
  <2>6. ~NoPending(a.pending, p) => ApplyPending(a, p) = v /\ v \in Wallets  BY <1>2, PendingIs
  <2> HIDE DEF v, w
  <2>7. ~NoPending(a.pending, p) => ApplyToken(v, c) = IF NoToken(v, c) THEN Err ELSE NewTokens(v, c)  BY <2>6, TokenIs
  <2>8. ~NoToken(a, c) => ApplyPending(w, p) = IF NoPending(a.pending, p) THEN Err ELSE With(w, w.pos, z)
    BY <2>1, PendingIs
  <2>. QED  BY <2>1, <2>2, <2>3, <2>4, <2>5, <2>6, <2>7, <2>8, ErrStays
<1>. QED  BY <1>1, <1>2 DEF Results

LEMMA PositionPending ==
  ASSUME NEW a \in Results, NEW c \in PositionChange, NEW p \in PendingChange
  PROVE  ApplyPosition(ApplyPending(a, p), c) = ApplyPending(ApplyPosition(a, c), p)
<1>1. CASE a = Err  BY <1>1, ErrStays
<1>2. CASE a \in Wallets
  <2> DEFINE z == NewPending(a.pending, p)
             y == NewPos(a.pos, c)
             v == With(a, a.pos, z)
             w == With(a, y, a.pending)
  <2>1. ~NoPos(a.pos, c) => ApplyPosition(a, c) = w /\ w \in Wallets  BY <1>2, PositionIs
  <2>2. NoPos(a.pos, c) => ApplyPosition(a, c) = Err  BY <1>2, PositionIs
  <2>3. ~NoPending(a.pending, p) => ApplyPending(a, p) = v /\ v \in Wallets  BY <1>2, PendingIs
  <2>4. NoPending(a.pending, p) => ApplyPending(a, p) = Err  BY <1>2, PendingIs
  <2>5. /\ v.pos = a.pos /\ w.pending = a.pending
        /\ With(v, y, v.pending) = With(a, y, z) /\ With(w, w.pos, z) = With(a, y, z)  BY DEF With
  <2> HIDE DEF v, w
  <2>6. ~NoPending(a.pending, p) => ApplyPosition(v, c) = IF NoPos(a.pos, c) THEN Err ELSE With(v, y, v.pending)
    BY <2>3, <2>5, PositionIs
  <2>7. ~NoPos(a.pos, c) => ApplyPending(w, p) = IF NoPending(a.pending, p) THEN Err ELSE With(w, w.pos, z)
    BY <2>1, <2>5, PendingIs
  <2>. QED  BY <2>1, <2>2, <2>3, <2>4, <2>5, <2>6, <2>7, ErrStays
<1>. QED  BY <1>1, <1>2 DEF Results

LEMMA StepTypes ==
  ASSUME NEW a \in Results
  PROVE  /\ \A c \in TokenChange : ApplyToken(a, c) \in Results
         /\ \A c \in PositionChange : ApplyPosition(a, c) \in Results
         /\ \A c \in PendingChange : ApplyPending(a, c) \in Results
<1>1. CASE a = Err  BY <1>1, ErrStays DEF Results
<1>2. CASE a \in Wallets
  BY <1>2, TokenIs, TokenResult, PositionIs, PendingIs DEF Results
<1>. QED  BY <1>1, <1>2 DEF Results

LEMMA FoldTypes ==
  ASSUME NEW a \in Results
  PROVE  /\ \A q \in Seq(TokenChange) : AllTokens(a, q) \in Results
         /\ \A q \in Seq(PositionChange) : AllPositions(a, q) \in Results
         /\ \A q \in Seq(PendingChange) : AllPending(a, q) \in Results
<1>1. \A b \in Results, c \in TokenChange : TokenStep(None, b, c) \in Results  BY StepTypes DEF TokenStep
<1>2. \A b \in Results, c \in PositionChange : PositionStep(None, b, c) \in Results  BY StepTypes DEF PositionStep
<1>3. \A b \in Results, c \in PendingChange : PendingStep(None, b, c) \in Results  BY StepTypes DEF PendingStep
<1>4. ASSUME NEW q \in Seq(TokenChange) PROVE AllTokens(a, q) \in Results  BY <1>1, Tok!FoldType DEF AllTokens
<1>5. ASSUME NEW q \in Seq(PositionChange) PROVE AllPositions(a, q) \in Results  BY <1>2, Posn!FoldType DEF AllPositions
<1>6. ASSUME NEW q \in Seq(PendingChange) PROVE AllPending(a, q) \in Results  BY <1>3, Pend!FoldType DEF AllPending
<1>. QED  BY <1>4, <1>5, <1>6

LEMMA DeltaResult ==
  ASSUME NEW a \in Results, NEW d \in Deltas
  PROVE  ApplyDelta(a, d) \in Results
<1>1. d.tokens \in Seq(TokenChange) /\ d.positions \in Seq(PositionChange) /\ d.pending \in Seq(PendingChange)
  BY DEF Deltas
<1>. QED  BY <1>1, FoldTypes, ApplyDeltaFolds

\* All token changes before one position change, and before all of them.
LEMMA TokensPositions ==
  ASSUME NEW a \in Results, NEW q \in Seq(TokenChange), NEW p \in Seq(PositionChange)
  PROVE  AllTokens(AllPositions(a, p), q) = AllPositions(AllTokens(a, q), p)
<1>1. ASSUME NEW b \in Results, NEW c \in PositionChange
      PROVE  AllTokens(ApplyPosition(b, c), q) = ApplyPosition(AllTokens(b, q), c)
  <2> DEFINE h == [x \in Results |-> ApplyPosition(x, c)]
  <2>1. h \in [Results -> Results]  BY StepTypes
  <2>2. \A x \in Results, e \in TokenChange : TokenStep(None, x, e) \in Results /\ h[TokenStep(None, x, e)] = TokenStep(None, h[x], e)
    BY StepTypes, TokenPosition DEF TokenStep
  <2>3. h[b] = ApplyPosition(b, c) /\ h[AllTokens(b, q)] = ApplyPosition(AllTokens(b, q), c)  BY FoldTypes
  <2> HIDE DEF h
  <2>4. AllTokens(h[b], q) = h[AllTokens(b, q)]  BY <2>1, <2>2, Tok!FoldCommute DEF AllTokens
  <2>. QED  BY <2>3, <2>4
<1> DEFINE h == [x \in Results |-> AllTokens(x, q)]
<1>2. h \in [Results -> Results]  BY FoldTypes
<1>3. \A x \in Results, e \in PositionChange :
         PositionStep(None, x, e) \in Results /\ h[PositionStep(None, x, e)] = PositionStep(None, h[x], e)
  BY <1>1, StepTypes DEF PositionStep
<1>4. h[a] = AllTokens(a, q) /\ h[AllPositions(a, p)] = AllTokens(AllPositions(a, p), q)  BY FoldTypes
<1> HIDE DEF h
<1>5. AllPositions(h[a], p) = h[AllPositions(a, p)]  BY <1>2, <1>3, Posn!FoldCommute DEF AllPositions
<1>. QED  BY <1>4, <1>5
LEMMA TokensPending ==
  ASSUME NEW a \in Results, NEW q \in Seq(TokenChange), NEW p \in Seq(PendingChange)
  PROVE  AllTokens(AllPending(a, p), q) = AllPending(AllTokens(a, q), p)
<1>1. ASSUME NEW b \in Results, NEW c \in PendingChange
      PROVE  AllTokens(ApplyPending(b, c), q) = ApplyPending(AllTokens(b, q), c)
  <2> DEFINE h == [x \in Results |-> ApplyPending(x, c)]
  <2>1. h \in [Results -> Results]  BY StepTypes
  <2>2. \A x \in Results, e \in TokenChange : TokenStep(None, x, e) \in Results /\ h[TokenStep(None, x, e)] = TokenStep(None, h[x], e)
    BY StepTypes, TokenPending DEF TokenStep
  <2>3. h[b] = ApplyPending(b, c) /\ h[AllTokens(b, q)] = ApplyPending(AllTokens(b, q), c)  BY FoldTypes
  <2> HIDE DEF h
  <2>4. AllTokens(h[b], q) = h[AllTokens(b, q)]  BY <2>1, <2>2, Tok!FoldCommute DEF AllTokens
  <2>. QED  BY <2>3, <2>4
<1> DEFINE h == [x \in Results |-> AllTokens(x, q)]
<1>2. h \in [Results -> Results]  BY FoldTypes
<1>3. \A x \in Results, e \in PendingChange :
         PendingStep(None, x, e) \in Results /\ h[PendingStep(None, x, e)] = PendingStep(None, h[x], e)
  BY <1>1, StepTypes DEF PendingStep
<1>4. h[a] = AllTokens(a, q) /\ h[AllPending(a, p)] = AllTokens(AllPending(a, p), q)  BY FoldTypes
<1> HIDE DEF h
<1>5. AllPending(h[a], p) = h[AllPending(a, p)]  BY <1>2, <1>3, Pend!FoldCommute DEF AllPending
<1>. QED  BY <1>4, <1>5
LEMMA PositionsPending ==
  ASSUME NEW a \in Results, NEW q \in Seq(PositionChange), NEW p \in Seq(PendingChange)
  PROVE  AllPositions(AllPending(a, p), q) = AllPending(AllPositions(a, q), p)
<1>1. ASSUME NEW b \in Results, NEW c \in PendingChange
      PROVE  AllPositions(ApplyPending(b, c), q) = ApplyPending(AllPositions(b, q), c)
  <2> DEFINE h == [x \in Results |-> ApplyPending(x, c)]
  <2>1. h \in [Results -> Results]  BY StepTypes
  <2>2. \A x \in Results, e \in PositionChange : PositionStep(None, x, e) \in Results /\ h[PositionStep(None, x, e)] = PositionStep(None, h[x], e)
    BY StepTypes, PositionPending DEF PositionStep
  <2>3. h[b] = ApplyPending(b, c) /\ h[AllPositions(b, q)] = ApplyPending(AllPositions(b, q), c)  BY FoldTypes
  <2> HIDE DEF h
  <2>4. AllPositions(h[b], q) = h[AllPositions(b, q)]  BY <2>1, <2>2, Posn!FoldCommute DEF AllPositions
  <2>. QED  BY <2>3, <2>4
<1> DEFINE h == [x \in Results |-> AllPositions(x, q)]
<1>2. h \in [Results -> Results]  BY FoldTypes
<1>3. \A x \in Results, e \in PendingChange :
         PendingStep(None, x, e) \in Results /\ h[PendingStep(None, x, e)] = PendingStep(None, h[x], e)
  BY <1>1, StepTypes DEF PendingStep
<1>4. h[a] = AllPositions(a, q) /\ h[AllPending(a, p)] = AllPositions(AllPending(a, p), q)  BY FoldTypes
<1> HIDE DEF h
<1>5. AllPending(h[a], p) = h[AllPending(a, p)]  BY <1>2, <1>3, Pend!FoldCommute DEF AllPending
<1>. QED  BY <1>4, <1>5
\* merge_delta, "sequence merge": the merged delta does what its parts do in turn.
LEMMA MergeApplies ==
  ASSUME NEW a \in Results, NEW d \in Deltas, NEW e \in Deltas
  PROVE  /\ MergeDelta(d, e) \in Deltas
         /\ ApplyDelta(a, MergeDelta(d, e)) = ApplyDelta(ApplyDelta(a, d), e)
<1> DEFINE m == MergeDelta(d, e)
<1>1. /\ d.tokens \in Seq(TokenChange) /\ d.positions \in Seq(PositionChange) /\ d.pending \in Seq(PendingChange)
      /\ e.tokens \in Seq(TokenChange) /\ e.positions \in Seq(PositionChange) /\ e.pending \in Seq(PendingChange)
  BY DEF Deltas
<1>2. /\ m.tokens = d.tokens \o e.tokens /\ m.positions = d.positions \o e.positions
      /\ m.pending = d.pending \o e.pending /\ m \in Deltas
  BY <1>1 DEF MergeDelta, Deltas
<1> DEFINE t1 == AllTokens(a, d.tokens)
           t2 == AllTokens(t1, e.tokens)
           p1 == AllPositions(t1, d.positions)
           p2 == AllPositions(t2, d.positions)
           p3 == AllPositions(p2, e.positions)
           q1 == AllPending(p1, d.pending)
           q2 == AllPending(p2, d.pending)
           q3 == AllPending(p3, d.pending)
<1>3. t1 \in Results /\ t2 \in Results /\ p1 \in Results /\ p2 \in Results /\ p3 \in Results
      /\ q1 \in Results /\ q2 \in Results /\ q3 \in Results
  BY <1>1, FoldTypes
<1>4. AllTokens(a, m.tokens) = t2  BY <1>1, <1>2, Tok!FoldConcat DEF AllTokens
<1>5. AllPositions(t2, m.positions) = p3  BY <1>1, <1>2, Posn!FoldConcat DEF AllPositions
<1>6. AllPending(p3, m.pending) = AllPending(q3, e.pending)  BY <1>1, <1>2, Pend!FoldConcat DEF AllPending
<1>7. ApplyDelta(a, d) = q1  BY ApplyDeltaFolds
<1> HIDE DEF m, t1, t2, p1, p2, p3, q1, q2, q3
<1>8. AllTokens(q1, e.tokens) = q2
  <2>1. AllTokens(q1, e.tokens) = AllPending(AllTokens(p1, e.tokens), d.pending)
    BY <1>1, <1>3, TokensPending DEF q1
  <2>2. AllTokens(p1, e.tokens) = p2  BY <1>1, <1>3, TokensPositions DEF p1, p2, t2
  <2>. QED  BY <2>1, <2>2 DEF q2
<1>9. AllPositions(q2, e.positions) = q3  BY <1>1, <1>3, PositionsPending DEF q2, q3, p3
<1>. QED  BY <1>2, <1>4, <1>5, <1>6, <1>7, <1>8, <1>9, ApplyDeltaFolds DEF m

-----------------------------------------------------------------------------
(* What a reducer queues                                                     *)

\* d is an error, or can be applied to the tokens of s, moves them by g, and has
\* the position changes q and no pending ones.
Moves(s, d, g, q) ==
  /\ g \in [Tokens -> Int] /\ q \in Seq(PositionChange)
  /\ d # Err =>
       /\ d \in Deltas /\ d.positions = q /\ d.pending = <<>>
       /\ AllTokens(s, d.tokens) \in Wallets
       /\ AllTokens(s, d.tokens).pos = s.pos /\ AllTokens(s, d.tokens).pending = s.pending
       /\ \A t \in Tokens : /\ Z(AllTokens(s, d.tokens).held[t]) = Z(s.held[t]) + g[t]
                            /\ s.held[t] # None => /\ AllTokens(s, d.tokens).held[t] # None
                                                   /\ AllTokens(s, d.tokens).held[t] = Effective(s, d, t)

LEMMA FlowTypes ==
  /\ NoFlow \in [Tokens -> Int] /\ NoFlow \in [Tokens -> Nat]
  /\ \A t \in Tokens, n \in Int : Only(t, n) \in [Tokens -> Int]
  /\ \A t \in Tokens, n \in Nat : Only(t, n) \in [Tokens -> Nat]
  /\ \A f, g \in [Tokens -> Int] : Plus(f, g) \in [Tokens -> Int]
  /\ \A f, g \in [Tokens -> Nat] : Plus(f, g) \in [Tokens -> Nat]
  /\ \A n \in Int : Every(n) \in [Tokens -> Int]
BY DEF NoFlow, Only, Plus, Every

LEMMA MovesNothing == ASSUME NEW s \in Wallets PROVE Moves(s, Nothing, NoFlow, <<>>)
<1>1. Nothing \in Deltas /\ Nothing.tokens = <<>> /\ Nothing.positions = <<>> /\ Nothing.pending = <<>> /\ <<>> \in Seq(PositionChange)
  BY DEF Nothing, Deltas
<1>2. AllTokens(s, <<>>) = s  BY Tok!FoldEmpty DEF AllTokens
<1>3. \A t \in Tokens : Effective(s, Nothing, t) = s.held[t]  BY <1>1, Eff!FoldEmpty, EffectiveFold
<1>4. \A t \in Tokens : NoFlow[t] = 0 /\ Z(s.held[t]) \in Int  BY ReducerAssumption DEF NoFlow, Z, Wallets, Opt
<1>. QED  BY SMTT(30), ZenonT(60), <1>1, <1>2, <1>3, <1>4, FlowTypes DEF Moves

\* One token change more.
LEMMA TokenQueued ==
  ASSUME NEW d \in Deltas, NEW c \in TokenChange
  PROVE  /\ Token(d, c) \in Deltas /\ Token(d, c).tokens = Append(d.tokens, c)
         /\ Token(d, c).positions = d.positions /\ Token(d, c).pending = d.pending
         /\ \A s : AllTokens(s, Token(d, c).tokens) = ApplyToken(AllTokens(s, d.tokens), c)
         /\ \A s, t : Effective(s, Token(d, c), t) = EffectiveStep(t, Effective(s, d, t), c)
<1>1. d.tokens \in Seq(TokenChange) /\ d # Err  BY ErrAssumption DEF Deltas
<1>2. /\ Token(d, c) \in Deltas /\ Token(d, c).tokens = Append(d.tokens, c)
      /\ Token(d, c).positions = d.positions /\ Token(d, c).pending = d.pending
  <2> DEFINE u == Append(d.tokens, c)
  <2>1. u \in Seq(TokenChange)  BY <1>1
  <2>2. Token(d, c) = [d EXCEPT !.tokens = u]  BY <1>1 DEF Token, Deltas
  <2> HIDE DEF u
  <2>3. [d EXCEPT !.tokens = u] \in Deltas /\ [d EXCEPT !.tokens = u].tokens = u
        /\ [d EXCEPT !.tokens = u].positions = d.positions /\ [d EXCEPT !.tokens = u].pending = d.pending
    BY <2>1 DEF Deltas
  <2>. QED  BY <2>2, <2>3 DEF u
<1>3. \A s : AllTokens(s, Append(d.tokens, c)) = ApplyToken(AllTokens(s, d.tokens), c)
  BY <1>1, Tok!FoldAppend DEF AllTokens, TokenStep
<1>4. \A t, n : Eff!Fold(t, n, Append(d.tokens, c)) = EffectiveStep(t, Eff!Fold(t, n, d.tokens), c)
  BY <1>1, Eff!FoldAppend
<1>. QED  BY <1>2, <1>3, <1>4, EffectiveFold

\* A change of the balance that the queued changes leave room for.
LEMMA MovesBalance ==
  ASSUME NEW s \in Wallets, NEW d \in Deltas, NEW g, NEW q, Moves(s, d, g, q), NEW t \in Tokens, NEW n \in Int,
         AllTokens(s, d.tokens).held[t] # None, AllTokens(s, d.tokens).held[t] + n >= 0
  PROVE  Moves(s, Token(d, [op |-> "balance", t |-> t, n |-> n]), Plus(g, Only(t, n)), q)
<1> DEFINE c == [op |-> "balance", t |-> t, n |-> n]
           w == AllTokens(s, d.tokens)
           v == NewTokens(w, c)
<1>1. c \in TokenChange /\ c.op = "balance" /\ c.t = t /\ c.n = n /\ t # "nft"
  BY ReducerAssumption DEF TokenChange, Tokens
<1>2. d # Err /\ \A x \in Deltas : x # Err  BY ErrAssumption
<1>3. /\ w \in Wallets /\ w.pos = s.pos /\ w.pending = s.pending /\ g \in [Tokens -> Int] /\ q \in Seq(PositionChange)
      /\ \A u \in Tokens : /\ Z(w.held[u]) = Z(s.held[u]) + g[u]
                           /\ s.held[u] # None => w.held[u] # None /\ w.held[u] = Effective(s, d, u)
      /\ d.positions = q /\ d.pending = <<>>
  BY <1>2 DEF Moves
<1> HIDE DEF c, w
<1>4. w.held \in [Tokens -> Opt(Nat)] /\ w.held[t] \in Nat /\ w.held[t] + n \in Nat /\ s.held \in [Tokens -> Opt(Nat)]
  BY <1>3 DEF Wallets, Opt, w
<1>5. ~NoToken(w, c)  BY <1>1, <1>4, ReducerAssumption DEF NoToken, Opt
<1>6. ApplyToken(w, c) = v /\ v \in Wallets /\ v.pos = w.pos /\ v.pending = w.pending
  BY <1>1, <1>3, <1>5, TokenIs, TokenResult
<1>7. v.held = [w.held EXCEPT ![t] = w.held[t] + n]  BY <1>1 DEF NewTokens, NewHeld
<1> HIDE DEF v
<1>8. \A u \in Tokens : Plus(g, Only(t, n))[u] = g[u] + (IF u = t THEN n ELSE 0)  BY DEF Plus, Only
<1>9. ASSUME NEW u \in Tokens
      PROVE  /\ Z(v.held[u]) = Z(s.held[u]) + Plus(g, Only(t, n))[u]
             /\ s.held[u] # None => v.held[u] # None /\ v.held[u] = EffectiveStep(u, Effective(s, d, u), c)
  <2>1. CASE u = t
    <3>1. v.held[u] = w.held[t] + n  BY <1>4, <1>7, <2>1
    <3>2. Z(v.held[u]) = w.held[t] + n /\ Z(w.held[t]) = w.held[t] /\ v.held[u] # None
      BY <1>4, <3>1, ReducerAssumption DEF Z
    <3>3. Z(s.held[t]) \in Int /\ g[t] \in Int  BY <1>3, <1>4, ReducerAssumption DEF Z, Opt
    <3>. QED  BY <1>1, <1>3, <1>4, <1>8, <2>1, <3>1, <3>2, <3>3 DEF EffectiveStep
  <2>2. CASE u # t
    <3>1. v.held[u] = w.held[u]  BY <1>4, <1>7, <2>2
    <3>2. g[u] + 0 = g[u]  BY <1>3
    <3>. QED  BY <1>1, <1>3, <1>8, <2>2, <3>1, <3>2 DEF EffectiveStep
  <2>. QED  BY <2>1, <2>2
<1>10. /\ Token(d, c) \in Deltas /\ Token(d, c).positions = q /\ Token(d, c).pending = <<>>
       /\ AllTokens(s, Token(d, c).tokens) = v
       /\ \A u : Effective(s, Token(d, c), u) = EffectiveStep(u, Effective(s, d, u), c)
  <2>1. AllTokens(s, Token(d, c).tokens) = ApplyToken(w, c)  BY <1>1, TokenQueued DEF w
  <2>2. \A u : Effective(s, Token(d, c), u) = EffectiveStep(u, Effective(s, d, u), c)  BY <1>1, TokenQueued
  <2>. QED  BY <1>1, <1>3, <1>6, <2>1, <2>2, TokenQueued
<1>11. Plus(g, Only(t, n)) \in [Tokens -> Int]  BY <1>3, FlowTypes
<1>12. Moves(s, Token(d, c), Plus(g, Only(t, n)), q)  BY <1>3, <1>6, <1>9, <1>10, <1>11 DEF Moves
<1>. QED  BY <1>12 DEF c

LEMMA MovesErr == ASSUME NEW s, NEW g \in [Tokens -> Int], NEW q \in Seq(PositionChange) PROVE Moves(s, Err, g, q)
BY DEF Moves

\* debit_balance, credit_balance and settling: what they queue can be applied.
LEMMA MovesDebit ==
  ASSUME NEW s \in Wallets, NEW d, NEW g, NEW q, Moves(s, d, g, q), NEW t \in Tokens, NEW n \in Nat
  PROVE  Moves(s, Debit(s, d, t, n), Plus(g, Only(t, -n)), q)
<1>0. g \in [Tokens -> Int] /\ q \in Seq(PositionChange) /\ -n \in Int  BY DEF Moves
<1>1. Plus(g, Only(t, -n)) \in [Tokens -> Int] /\ q \in Seq(PositionChange)  BY <1>0, FlowTypes
<1>2. CASE Debit(s, d, t, n) = Err  BY <1>1, <1>2, MovesErr
<1>3. CASE Debit(s, d, t, n) # Err
  <2>1. /\ d # Err /\ s.held[t] # None /\ ~(Effective(s, d, t) < n)
        /\ Debit(s, d, t, n) = Token(d, [op |-> "balance", t |-> t, n |-> -n])
    BY <1>3 DEF Debit
  <2> DEFINE w == AllTokens(s, d.tokens)
  <2>2. d \in Deltas /\ w \in Wallets /\ w.held[t] # None /\ w.held[t] = Effective(s, d, t)  BY <2>1 DEF Moves
  <2>3. w.held[t] + (-n) >= 0
    <3>1. w.held[t] \in Nat  BY <2>2 DEF Wallets, Opt
    <3>. QED  BY <2>1, <2>2, <3>1
  <2>4. -n \in Int  OBVIOUS
  <2>. QED  BY <2>1, <2>2, <2>3, <2>4, MovesBalance
<1>. QED  BY <1>2, <1>3

LEMMA MovesCredit ==
  ASSUME NEW s \in Wallets, NEW d, NEW g, NEW q, Moves(s, d, g, q), NEW t \in Tokens, NEW n \in Nat
  PROVE  Moves(s, Credit(s, d, t, n), Plus(g, Only(t, n)), q)
<1>0. g \in [Tokens -> Int] /\ q \in Seq(PositionChange) /\ n \in Int  BY DEF Moves
<1>1. Plus(g, Only(t, n)) \in [Tokens -> Int] /\ q \in Seq(PositionChange)  BY <1>0, FlowTypes
<1>2. CASE Credit(s, d, t, n) = Err  BY <1>1, <1>2, MovesErr
<1>3. CASE Credit(s, d, t, n) # Err
  <2>1. /\ d # Err /\ s.held[t] # None
        /\ Credit(s, d, t, n) = Token(d, [op |-> "balance", t |-> t, n |-> n])
    BY <1>3 DEF Credit, RawCredit
  <2> DEFINE w == AllTokens(s, d.tokens)
  <2>2. d \in Deltas /\ w \in Wallets /\ w.held[t] # None  BY <2>1 DEF Moves
  <2>3. w.held[t] + n >= 0
    <3>1. w.held[t] \in Nat  BY <2>2 DEF Wallets, Opt
    <3>. QED  BY <3>1
  <2>. QED  BY <2>1, <2>2, <2>3, MovesBalance
<1>. QED  BY <1>2, <1>3

LEMMA MovesSettle ==
  ASSUME NEW s \in Wallets, NEW d, NEW g, NEW q, Moves(s, d, g, q), NEW t \in Tokens, NEW n \in Int
  PROVE  Moves(s, Settle(s, d, t, n), Plus(g, Only(t, n)), q)
<1>1. CASE n > 0
  <2>1. Settle(s, d, t, n) = Credit(s, d, t, n) /\ n \in Nat  BY <1>1 DEF Settle
  <2>. QED  BY <2>1, MovesCredit
<1>2. CASE n < 0
  <2>1. Settle(s, d, t, n) = Debit(s, d, t, -n) /\ -n \in Nat /\ -(-n) = n  BY <1>2 DEF Settle
  <2>. QED  BY <2>1, MovesDebit
<1>3. CASE n = 0
  <2>1. Settle(s, d, t, n) = d  BY <1>3 DEF Settle
  <2>2. g \in [Tokens -> Int]  BY DEF Moves
  <2>3. Plus(g, Only(t, n)) = g  BY <1>3, <2>2 DEF Plus, Only
  <2>. QED  BY <2>1, <2>3
<1>. QED  BY <1>1, <1>2, <1>3

\* Approvals and the mint of a token move nothing.
LEMMA MovesStill ==
  ASSUME NEW s \in Wallets, NEW d, NEW g, NEW q, Moves(s, d, g, q), NEW c \in TokenChange,
         c.op \in {"set", "revoke", "lockdown", "mint"}, c.t # "native", c.op = "mint" => s.held[c.t] = None
  PROVE  /\ Moves(s, Token(d, c), g, q)
         /\ c.op = "mint" /\ d # Err => AllTokens(s, Token(d, c).tokens).held[c.t] # None
<1>1. g \in [Tokens -> Int] /\ q \in Seq(PositionChange)  BY DEF Moves
<1>2. CASE d = Err
  <2>1. Token(d, c) = Err  BY <1>2 DEF Token
  <2>. QED  BY <1>1, <1>2, <2>1, MovesErr
<1>3. CASE d # Err
  <2> DEFINE w == AllTokens(s, d.tokens)
             v == NewTokens(w, c)
  <2>1. /\ w \in Wallets /\ w.pos = s.pos /\ w.pending = s.pending
        /\ \A u \in Tokens : /\ Z(w.held[u]) = Z(s.held[u]) + g[u]
                             /\ s.held[u] # None => w.held[u] # None /\ w.held[u] = Effective(s, d, u)
        /\ d \in Deltas /\ d.positions = q /\ d.pending = <<>>
    BY <1>3 DEF Moves
  <2>2. ApplyToken(w, c) = v /\ v \in Wallets /\ v.pos = w.pos /\ v.pending = w.pending
    <3> HIDE DEF w
    <3>1. ~NoToken(w, c)  BY DEF NoToken
    <3>. QED  BY <2>1, <3>1, TokenIs, TokenResult
  <2>3. v.held = NewHeld(w.held, c) /\ w.held \in [Tokens -> Opt(Nat)]
    <3>1. w.held \in [Tokens -> Opt(Nat)]
      <4> HIDE DEF w
      <4>. QED  BY <2>1 DEF Wallets
    <3> HIDE DEF w
    <3>. QED  BY <3>1 DEF NewTokens
  <2>4. /\ Token(d, c) \in Deltas /\ Token(d, c).positions = q /\ Token(d, c).pending = <<>>
        /\ AllTokens(s, Token(d, c).tokens) = v
        /\ \A u : Effective(s, Token(d, c), u) = Effective(s, d, u)
    <3>0. d \in Deltas  BY <2>1
    <3> HIDE DEF w, v
    <3>1. AllTokens(s, Token(d, c).tokens) = ApplyToken(w, c)  BY <3>0, TokenQueued DEF w
    <3>2. \A u : Effective(s, Token(d, c), u) = EffectiveStep(u, Effective(s, d, u), c)  BY <2>1, TokenQueued
    <3>3. \A u, n : EffectiveStep(u, n, c) = n  BY DEF EffectiveStep
    <3>. QED  BY <2>1, <2>2, <3>1, <3>2, <3>3, TokenQueued
  <2> HIDE DEF w, v
  <2>5. CASE c.op = "mint" /\ w.held[c.t] = None
    <3>1. c.t \in Tokens /\ v.held = [w.held EXCEPT ![c.t] = 0]  BY <2>3, <2>5 DEF NewHeld, TokenChange
    <3>2. \A u \in Tokens : Z(v.held[u]) = Z(w.held[u]) /\ (s.held[u] # None => v.held[u] = w.held[u])
      BY <2>3, <2>5, <3>1, ReducerAssumption DEF Z
    <3>3. v.held[c.t] = 0 /\ 0 # None  BY <2>3, <3>1, ReducerAssumption
    <3>. QED  BY <1>1, <2>1, <2>2, <2>4, <3>2, <3>3 DEF Moves
  <2>6. CASE ~(c.op = "mint" /\ w.held[c.t] = None)
    <3>1. v.held = w.held  BY <2>3, <2>6 DEF NewHeld
    <3>. QED  BY <1>1, <2>1, <2>2, <2>4, <2>6, <3>1 DEF Moves
  <2>. QED  BY <2>5, <2>6
<1>. QED  BY <1>2, <1>3

LEMMA MovesPos ==
  ASSUME NEW s \in Wallets, NEW d, NEW g, NEW q, Moves(s, d, g, q), NEW op, NEW id, NEW b,
         [op |-> op, id |-> id, body |-> b] \in PositionChange
  PROVE  Moves(s, Pos(d, op, id, b), g, Append(q, [op |-> op, id |-> id, body |-> b]))
<1> DEFINE c == [op |-> op, id |-> id, body |-> b]
           e == [d EXCEPT !.positions = Append(@, c)]
<1>1. g \in [Tokens -> Int] /\ q \in Seq(PositionChange) /\ Append(q, c) \in Seq(PositionChange)  BY DEF Moves
<1>2. CASE d = Err
  <2>1. Pos(d, op, id, b) = Err  BY <1>2 DEF Pos
  <2>. QED  BY <1>1, <2>1, MovesErr
<1>3. CASE d # Err
  <2>1. d \in Deltas /\ d.positions = q  BY <1>3 DEF Moves
  <2>2. Pos(d, op, id, b) = e  BY <1>3 DEF Pos
  <2> HIDE DEF c
  <2>3. e \in Deltas /\ e.positions = Append(q, c) /\ e.tokens = d.tokens /\ e.pending = d.pending
    BY <1>1, <2>1 DEF Deltas
  <2> HIDE DEF e
  <2>4. \A t : Effective(s, e, t) = Effective(s, d, t)  BY <2>3 DEF Effective
  <2>5. Moves(s, e, g, Append(q, c))  BY <1>1, <1>3, <2>3, <2>4 DEF Moves
  <2>. QED  BY <2>2, <2>5 DEF c
<1>. QED  BY <1>2, <1>3

-----------------------------------------------------------------------------
(* What positions are worth                                                  *)

\* The loan account and the perp position, given as lists of at most one.
NetOf(b, t)    == Z(b.coll[t]) - DebtOf(b.debt, t)
Net(l, t)      == IF t \in Coins /\ l # <<>> THEN NetOf(l[1], t) ELSE 0
Mar(l, t)      == IF l # <<>> THEN SumOf(l[1].coll, t) ELSE 0
Locked(y, t)   == Mar(y["perp"], t) + Net(y["loan"], t)

LEMMA SumType == ASSUME NEW es \in Seq(Coins \X Nat), NEW t PROVE SumOf(es, t) \in Int /\ SumOf(es, t) \in Nat
<1>1. \A n \in Nat, e \in Coins \X Nat : SumStep(t, n, e) \in Nat  BY DEF SumStep
<1>2. Summ!Fold(t, 0, es) \in Nat  BY <1>1, Summ!FoldType
<1>3. SumOf(es, t) \in Nat  BY <1>2, SumFold
<1>. QED  BY <1>3

LEMMA DebtType ==
  ASSUME NEW c \in [Coins \X Modes -> Opt(Nat)], NEW t \in Coins
  PROVE  /\ \A m \in Modes : <<t, m>> \in Coins \X Modes /\ Z(c[<<t, m>>]) \in Nat
         /\ DebtOf(c, t) \in Nat
<1>1. \A x \in Opt(Nat) : Z(x) \in Nat  BY DEF Opt, Z
<1>2. \A m \in Modes : <<t, m>> \in Coins \X Modes /\ Z(c[<<t, m>>]) \in Nat  BY <1>1
<1>3. Z(c[<<t, "stable">>]) \in Nat /\ Z(c[<<t, "variable">>]) \in Nat /\ Z(c[<<t, "fixed">>]) \in Nat
  BY <1>2 DEF Modes
<1>. QED  BY <1>2, <1>3 DEF DebtOf

LEMMA LoanBody == ASSUME NEW b \in Account, NEW t \in Coins PROVE NetOf(b, t) \in Int
<1>1. b.coll[t] \in Opt(Nat) /\ b.debt \in [Coins \X Modes -> Opt(Nat)]  BY DEF Account
<1>2. Z(b.coll[t]) \in Nat  BY <1>1 DEF Opt, Z
<1>3. DebtOf(b.debt, t) \in Nat  BY <1>1, DebtType
<1>. QED  BY <1>2, <1>3 DEF NetOf

LEMMA LockedType ==
  ASSUME NEW y, y["perp"] \in Seq(PerpBody), y["loan"] \in Seq(Account), NEW t \in Tokens
  PROVE  Mar(y["perp"], t) \in Int /\ Net(y["loan"], t) \in Int /\ Locked(y, t) \in Int
<1>1. Mar(y["perp"], t) \in Int
  <2>1. CASE y["perp"] # <<>>
    <3>1. y["perp"][1] \in PerpBody  BY <2>1
    <3>2. y["perp"][1].coll \in Seq(Coins \X Nat)  BY <3>1 DEF PerpBody, Entries
    <3>. QED  BY <2>1, <3>2, SumType DEF Mar
  <2>2. CASE y["perp"] = <<>>  BY <2>2 DEF Mar
  <2>. QED  BY <2>1, <2>2
<1>2. Net(y["loan"], t) \in Int
  <2>1. CASE y["loan"] # <<>> /\ t \in Coins
    <3>1. y["loan"][1] \in Account  BY <2>1
    <3>. QED  BY <2>1, <3>1, LoanBody DEF Net
  <2>2. CASE ~(y["loan"] # <<>> /\ t \in Coins)  BY <2>2 DEF Net
  <2>. QED  BY <2>1, <2>2
<1>. QED  BY <1>1, <1>2 DEF Locked

LEMMA WalletPos ==
  ASSUME NEW s \in Wallets
  PROVE  /\ s.pos["loan"] \in Seq(Account) /\ s.pos["perp"] \in Seq(PerpBody) /\ s.pos["sale"] \in Seq(SaleBody)
         /\ s.pos["drop"] \in Seq(DropBody) /\ s.pos["hl"] \in Seq(HlBody)
         /\ \A t \in Tokens : Z(s.held[t]) \in Int /\ Locked(s.pos, t) \in Int
<1>1. /\ s.pos["loan"] \in Seq(Account) /\ s.pos["perp"] \in Seq(PerpBody) /\ s.pos["sale"] \in Seq(SaleBody)
      /\ s.pos["drop"] \in Seq(DropBody) /\ s.pos["hl"] \in Seq(HlBody)
  <2>1. \A id \in PositionIds : s.pos[id] \in Seq(BodyOf(id))  BY DEF Wallets
  <2>2. /\ BodyOf("loan") = Account /\ BodyOf("perp") = PerpBody /\ BodyOf("sale") = SaleBody
        /\ BodyOf("drop") = DropBody /\ BodyOf("hl") = HlBody  BY DEF BodyOf
  <2>3. {"loan", "perp", "sale", "drop", "hl"} \subseteq PositionIds  BY DEF PositionIds
  <2>. QED  BY <2>1, <2>2, <2>3
<1>2. \A t \in Tokens : Z(s.held[t]) \in Int  BY DEF Wallets, Opt, Z
<1>. QED  BY <1>1, <1>2, LockedType

LEMMA WorthIs ==
  ASSUME NEW s \in Wallets, NEW t \in Tokens
  PROVE  Worth(s, t) = Z(s.held[t]) + Locked(s.pos, t)
<1>1. Margin(s, t) = Mar(s.pos["perp"], t)  BY DEF Margin, Mar, Has, Body
<1>2. (IF t \in Coins THEN Collateral(s, t) - Debt(s, t) ELSE 0) = Net(s.pos["loan"], t)
  <2>1. CASE t \in Coins /\ s.pos["loan"] # <<>>  BY <2>1 DEF Collateral, Debt, Net, NetOf, Has, Body
  <2>2. CASE t \notin Coins  BY <2>2 DEF Net
  <2>3. CASE t \in Coins /\ s.pos["loan"] = <<>>
    <3>1. Collateral(s, t) = 0 /\ Debt(s, t) = 0  BY <2>3 DEF Collateral, Debt, Has
    <3>. QED  BY <2>3, <3>1 DEF Net
  <2>. QED  BY <2>1, <2>2, <2>3
<1>3. Z(s.held[t]) \in Int /\ Mar(s.pos["perp"], t) \in Int /\ Net(s.pos["loan"], t) \in Int
  BY WalletPos, LockedType
<1> DEFINE x == IF t \in Coins THEN Collateral(s, t) - Debt(s, t) ELSE 0
<1>4. Worth(s, t) = Z(s.held[t]) + Margin(s, t) + x  BY DEF Worth
<1> HIDE DEF x
<1>. QED  BY <1>1, <1>2, <1>3, <1>4 DEF Locked, x

LEMMA WorthInt == ASSUME NEW s \in Wallets, NEW t \in Tokens PROVE Worth(s, t) \in Int
BY WorthIs, WalletPos

-----------------------------------------------------------------------------
(* What every reducer guarantees                                             *)

Queued == {"nft_transfer", "nft_approve", "cancel", "end_order", "delegate"}

\* The outcome r of an action in s: an error, or a delta that can be applied
\* (unless it is queued without a look), keeps one position per id, and moves
\* the wallet's worth by what the counterparties give less what it drops.
Good(s, r) ==
  r.delta # Err =>
    /\ r.delta \in Deltas /\ r.flow \in [Tokens -> Int] /\ r.lost \in [Tokens -> Nat]
    /\ ApplyDelta(s, r.delta) = Err => r.kind \in Queued
    /\ ApplyDelta(s, r.delta) # Err =>
         /\ OneEach(ApplyDelta(s, r.delta))
         /\ \A t \in Tokens : Worth(ApplyDelta(s, r.delta), t) = Worth(s, t) + r.flow[t] - r.lost[t]

LEMMA OutIs ==
  /\ \A k, d, f : Out(k, d, f).kind = k /\ Out(k, d, f).delta = d /\ Out(k, d, f).flow = f /\ Out(k, d, f).lost = NoFlow
  /\ \A k, d, f, l : /\ Lossy(k, d, f, l).kind = k /\ Lossy(k, d, f, l).delta = d
                     /\ Lossy(k, d, f, l).flow = f /\ Lossy(k, d, f, l).lost = l
BY DEF Out, Lossy

\* An outcome that drops nothing.
LEMMA GoodIf ==
  ASSUME NEW s \in Wallets, NEW d, NEW f \in [Tokens -> Int], NEW k,
         d # Err => /\ d \in Deltas /\ (ApplyDelta(s, d) = Err => k \in Queued)
                    /\ ApplyDelta(s, d) # Err => /\ OneEach(ApplyDelta(s, d))
                                                 /\ \A t \in Tokens : Worth(ApplyDelta(s, d), t) = Worth(s, t) + f[t]
  PROVE  Good(s, Out(k, d, f))
<1> DEFINE w == ApplyDelta(s, d)
           r == Out(k, d, f)
<1>1. r.kind = k /\ r.delta = d /\ r.flow = f /\ r.lost = NoFlow /\ NoFlow \in [Tokens -> Nat]  BY OutIs, FlowTypes
<1>2. ASSUME NEW t \in Tokens, Worth(w, t) = Worth(s, t) + f[t] PROVE Worth(w, t) = Worth(s, t) + f[t] - NoFlow[t]
  <2>1. Worth(s, t) \in Int /\ f[t] \in Int /\ NoFlow[t] = 0  BY WorthInt DEF NoFlow
  <2>2. Worth(s, t) + f[t] = Worth(s, t) + f[t] - NoFlow[t]  BY <2>1
  <2>. QED  BY <1>2, <2>2
<1> HIDE DEF r
<1>3. Good(s, r)  BY <1>1, <1>2 DEF Good
<1>. QED  BY <1>3 DEF r

\* The same account, with a part of what moves booked as dropped.
LEMMA GoodLossy ==
  ASSUME NEW s \in Wallets, NEW k, NEW d, NEW g, Good(s, Out(k, d, g)), NEW f \in [Tokens -> Int], NEW l \in [Tokens -> Nat],
         \A u \in Tokens : g[u] = f[u] - l[u]
  PROVE  Good(s, Lossy(k, d, f, l))
<1> DEFINE w == ApplyDelta(s, d)
           o == Out(k, d, g)
           r == Lossy(k, d, f, l)
<1>1. /\ r.kind = k /\ r.delta = d /\ r.flow = f /\ r.lost = l
      /\ o.kind = k /\ o.delta = d /\ o.flow = g /\ o.lost = NoFlow
  BY OutIs
<1>2. ASSUME NEW t \in Tokens, Worth(w, t) = Worth(s, t) + g[t] - NoFlow[t] PROVE Worth(w, t) = Worth(s, t) + f[t] - l[t]
  <2>1. Worth(s, t) \in Int /\ f[t] \in Int /\ l[t] \in Int /\ NoFlow[t] = 0 /\ g[t] = f[t] - l[t]  BY WorthInt DEF NoFlow
  <2>2. Worth(s, t) + g[t] - NoFlow[t] = Worth(s, t) + f[t] - l[t]  BY <2>1
  <2>. QED  BY <1>2, <2>2
<1>3. Good(s, o)  OBVIOUS
<1> HIDE DEF o, r
<1>4. Good(s, r)  BY <1>1, <1>2, <1>3 DEF Good
<1>. QED  BY <1>4 DEF r

\* Only tokens.
LEMMA GoodPlain ==
  ASSUME NEW s \in Wallets, OneEach(s), NEW d, NEW g, Moves(s, d, g, <<>>), NEW k
  PROVE  Good(s, Out(k, d, g))
<1> SUFFICES ASSUME d # Err
             PROVE  /\ d \in Deltas /\ g \in [Tokens -> Int] /\ ApplyDelta(s, d) # Err
                    /\ OneEach(ApplyDelta(s, d))
                    /\ \A t \in Tokens : Worth(ApplyDelta(s, d), t) = Worth(s, t) + g[t]
  BY GoodIf DEF Moves
<1> DEFINE w == AllTokens(s, d.tokens)
<1>1. /\ g \in [Tokens -> Int] /\ d \in Deltas /\ d.positions = <<>> /\ d.pending = <<>>
      /\ w \in Wallets /\ w.pos = s.pos /\ \A t \in Tokens : Z(w.held[t]) = Z(s.held[t]) + g[t]
  BY DEF Moves
<1>2. ApplyDelta(s, d) = w
  <2> HIDE DEF w
  <2>1. ApplyDelta(s, d) = AllPending(AllPositions(w, <<>>), <<>>)  BY <1>1, ApplyDeltaFolds DEF w
  <2>. QED  BY <2>1, Posn!FoldEmpty, Pend!FoldEmpty DEF AllPositions, AllPending
<1> HIDE DEF w
<1>3. OneEach(w) /\ w # Err  BY <1>1, ErrAssumption DEF OneEach
<1>4. ASSUME NEW t \in Tokens PROVE Worth(w, t) = Worth(s, t) + g[t]
  <2>1. Worth(w, t) = Z(w.held[t]) + Locked(s.pos, t) /\ Worth(s, t) = Z(s.held[t]) + Locked(s.pos, t)  BY <1>1, WorthIs
  <2>. QED  BY <1>1, <2>1, WalletPos
<1>. QED  BY <1>1, <1>2, <1>3, <1>4

\* Tokens and one position.
LEMMA GoodPos ==
  ASSUME NEW s \in Wallets, OneEach(s), NEW d, NEW g, NEW c \in PositionChange, Moves(s, d, g, <<c>>), NEW k,
         ~NoPos(s.pos, c), c.op = "open" /\ c.id # "drop" => s.pos[c.id] = <<>>,
         NEW f \in [Tokens -> Int], \A t \in Tokens : Locked(NewPos(s.pos, c), t) + g[t] = Locked(s.pos, t) + f[t]
  PROVE  Good(s, Out(k, d, f))
<1> SUFFICES ASSUME d # Err
             PROVE  /\ d \in Deltas /\ ApplyDelta(s, d) # Err
                    /\ OneEach(ApplyDelta(s, d))
                    /\ \A t \in Tokens : Worth(ApplyDelta(s, d), t) = Worth(s, t) + f[t]
  BY GoodIf
<1> DEFINE w == AllTokens(s, d.tokens)
           y == NewPos(s.pos, c)
           v == With(w, y, w.pending)
<1>1. /\ g \in [Tokens -> Int] /\ d \in Deltas /\ d.positions = <<c>> /\ d.pending = <<>>
      /\ w \in Wallets /\ w.pos = s.pos /\ \A t \in Tokens : Z(w.held[t]) = Z(s.held[t]) + g[t]
  BY DEF Moves
<1> HIDE DEF w, y
<1>2. ApplyPosition(w, c) = v /\ v \in Wallets  BY <1>1, PositionIs DEF y
<1>3. v.pos = y /\ v.held = w.held  BY DEF With
<1> HIDE DEF v
<1>4. ApplyDelta(s, d) = v
  <2>1. ApplyDelta(s, d) = AllPending(AllPositions(w, <<c>>), <<>>)  BY <1>1, ApplyDeltaFolds DEF w
  <2>2. AllPositions(w, <<c>>) = ApplyPosition(w, c)  BY Posn!FoldOne DEF AllPositions, PositionStep
  <2>. QED  BY <1>2, <2>1, <2>2, Pend!FoldEmpty DEF AllPending
<1>5. OneEach(v)
  <2> SUFFICES ASSUME NEW id \in PositionIds \ {"drop"} PROVE Len(y[id]) <= 1  BY <1>3 DEF OneEach
  <2>1. Len(s.pos[id]) <= 1 /\ s.pos[id] \in Seq(BodyOf(id)) /\ s.pos \in [PositionIds -> Seq(Bodies)]  BY DEF OneEach, Wallets
  <2>2. CASE id # c.id
    <3>1. y[id] = s.pos[id]  BY <2>1, <2>2 DEF y, NewPos
    <3>. QED  BY <2>1, <3>1
  <2>3. CASE id = c.id
    <3>1. CASE c.op = "open"
      <4>1. y[id] = Append(<<>>, c.body)  BY <2>1, <2>3, <3>1 DEF y, NewPos
      <4>. QED  BY <4>1
    <3>2. CASE c.op = "update"
      <4>1. y[id] = [s.pos[id] EXCEPT ![1] = c.body]  BY <2>1, <2>3, <3>2 DEF y, NewPos
      <4>2. Len([s.pos[id] EXCEPT ![1] = c.body]) = Len(s.pos[id])  BY <2>1
      <4>. QED  BY <2>1, <4>1, <4>2
    <3>3. CASE c.op = "close"
      <4>1. y[id] = <<>>  BY <2>1, <2>3, <3>3 DEF y, NewPos
      <4>. QED  BY <4>1
    <3>. QED  BY <3>1, <3>2, <3>3 DEF PositionChange
  <2>. QED  BY <2>2, <2>3
<1>6. ASSUME NEW t \in Tokens PROVE Worth(v, t) = Worth(s, t) + f[t]
  <2>1. Worth(v, t) = Z(w.held[t]) + Locked(y, t) /\ Worth(s, t) = Z(s.held[t]) + Locked(s.pos, t)  BY <1>2, <1>3, WorthIs
  <2>2. /\ Locked(y, t) + g[t] = Locked(s.pos, t) + f[t] /\ Locked(y, t) \in Int /\ Locked(s.pos, t) \in Int
        /\ Z(s.held[t]) \in Int /\ g[t] \in Int /\ f[t] \in Int /\ Z(w.held[t]) = Z(s.held[t]) + g[t]
    BY <1>1, <1>2, <1>3, WalletPos DEF y
  <2>. QED  BY SMTT(30), ZenonT(60), <2>1, <2>2
<1>7. v # Err  BY <1>2, ErrAssumption
<1>. QED  BY <1>1, <1>4, <1>5, <1>6, <1>7

-----------------------------------------------------------------------------
(* The position that a reducer opens, updates or closes                      *)

\* Sales, airdrops and Hyperliquid accounts are not counted.
LEMMA GoodUncounted ==
  ASSUME NEW s \in Wallets, OneEach(s), NEW d, NEW g, NEW c \in PositionChange, Moves(s, d, g, <<c>>), NEW k,
         ~NoPos(s.pos, c), c.op = "open" /\ c.id # "drop" => s.pos[c.id] = <<>>, c.id \in {"sale", "drop", "hl"}
  PROVE  Good(s, Out(k, d, g))
<1>1. s.pos \in [PositionIds -> Seq(Bodies)] /\ {"loan", "perp"} \subseteq PositionIds  BY DEF Wallets, PositionIds
<1>2. NewPos(s.pos, c)["loan"] = s.pos["loan"] /\ NewPos(s.pos, c)["perp"] = s.pos["perp"]  BY <1>1 DEF NewPos
<1>3. \A t \in Tokens : Locked(NewPos(s.pos, c), t) = Locked(s.pos, t)  BY <1>2 DEF Locked
<1>4. g \in [Tokens -> Int]  BY DEF Moves
<1>. QED  BY <1>3, <1>4, GoodPos

\* The loan account: b replaces it, or is its first body.
LEMMA GoodLoan ==
  ASSUME NEW s \in Wallets, OneEach(s), NEW d, NEW g, NEW b \in Account, NEW op \in {"open", "update"},
         Moves(s, d, g, <<[op |-> op, id |-> "loan", body |-> b]>>), NEW k,
         op = "open" <=> s.pos["loan"] = <<>>,
         NEW f \in [Tokens -> Int],
         \A t \in Tokens : (IF t \in Coins THEN NetOf(b, t) ELSE 0) + g[t] = Net(s.pos["loan"], t) + f[t]
  PROVE  Good(s, Out(k, d, f))
<1> DEFINE c == [op |-> op, id |-> "loan", body |-> b]
           y == NewPos(s.pos, c)
<1>1. c \in PositionChange /\ c.op = op /\ c.id = "loan" /\ c.body = b  BY DEF PositionChange, PositionIds, Bodies, BodyOf
<1>2. s.pos \in [PositionIds -> Seq(Bodies)] /\ {"loan", "perp"} \subseteq PositionIds /\ s.pos["loan"] \in Seq(Account)
  BY WalletPos DEF Wallets, PositionIds
<1>3. ~NoPos(s.pos, c)  BY <1>1 DEF NoPos
<1> HIDE DEF c
<1>4. y["perp"] = s.pos["perp"]  BY <1>1, <1>2 DEF NewPos
<1>5. y["loan"] # <<>> /\ y["loan"][1] = b
  <2>1. CASE op = "open"
    <3>1. y["loan"] = Append(<<>>, b)  BY <1>1, <1>2, <2>1 DEF NewPos
    <3>. QED  BY <3>1
  <2>2. CASE op = "update"
    <3>1. y["loan"] = [s.pos["loan"] EXCEPT ![1] = b]  BY <1>1, <1>2, <2>2 DEF NewPos
    <3>2. s.pos["loan"] # <<>>  BY <2>2
    <3>3. 1 \in 1 .. Len(s.pos["loan"]) /\ DOMAIN s.pos["loan"] = 1 .. Len(s.pos["loan"])  BY <1>2, <3>2
    <3> HIDE DEF y
    <3>4. y["loan"][1] = b /\ DOMAIN y["loan"] = 1 .. Len(s.pos["loan"])  BY <3>1, <3>3
    <3>5. 1 \in DOMAIN y["loan"] /\ 1 \notin DOMAIN <<>>  BY <3>3, <3>4
    <3>. QED  BY <3>4, <3>5
  <2>. QED  BY <2>1, <2>2
<1> HIDE DEF y
<1>6. ASSUME NEW t \in Tokens PROVE Locked(y, t) + g[t] = Locked(s.pos, t) + f[t]
  <2> DEFINE x == IF t \in Coins THEN NetOf(b, t) ELSE 0
  <2>1. Locked(y, t) = Mar(s.pos["perp"], t) + x  BY <1>4, <1>5 DEF Locked, Net
  <2>2. Locked(s.pos, t) = Mar(s.pos["perp"], t) + Net(s.pos["loan"], t)  BY DEF Locked
  <2>3. x + g[t] = Net(s.pos["loan"], t) + f[t] /\ x \in Int  BY LoanBody
  <2>4. Mar(s.pos["perp"], t) \in Int /\ Net(s.pos["loan"], t) \in Int /\ g[t] \in Int /\ f[t] \in Int
    BY WalletPos, LockedType DEF Moves
  <2> HIDE DEF x
  <2>. QED  BY SMTT(30), ZenonT(60), <2>1, <2>2, <2>3, <2>4
<1>. QED  BY <1>1, <1>3, <1>6, GoodPos DEF c, y

\* The perp position.
LEMMA GoodPerp ==
  ASSUME NEW s \in Wallets, OneEach(s), NEW d, NEW g, NEW b \in PerpBody, NEW op \in {"open", "update"},
         Moves(s, d, g, <<[op |-> op, id |-> "perp", body |-> b]>>), NEW k,
         op = "open" <=> s.pos["perp"] = <<>>,
         NEW f \in [Tokens -> Int],
         \A t \in Tokens : SumOf(b.coll, t) + g[t] = Mar(s.pos["perp"], t) + f[t]
  PROVE  Good(s, Out(k, d, f))
<1> DEFINE c == [op |-> op, id |-> "perp", body |-> b]
           y == NewPos(s.pos, c)
<1>1. c \in PositionChange /\ c.op = op /\ c.id = "perp" /\ c.body = b  BY DEF PositionChange, PositionIds, Bodies, BodyOf
<1>2. s.pos \in [PositionIds -> Seq(Bodies)] /\ {"loan", "perp"} \subseteq PositionIds /\ s.pos["perp"] \in Seq(PerpBody)
  BY WalletPos DEF Wallets, PositionIds
<1>3. ~NoPos(s.pos, c)  BY <1>1 DEF NoPos
<1> HIDE DEF c
<1>4. y["loan"] = s.pos["loan"]  BY <1>1, <1>2 DEF NewPos
<1>5. y["perp"] # <<>> /\ y["perp"][1] = b
  <2>1. CASE op = "open"
    <3>1. y["perp"] = Append(<<>>, b)  BY <1>1, <1>2, <2>1 DEF NewPos
    <3>. QED  BY <3>1
  <2>2. CASE op = "update"
    <3>1. y["perp"] = [s.pos["perp"] EXCEPT ![1] = b]  BY <1>1, <1>2, <2>2 DEF NewPos
    <3>2. s.pos["perp"] # <<>>  BY <2>2
    <3>3. 1 \in 1 .. Len(s.pos["perp"]) /\ DOMAIN s.pos["perp"] = 1 .. Len(s.pos["perp"])  BY <1>2, <3>2
    <3> HIDE DEF y
    <3>4. y["perp"][1] = b /\ DOMAIN y["perp"] = 1 .. Len(s.pos["perp"])  BY <3>1, <3>3
    <3>5. 1 \in DOMAIN y["perp"] /\ 1 \notin DOMAIN <<>>  BY <3>3, <3>4
    <3>. QED  BY <3>4, <3>5
  <2>. QED  BY <2>1, <2>2
<1> HIDE DEF y
<1>6. ASSUME NEW t \in Tokens PROVE Locked(y, t) + g[t] = Locked(s.pos, t) + f[t]
  <2>1. Locked(y, t) = SumOf(b.coll, t) + Net(s.pos["loan"], t)  BY <1>4, <1>5 DEF Locked, Mar
  <2>2. Locked(s.pos, t) = Mar(s.pos["perp"], t) + Net(s.pos["loan"], t)  BY DEF Locked
  <2>3. SumOf(b.coll, t) + g[t] = Mar(s.pos["perp"], t) + f[t] /\ SumOf(b.coll, t) \in Int
    BY SumType DEF PerpBody, Entries
  <2>4. Mar(s.pos["perp"], t) \in Int /\ Net(s.pos["loan"], t) \in Int /\ g[t] \in Int /\ f[t] \in Int
    BY WalletPos, LockedType DEF Moves
  <2>. QED  BY <2>1, <2>2, <2>3, <2>4
<1>. QED  BY <1>1, <1>3, <1>6, GoodPos DEF c, y

-----------------------------------------------------------------------------
(* Token, Permit2 and NFT actions                                            *)

LEMMA PlusIs ==
  /\ \A f \in [Tokens -> Int] : Plus(NoFlow, f) = f
  /\ \A f, g, t : t \in Tokens => Plus(f, g)[t] = f[t] + g[t]
  /\ \A t, u, n : u \in Tokens => Only(t, n)[u] = IF u = t THEN n ELSE 0
  /\ \A t \in Tokens : NoFlow[t] = 0
BY DEF Plus, NoFlow, Only

LEMMA Numbers ==
  /\ \A n \in Amounts : n \in Nat /\ n \in Int /\ -n \in Int /\ n > 0
  /\ \A t \in Coins : t \in Tokens
  /\ Lp \in Tokens
<1>1. ASSUME NEW n \in Amounts PROVE n \in Nat /\ n \in Int /\ -n \in Int /\ n > 0
  <2>1. n \in Nat \ {0}  BY ReducerAssumption
  <2>. QED  BY <2>1
<1>. QED  BY <1>1 DEF Tokens

\* A change of a pending entry.
LEMMA GoodPending ==
  ASSUME NEW s \in Wallets, OneEach(s), NEW op \in {"add", "remove"}, NEW id \in {"permit", "order"}, NEW k,
         op = "add" \/ k \in Queued
  PROVE  Good(s, Out(k, Pending(op, id), NoFlow))
<1> DEFINE c == [op |-> op, id |-> id]
           d == Pending(op, id)
           z == NewPending(s.pending, c)
           v == With(s, s.pos, z)
<1>1. c \in PendingChange /\ c.op = op  BY DEF PendingChange
<1>2. d \in Deltas /\ d.tokens = <<>> /\ d.positions = <<>> /\ d.pending = <<c>>
  <2>1. d = [tokens |-> <<>>, positions |-> <<>>, pending |-> <<c>>]  BY DEF Pending, Nothing
  <2> HIDE DEF c, d
  <2>2. <<c>> \in Seq(PendingChange) /\ <<>> \in Seq(TokenChange) /\ <<>> \in Seq(PositionChange)  BY <1>1
  <2>. QED  BY <2>1, <2>2 DEF Deltas
<1> SUFFICES Good(s, Out(k, d, NoFlow))  OBVIOUS
<1> HIDE DEF c, d
<1>3. ApplyDelta(s, d) = ApplyPending(s, c)
  <2>1. ApplyDelta(s, d) = AllPending(AllPositions(AllTokens(s, <<>>), <<>>), <<c>>)  BY <1>2, ApplyDeltaFolds
  <2>. QED  BY <2>1, Tok!FoldEmpty, Posn!FoldEmpty, Pend!FoldOne DEF AllTokens, AllPositions, AllPending, PendingStep
<1>4. CASE NoPending(s.pending, c)
  <2>1. ApplyDelta(s, d) = Err /\ k \in Queued  BY <1>1, <1>3, <1>4, PendingIs DEF NoPending
  <2>. QED  BY <1>2, <2>1, GoodIf, FlowTypes
<1>5. CASE ~NoPending(s.pending, c)
  <2>1. ApplyDelta(s, d) = v /\ v \in Wallets  BY <1>1, <1>3, <1>5, PendingIs
  <2>2. v.pos = s.pos /\ v.held = s.held  BY DEF With
  <2> HIDE DEF v
  <2>3. OneEach(v) /\ v # Err  BY <2>1, <2>2, ErrAssumption DEF OneEach
  <2>4. \A t \in Tokens : Worth(v, t) = Worth(s, t) + NoFlow[t]
    <3>1. \A t \in Tokens : Worth(v, t) = Worth(s, t) /\ Worth(s, t) \in Int  BY <2>1, <2>2, WorthIs, WalletPos
    <3>. QED  BY <3>1, PlusIs
  <2>. QED  BY <1>2, <2>1, <2>3, <2>4, GoodIf, FlowTypes
<1>. QED  BY <1>4, <1>5

\* A token change that is queued without a look at the state.
LEMMA GoodQueued ==
  ASSUME NEW s \in Wallets, OneEach(s), NEW c \in TokenChange,
         \/ c.op = "approved"
         \/ c.op = "balance" /\ c.t = "nft"
         \/ c.op = "set" /\ c.t = "native",
         NEW k \in Queued
  PROVE  Good(s, Out(k, Token(Nothing, c), NoFlow))
<1> DEFINE d == Token(Nothing, c)
           v == NewTokens(s, c)
<1>1. Nothing \in Deltas /\ Nothing.tokens = <<>> /\ Nothing.positions = <<>> /\ Nothing.pending = <<>>
  BY DEF Nothing, Deltas
<1>2. /\ d \in Deltas /\ d.positions = <<>> /\ d.pending = <<>>
      /\ AllTokens(s, d.tokens) = ApplyToken(AllTokens(s, Nothing.tokens), c)
  BY <1>1, TokenQueued
<1> SUFFICES Good(s, Out(k, d, NoFlow))  OBVIOUS
<1> HIDE DEF d
<1>3. ApplyDelta(s, d) = ApplyToken(s, c)
  <2>1. ApplyDelta(s, d) = AllPending(AllPositions(AllTokens(s, d.tokens), <<>>), <<>>)  BY <1>2, ApplyDeltaFolds
  <2>2. AllTokens(s, <<>>) = s  BY Tok!FoldEmpty DEF AllTokens
  <2>. QED  BY <1>1, <1>2, <2>1, <2>2, Posn!FoldEmpty, Pend!FoldEmpty DEF AllPositions, AllPending
<1>4. CASE NoToken(s, c)
  <2>1. ApplyDelta(s, d) = Err  BY <1>3, <1>4, TokenIs
  <2>. QED  BY <1>2, <2>1, GoodIf, FlowTypes
<1>5. CASE ~NoToken(s, c)
  <2>1. ApplyDelta(s, d) = v /\ v \in Wallets  BY <1>3, <1>5, TokenIs, TokenResult
  <2>2. v.pos = s.pos /\ v.held = s.held  BY <1>5 DEF NewTokens, NewHeld, NoToken
  <2> HIDE DEF v
  <2>3. OneEach(v) /\ v # Err  BY <2>1, <2>2, ErrAssumption DEF OneEach
  <2>4. \A t \in Tokens : Worth(v, t) = Worth(s, t) + NoFlow[t]
    <3>1. \A t \in Tokens : Worth(v, t) = Worth(s, t) /\ Worth(s, t) \in Int  BY <2>1, <2>2, WorthIs, WalletPos
    <3>. QED  BY <3>1, PlusIs
  <2>. QED  BY <1>2, <2>1, <2>3, <2>4, GoodIf, FlowTypes
<1>. QED  BY <1>4, <1>5

LEMMA GoodErr == ASSUME NEW s, NEW k, NEW f PROVE Good(s, Out(k, Err, f))
BY OutIs DEF Good

LEMMA StillIs ==
  ASSUME NEW s \in Wallets, NEW d, NEW g, NEW q, Moves(s, d, g, q)
  PROVE  /\ \A t \in Coins, n \in Amounts : Moves(s, Allow(d, t, n), g, q)
         /\ \A op \in {"revoke", "lockdown"}, t \in Coins : Moves(s, Token(d, [op |-> op, t |-> t, n |-> None]), g, q)
         /\ \A op \in {"set", "revoke"} : Moves(s, Token(d, [op |-> op, t |-> "nft", n |-> None]), g, q)
<1>1. ASSUME NEW t \in Coins, NEW n \in Amounts PROVE Moves(s, Allow(d, t, n), g, q)
  <2> DEFINE c == [op |-> "set", t |-> t, n |-> n]
  <2>1. c \in TokenChange /\ c.op = "set" /\ c.t # "native"  BY Numbers, ReducerAssumption DEF TokenChange
  <2> HIDE DEF c
  <2>2. Moves(s, Token(d, c), g, q)  BY <2>1, MovesStill
  <2>. QED  BY <2>2 DEF Allow, c
<1>2. ASSUME NEW op \in {"revoke", "lockdown"}, NEW t \in Coins
      PROVE  Moves(s, Token(d, [op |-> op, t |-> t, n |-> None]), g, q)
  <2> DEFINE c == [op |-> op, t |-> t, n |-> None]
  <2>1. c \in TokenChange /\ c.op = op /\ c.t # "native"  BY Numbers, ReducerAssumption DEF TokenChange
  <2> HIDE DEF c
  <2>2. Moves(s, Token(d, c), g, q)  BY <2>1, MovesStill
  <2>. QED  BY <2>2 DEF c
<1>3. ASSUME NEW op \in {"set", "revoke"}
      PROVE  Moves(s, Token(d, [op |-> op, t |-> "nft", n |-> None]), g, q)
  <2> DEFINE c == [op |-> op, t |-> "nft", n |-> None]
  <2>1. c \in TokenChange /\ c.op = op /\ c.t # "native"  BY DEF TokenChange
  <2> HIDE DEF c
  <2>2. Moves(s, Token(d, c), g, q)  BY <2>1, MovesStill
  <2>. QED  BY <2>2 DEF c
<1>. QED  BY <1>1, <1>2, <1>3

LEMMA NftGood ==
  ASSUME NEW s \in Wallets, OneEach(s) PROVE Good(s, Out("nft_transfer", NftTransfer(s), NoFlow))
<1> DEFINE c == [op |-> "balance", t |-> "nft", n |-> -1]
<1>1. c \in TokenChange /\ c.op = "balance" /\ c.t = "nft" /\ "nft_transfer" \in Queued
  <2>1. -1 \in Int  OBVIOUS
  <2>. QED  BY <2>1 DEF TokenChange, Queued
<1> HIDE DEF c
<1>2. Good(s, Out("nft_transfer", Token(Nothing, c), NoFlow))  BY <1>1, GoodQueued
<1>3. NftTransfer(s) = Err \/ NftTransfer(s) = Token(Nothing, c)  BY DEF NftTransfer, c
<1>. QED  BY <1>2, <1>3, GoodErr

LEMMA TokenGood ==
  ASSUME NEW s \in Wallets, OneEach(s),
         NEW r \in {Rejected} \cup Approve \cup Permit2Approve \cup SignPermit \cup SignPermit2 \cup Transfer(s) \cup Revoke \cup NftActions(s)
                   \cup Inert \cup Delegate \cup Collect(s) \cup SignOrder \cup EndOrder \cup PlaceOrder \cup CancelOrder
  PROVE  Good(s, r)
<1>0. Moves(s, Nothing, NoFlow, <<>>)  BY MovesNothing
<1>1. CASE r \in {Rejected}  BY <1>1, GoodErr DEF Rejected
<1>2. CASE r \in Approve \cup Permit2Approve \cup Delegate
  <2>1. PICK k \in {"approve", "permit2", "delegate"}, t \in Coins \cup {"native"}, n \in Amounts :
          /\ r = Out(k, Allow(Nothing, t, n), NoFlow)
          /\ t = "native" => k = "delegate"
    BY <1>2, ReducerAssumption DEF Approve, Permit2Approve, Delegate
  <2>2. CASE t \in Coins
    <3>1. Moves(s, Allow(Nothing, t, n), NoFlow, <<>>)  BY <1>0, <2>2, StillIs
    <3>. QED  BY <2>1, <3>1, GoodPlain
  <2>3. CASE t = "native"
    <3> DEFINE c == [op |-> "set", t |-> t, n |-> n]
    <3>1. c \in TokenChange /\ c.op = "set" /\ c.t = "native" /\ k \in Queued  BY <2>1, <2>3, Numbers DEF TokenChange, Queued
    <3> HIDE DEF c
    <3>2. Good(s, Out(k, Token(Nothing, c), NoFlow))  BY <3>1, GoodQueued
    <3>. QED  BY <2>1, <3>2 DEF Allow, c
  <2>. QED  BY <2>2, <2>3
<1>3. CASE r \in SignPermit \cup SignPermit2 \cup SignOrder \cup PlaceOrder \cup CancelOrder
  BY <1>3, GoodPending DEF SignPermit, SignPermit2, SignOrder, PlaceOrder, CancelOrder, Queued
<1>4. CASE r \in EndOrder
  <2>1. r = Out("end_order", Pending("remove", "order"), NoFlow) \/ r = Out("end_order", Nothing, NoFlow)
    BY <1>4 DEF EndOrder
  <2>. QED  BY <1>0, <2>1, GoodPending, GoodPlain DEF Queued
<1>5. CASE r \in Transfer(s)
  <2>1. PICK t \in Coins, n \in Amounts : r = Out("transfer", Debit(s, Nothing, t, n), Only(t, -n))  BY <1>5 DEF Transfer
  <2>2. Moves(s, Debit(s, Nothing, t, n), Plus(NoFlow, Only(t, -n)), <<>>)  BY <1>0, Numbers, MovesDebit
  <2>3. Plus(NoFlow, Only(t, -n)) = Only(t, -n)  BY PlusIs, FlowTypes, Numbers
  <2>. QED  BY <2>1, <2>2, <2>3, GoodPlain
<1>6. CASE r \in Revoke
  <2>1. PICK op \in {"revoke", "lockdown"}, t \in Coins : r = Out(op, Change(op, t), NoFlow)  BY <1>6 DEF Revoke
  <2>2. Moves(s, Change(op, t), NoFlow, <<>>)  BY <1>0, StillIs DEF Change
  <2>. QED  BY <2>1, <2>2, GoodPlain
<1>7. CASE r \in NftActions(s)
  <2>1. CASE r \in {Out("nft_all", Change(op, "nft"), NoFlow) : op \in {"set", "revoke"}}
    <3>1. PICK op \in {"set", "revoke"} : r = Out("nft_all", Change(op, "nft"), NoFlow)  BY <2>1
    <3>2. Moves(s, Change(op, "nft"), NoFlow, <<>>)  BY <1>0, StillIs DEF Change
    <3>. QED  BY <3>1, <3>2, GoodPlain
  <2>2. CASE r \in {Out("nft_approve", Token(Nothing, [op |-> "approved", t |-> "nft", n |-> a]), NoFlow) :
                      a \in {Spender, None}}
    <3>1. PICK a \in {Spender, None} : r = Out("nft_approve", Token(Nothing, [op |-> "approved", t |-> "nft", n |-> a]), NoFlow)
      BY <2>2
    <3> DEFINE c == [op |-> "approved", t |-> "nft", n |-> a]
    <3>2. c \in TokenChange /\ c.op = "approved" /\ "nft_approve" \in Queued  BY DEF TokenChange, Queued
    <3> HIDE DEF c
    <3>3. PICK k \in Queued : k = "nft_approve"  BY <3>2
    <3>4. Good(s, Out(k, Token(Nothing, c), NoFlow))  BY <3>2, GoodQueued
    <3>. QED  BY <3>1, <3>3, <3>4 DEF c
  <2>. QED  BY <1>7, <2>1, <2>2, NftGood DEF NftActions
<1>8. CASE r \in Inert  BY <1>0, <1>8, GoodPlain DEF Inert
<1>9. CASE r \in Collect(s)
  <2>1. PICK t \in Coins, n \in Amounts : r = Out("collect", Credit(s, Nothing, t, n), Only(t, n))  BY <1>9 DEF Collect
  <2>2. Moves(s, Credit(s, Nothing, t, n), Plus(NoFlow, Only(t, n)), <<>>)  BY <1>0, Numbers, MovesCredit
  <2>3. Plus(NoFlow, Only(t, n)) = Only(t, n)  BY PlusIs, FlowTypes, Numbers
  <2>. QED  BY <2>1, <2>2, <2>3, GoodPlain
<1>. QED  BY <1>1, <1>2, <1>3, <1>4, <1>5, <1>6, <1>7, <1>8, <1>9

-----------------------------------------------------------------------------
(* Lending                                                                   *)

\* merge_collateral and merge_debt, reduce_collateral and reduce_debt: the entry
\* moves by the amount, also when it is created or evicted.
LEMMA MergeIs ==
  ASSUME NEW K, NEW f \in [K -> Opt(Nat)], NEW k \in K, NEW n \in Nat
  PROVE  /\ MergeEntry(f, k, n) \in [K -> Opt(Nat)]
         /\ \A j \in K : Z(MergeEntry(f, k, n)[j]) = Z(f[j]) + (IF j = k THEN n ELSE 0)
<1> DEFINE h == MergeEntry(f, k, n)
<1>0. \A x \in Opt(Nat) : Z(x) \in Nat  BY DEF Opt, Z
<1>1. h = [f EXCEPT ![k] = Z(f[k]) + n] /\ Z(f[k]) \in Nat  BY <1>0 DEF MergeEntry
<1>2. Z(f[k]) + n \in Opt(Nat) /\ Z(Z(f[k]) + n) = Z(f[k]) + n
  <2> DEFINE x == Z(f[k])
  <2>1. x \in Nat  BY <1>1
  <2> HIDE DEF x
  <2>2. x + n \in Nat  BY <2>1
  <2>3. x + n # None  BY <2>2, ReducerAssumption
  <2>4. Z(x + n) = x + n /\ x + n \in Opt(Nat)  BY <2>2, <2>3 DEF Z, Opt
  <2>. QED  BY <2>4 DEF x
<1>3. h \in [K -> Opt(Nat)]  BY <1>1, <1>2
<1>4. ASSUME NEW j \in K PROVE Z(h[j]) = Z(f[j]) + (IF j = k THEN n ELSE 0)
  <2>1. CASE j = k  BY <1>1, <1>2, <2>1
  <2>2. CASE j # k
    <3>1. h[j] = f[j] /\ Z(f[j]) \in Nat  BY <1>0, <1>1, <2>2
    <3>. QED  BY <2>2, <3>1
  <2>. QED  BY <2>1, <2>2
<1>. QED  BY <1>3, <1>4

LEMMA ReduceIs ==
  ASSUME NEW K, NEW f \in [K -> Opt(Nat)], NEW k \in K, NEW n \in Nat, ReduceEntry(f, k, n) # Err
  PROVE  /\ ReduceEntry(f, k, n) \in [K -> Opt(Nat)]
         /\ \A j \in K : Z(ReduceEntry(f, k, n)[j]) = Z(f[j]) + (IF j = k THEN -n ELSE 0)
<1> DEFINE h == ReduceEntry(f, k, n)
<1>1. f[k] # None /\ ~(f[k] < n) /\ h = [f EXCEPT ![k] = IF f[k] = n THEN None ELSE f[k] - n]
  BY DEF ReduceEntry
<1>2. f[k] \in Nat /\ f[k] - n \in Nat  BY <1>1 DEF Opt
<1> HIDE DEF h
<1>3. h \in [K -> Opt(Nat)]  BY <1>1, <1>2 DEF Opt
<1>4. ASSUME NEW j \in K PROVE Z(h[j]) = Z(f[j]) + (IF j = k THEN -n ELSE 0)
  <2>1. CASE j = k
    <3>1. h[j] = IF f[k] = n THEN None ELSE f[k] - n  BY <1>1, <2>1
    <3>2. f[k] - n # None  BY <1>2, ReducerAssumption
    <3>3. Z(h[j]) = f[k] - n /\ Z(f[j]) = f[k]  BY <1>1, <1>2, <2>1, <3>1, <3>2 DEF Z
    <3>. QED  BY <1>2, <2>1, <3>3
  <2>2. CASE j # k
    <3>1. h[j] = f[j]  BY <1>1, <2>2
    <3>2. Z(f[j]) \in Nat  BY DEF Opt, Z
    <3>. QED  BY <2>2, <3>1, <3>2
  <2>. QED  BY <2>1, <2>2
<1>. QED  BY <1>3, <1>4 DEF h

LEMMA NetColl ==
  ASSUME NEW a \in Account, NEW c \in [Coins -> Opt(Nat)], NEW t \in Coins, NEW n \in Int,
         \A u \in Coins : Z(c[u]) = Z(a.coll[u]) + (IF u = t THEN n ELSE 0)
  PROVE  /\ [a EXCEPT !.coll = c] \in Account
         /\ \A u \in Coins : NetOf([a EXCEPT !.coll = c], u) = NetOf(a, u) + (IF u = t THEN n ELSE 0)
<1> DEFINE b == [a EXCEPT !.coll = c]
<1>1. b \in Account /\ b.coll = c /\ b.debt = a.debt  BY DEF Account
<1> HIDE DEF b
<1>2. ASSUME NEW u \in Coins PROVE NetOf(b, u) = NetOf(a, u) + (IF u = t THEN n ELSE 0)
  <2>1. a.coll[u] \in Opt(Nat) /\ a.debt \in [Coins \X Modes -> Opt(Nat)]  BY DEF Account
  <2>2. \A x \in Opt(Nat) : Z(x) \in Nat  BY DEF Opt, Z
  <2>3. Z(a.coll[u]) \in Nat /\ DebtOf(a.debt, u) \in Nat  BY <2>1, <2>2, DebtType
  <2>4. Z(b.coll[u]) = Z(a.coll[u]) + (IF u = t THEN n ELSE 0)  BY <1>1
  <2>. QED  BY <1>1, <2>3, <2>4 DEF NetOf
<1>. QED  BY <1>1, <1>2 DEF b

LEMMA NetDebt ==
  ASSUME NEW a \in Account, NEW c \in [Coins \X Modes -> Opt(Nat)], NEW t \in Coins, NEW n \in Int,
         \A u \in Coins : DebtOf(c, u) = DebtOf(a.debt, u) + (IF u = t THEN n ELSE 0)
  PROVE  /\ [a EXCEPT !.debt = c] \in Account
         /\ \A u \in Coins : NetOf([a EXCEPT !.debt = c], u) = NetOf(a, u) + (IF u = t THEN -n ELSE 0)
<1> DEFINE b == [a EXCEPT !.debt = c]
<1>1. b \in Account /\ b.debt = c /\ b.coll = a.coll  BY DEF Account
<1> HIDE DEF b
<1>2. ASSUME NEW u \in Coins PROVE NetOf(b, u) = NetOf(a, u) + (IF u = t THEN -n ELSE 0)
  <2>1. a.coll[u] \in Opt(Nat) /\ a.debt \in [Coins \X Modes -> Opt(Nat)]  BY DEF Account
  <2>2. \A x \in Opt(Nat) : Z(x) \in Nat  BY DEF Opt, Z
  <2>3. Z(a.coll[u]) \in Nat /\ DebtOf(a.debt, u) \in Nat /\ DebtOf(c, u) \in Nat  BY <2>1, <2>2, DebtType
  <2>. QED  BY <1>1, <2>3 DEF NetOf
<1>. QED  BY <1>1, <1>2 DEF b

LEMMA LoanBodyIs ==
  ASSUME NEW s \in Wallets, Has(s, "loan")
  PROVE  /\ Body(s, "loan") \in Account /\ s.pos["loan"] # <<>>
         /\ \A t \in Tokens : Net(s.pos["loan"], t) = IF t \in Coins THEN NetOf(Body(s, "loan"), t) ELSE 0
<1>1. s.pos["loan"] \in Seq(Account) /\ s.pos["loan"] # <<>>  BY WalletPos DEF Has
<1>2. s.pos["loan"][1] \in Account  BY <1>1
<1>. QED  BY <1>1, <1>2 DEF Body, Net

\* An update of the account that moves one token by x.
LEMMA LoanShift ==
  ASSUME NEW s \in Wallets, OneEach(s), Has(s, "loan"), NEW b \in Account, NEW t \in Coins, NEW x \in Int,
         \A u \in Coins : NetOf(b, u) = NetOf(Body(s, "loan"), u) + (IF u = t THEN x ELSE 0),
         NEW d, NEW g, Moves(s, d, g, <<[op |-> "update", id |-> "loan", body |-> b]>>),
         NEW f \in [Tokens -> Int], \A u \in Tokens : f[u] = g[u] + (IF u = t THEN x ELSE 0), NEW k
  PROVE  Good(s, Out(k, d, f))
<1>1. Body(s, "loan") \in Account /\ s.pos["loan"] # <<>>  BY LoanBodyIs
<1>2. ASSUME NEW u \in Tokens
      PROVE  (IF u \in Coins THEN NetOf(b, u) ELSE 0) + g[u] = Net(s.pos["loan"], u) + f[u]
  <2>1. Net(s.pos["loan"], u) = IF u \in Coins THEN NetOf(Body(s, "loan"), u) ELSE 0  BY LoanBodyIs
  <2>2. g[u] \in Int /\ f[u] = g[u] + (IF u = t THEN x ELSE 0)  BY DEF Moves
  <2>3. CASE u \in Coins
    <3>1. NetOf(Body(s, "loan"), u) \in Int  BY <1>1, <2>3, LoanBody
    <3>2. NetOf(b, u) = NetOf(Body(s, "loan"), u) + (IF u = t THEN x ELSE 0)  BY <2>3
    <3>. QED  BY <2>1, <2>2, <2>3, <3>1, <3>2
  <2>4. CASE u \notin Coins  BY <2>1, <2>2, <2>4
  <2>. QED  BY <2>3, <2>4
<1> DEFINE op == "update"
<1>3. op \in {"open", "update"} /\ (op = "open" <=> s.pos["loan"] = <<>>)  BY <1>1
<1>4. Moves(s, d, g, <<[op |-> op, id |-> "loan", body |-> b]>>)  OBVIOUS
<1> HIDE DEF op
<1>. QED  BY <1>2, <1>3, <1>4, GoodLoan

LEMMA LoanChange ==
  ASSUME NEW b \in Account, NEW op \in {"open", "update"} 
  PROVE  [op |-> op, id |-> "loan", body |-> b] \in PositionChange
BY DEF PositionChange, PositionIds, Bodies, BodyOf

LEMMA LoanMoves ==
  ASSUME NEW s \in Wallets, NEW d, NEW g, Moves(s, d, g, <<>>), NEW b \in Account, NEW op \in {"open", "update"}
  PROVE  Moves(s, Pos(d, op, "loan", b), g, <<[op |-> op, id |-> "loan", body |-> b]>>)
<1> DEFINE c == [op |-> op, id |-> "loan", body |-> b]
<1>1. c \in PositionChange  BY LoanChange
<1>2. Moves(s, Pos(d, op, "loan", b), g, Append(<<>>, c))  BY <1>1, MovesPos
<1>3. Append(<<>>, c) = <<c>>  OBVIOUS
<1>. QED  BY <1>2, <1>3

LEMMA ErrDelta ==
  /\ \A s, t, n : Debit(s, Err, t, n) = Err /\ Credit(s, Err, t, n) = Err
  /\ \A op, id, b : Pos(Err, op, id, b) = Err
BY DEF Debit, Credit, Pos

LEMMA ZIs == /\ \A x \in Opt(Nat) : Z(x) \in Nat /\ Z(Z(x)) = Z(x) /\ Z(x) \in Opt(Nat)
             /\ Z(None) = 0 /\ None \in Opt(Nat) /\ \A x \in Nat : Z(x) = x
BY ReducerAssumption DEF Z, Opt

LEMMA NewAccountIs == NewAccount \in Account /\ \A t \in Coins : NetOf(NewAccount, t) = 0
<1>1. /\ NewAccount \in Account /\ \A t \in Coins : NewAccount.coll[t] = None
      /\ \A k \in Coins \X Modes : NewAccount.debt[k] = None
  BY DEF NewAccount, Account, Opt
<1>2. ASSUME NEW t \in Coins PROVE NetOf(NewAccount, t) = 0
  <2>1. <<t, "stable">> \in Coins \X Modes /\ <<t, "variable">> \in Coins \X Modes /\ <<t, "fixed">> \in Coins \X Modes
    BY DEF Modes
  <2>2. NetOf(NewAccount, t) = 0 - (0 + 0 + 0)  BY <1>1, <2>1, ZIs DEF NetOf, DebtOf
  <2>. QED  BY <2>2
<1>. QED  BY <1>1, <1>2

LEMMA SupplyGood == ASSUME NEW s \in Wallets, OneEach(s), NEW r \in Supply(s) PROVE Good(s, r)
<1>1. PICK t \in Coins, n \in Amounts, e \in BOOLEAN :
         r = Lossy("supply", SupplyOf(s, t, n, e), NoFlow, IF Has(s, "loan") \/ e THEN NoFlow ELSE Only(t, n))
  BY DEF Supply
<1> DEFINE net == Out("supply", SupplyOf(s, t, n, e), IF Has(s, "loan") \/ e THEN NoFlow ELSE Only(t, -n))
           d == Debit(s, Nothing, t, n)
           a == IF Has(s, "loan") THEN Body(s, "loan") ELSE NewAccount
           c == MergeEntry(a.coll, t, n)
           b == [a EXCEPT !.coll = c]
           g == Only(t, -n)
<1>2. n \in Nat /\ n \in Int /\ -n \in Int /\ t \in Tokens  BY Numbers
<1>3. g \in [Tokens -> Int] /\ Plus(NoFlow, g) = g /\ \A u \in Tokens : g[u] = IF u = t THEN -n ELSE 0
  BY <1>2, FlowTypes, PlusIs
<1>4. Moves(s, d, g, <<>>)
  <2>1. Moves(s, d, Plus(NoFlow, Only(t, -n)), <<>>)  BY <1>2, MovesNothing, MovesDebit
  <2>. QED  BY <1>3, <2>1
<1>5. a \in Account  BY LoanBodyIs, NewAccountIs
<1>6. a.coll \in [Coins -> Opt(Nat)]  BY <1>5 DEF Account
<1>7. b \in Account /\ \A u \in Coins : NetOf(b, u) = NetOf(a, u) + (IF u = t THEN n ELSE 0)
  <2> HIDE DEF a
  <2>1. /\ c \in [Coins -> Opt(Nat)]
        /\ \A u \in Coins : Z(c[u]) = Z(a.coll[u]) + (IF u = t THEN n ELSE 0)
    BY <1>2, <1>6, MergeIs
  <2> HIDE DEF c
  <2>. QED  BY <1>2, <1>5, <2>1, NetColl
<1>8. b = [a EXCEPT !.coll = MergeEntry(@, t, n)]  BY <1>5 DEF Account
<1>9. ASSUME Has(s, "loan") PROVE Good(s, net)
  <2>1. SupplyOf(s, t, n, e) = Pos(d, "update", "loan", b)  BY <1>8, <1>9 DEF SupplyOf
  <2>2. a = Body(s, "loan")  BY <1>9
  <2> HIDE DEF d, a, b, g
  <2>3. Moves(s, Pos(d, "update", "loan", b), g, <<[op |-> "update", id |-> "loan", body |-> b]>>)  BY <1>4, <1>7, LoanMoves
  <2>4. \A u \in Tokens : NoFlow[u] = g[u] + (IF u = t THEN n ELSE 0)  BY <1>2, <1>3, PlusIs
  <2>5. \A u \in Coins : NetOf(b, u) = NetOf(Body(s, "loan"), u) + (IF u = t THEN n ELSE 0)  BY <1>7, <2>2
  <2> DEFINE z == Pos(d, "update", "loan", b)
  <2> HIDE DEF z
  <2>6. b \in Account /\ NoFlow \in [Tokens -> Int]  BY <1>7, FlowTypes
  <2>7. Good(s, Out("supply", z, NoFlow))
    BY <1>2, <1>9, <2>3, <2>4, <2>5, <2>6, LoanShift DEF z
  <2>. QED  BY <1>9, <2>1, <2>7 DEF z
<1>10. ASSUME ~Has(s, "loan") PROVE Good(s, net)
  <2> DEFINE h == IF e THEN b ELSE NewAccount
             f == IF e THEN NoFlow ELSE Only(t, -n)
             op == "open"
  <2>1. SupplyOf(s, t, n, e) = Pos(d, "open", "loan", h)  BY <1>8, <1>10 DEF SupplyOf, Open
  <2>2. a = NewAccount  BY <1>10
  <2>3. h \in Account /\ \A u \in Coins : NetOf(h, u) = IF e /\ u = t THEN n ELSE 0
    <3> HIDE DEF a, b
    <3>. QED  BY <1>2, <1>7, <2>2, NewAccountIs
  <2>4. f \in [Tokens -> Int] /\ \A u \in Tokens : f[u] = IF ~e /\ u = t THEN -n ELSE 0  BY <1>2, FlowTypes, PlusIs
  <2>5. s.pos["loan"] = <<>> /\ op \in {"open", "update"} /\ (op = "open" <=> s.pos["loan"] = <<>>)  BY <1>10 DEF Has
  <2> HIDE DEF d, a, b, g, h, f, op
  <2>6. Moves(s, Pos(d, op, "loan", h), g, <<[op |-> op, id |-> "loan", body |-> h]>>)  BY <1>4, <2>3, <2>5, LoanMoves
  <2>7. ASSUME NEW u \in Tokens
        PROVE (IF u \in Coins THEN NetOf(h, u) ELSE 0) + g[u] = Net(s.pos["loan"], u) + f[u]
    <3>1. Net(s.pos["loan"], u) = 0  BY <2>5 DEF Net
    <3>. QED  BY <1>2, <1>3, <2>3, <2>4, <3>1
  <2>8. Good(s, Out("supply", Pos(d, op, "loan", h), f))  BY <2>3, <2>4, <2>5, <2>6, <2>7, GoodLoan
  <2>. QED  BY <1>10, <2>1, <2>8 DEF f, op
<1>11. Good(s, net)  BY <1>9, <1>10
<1>12. Good(s, Lossy("supply", SupplyOf(s, t, n, e), NoFlow, IF Has(s, "loan") \/ e THEN NoFlow ELSE Only(t, n)))
  <2> DEFINE x == IF Has(s, "loan") \/ e THEN NoFlow ELSE Only(t, -n)
             l == IF Has(s, "loan") \/ e THEN NoFlow ELSE Only(t, n)
             z == SupplyOf(s, t, n, e)
  <2>1. l \in [Tokens -> Nat] /\ NoFlow \in [Tokens -> Int]  BY <1>2, FlowTypes
  <2>2. \A u \in Tokens : x[u] = NoFlow[u] - l[u]  BY <1>2, PlusIs
  <2>3. Good(s, Out("supply", z, x))  BY <1>11
  <2> HIDE DEF x, l, z
  <2>4. Good(s, Lossy("supply", z, NoFlow, l))  BY <2>1, <2>2, <2>3, GoodLossy
  <2>. QED  BY <2>4 DEF l, z
<1>. QED  BY <1>1, <1>12

\* The account is updated to b, which moves one token by x; the wallet gives or
\* gets what the account loses or gains, or nothing.
LEMMA LoanApply ==
  ASSUME NEW s \in Wallets, OneEach(s), Has(s, "loan"), NEW b \in Account, NEW t \in Coins, NEW x \in Int,
         \A u \in Coins : NetOf(b, u) = NetOf(Body(s, "loan"), u) + (IF u = t THEN x ELSE 0), NEW k
  PROVE  LET d == Pos(Nothing, "update", "loan", b)
         IN  /\ Good(s, Out(k, d, Only(t, x)))
             /\ x = 0 => Good(s, Out(k, d, NoFlow))
             /\ \A n \in Nat : x = -n => Good(s, Out(k, Credit(s, d, t, n), NoFlow))
             /\ \A n \in Nat : x = n => Good(s, Out(k, Debit(s, d, t, n), NoFlow))
<1> DEFINE d == Pos(Nothing, "update", "loan", b)
           q == <<[op |-> "update", id |-> "loan", body |-> b]>>
<1>1. Moves(s, d, NoFlow, q)  BY MovesNothing, LoanMoves
<1>2. NoFlow \in [Tokens -> Int] /\ Only(t, x) \in [Tokens -> Int] /\ t \in Tokens  BY FlowTypes, Numbers
<1> HIDE DEF d
<1>3. Good(s, Out(k, d, Only(t, x)))
  <2>1. \A u \in Tokens : Only(t, x)[u] = NoFlow[u] + (IF u = t THEN x ELSE 0)  BY PlusIs
  <2>. QED  BY <1>1, <1>2, <2>1, LoanShift
<1>4. ASSUME x = 0 PROVE Good(s, Out(k, d, NoFlow))
  <2>1. Only(t, x) = NoFlow  BY <1>4 DEF Only, NoFlow
  <2>. QED  BY <1>3, <2>1
<1>5. ASSUME NEW n \in Nat, x = -n PROVE Good(s, Out(k, Credit(s, d, t, n), NoFlow))
  <2> DEFINE g == Plus(NoFlow, Only(t, n))
             z == Credit(s, d, t, n)
  <2>1. Moves(s, z, g, q)  BY <1>1, <1>2, MovesCredit
  <2>2. \A u \in Tokens : NoFlow[u] = g[u] + (IF u = t THEN x ELSE 0)  BY <1>5, PlusIs
  <2> HIDE DEF g, z
  <2>3. Good(s, Out(k, z, NoFlow))  BY <1>2, <2>1, <2>2, LoanShift
  <2>. QED  BY <2>3 DEF z
<1>6. ASSUME NEW n \in Nat, x = n PROVE Good(s, Out(k, Debit(s, d, t, n), NoFlow))
  <2> DEFINE g == Plus(NoFlow, Only(t, -n))
             z == Debit(s, d, t, n)
  <2>1. Moves(s, z, g, q)  BY <1>1, <1>2, MovesDebit
  <2>2. \A u \in Tokens : NoFlow[u] = g[u] + (IF u = t THEN x ELSE 0)  BY <1>6, PlusIs
  <2> HIDE DEF g, z
  <2>3. Good(s, Out(k, z, NoFlow))  BY <1>2, <2>1, <2>2, LoanShift
  <2>. QED  BY <2>3 DEF z
<1>. QED  BY <1>3, <1>4, <1>5, <1>6 DEF d

\* The account b that an operation makes of the wallet's account.
Shifts(s, b, t, x) ==
  b # Err => /\ b \in Account
             /\ \A u \in Coins : NetOf(b, u) = NetOf(Loan(s), u) + (IF u = t THEN x ELSE 0)

LEMMA OnAccountGood ==
  ASSUME NEW s \in Wallets, OneEach(s), NEW b, NEW t \in Coins, NEW x \in Int,
         Has(s, "loan") => Shifts(s, b, t, x), NEW k
  PROVE  LET d == OnAccount(s, b)
         IN  /\ Good(s, Out(k, d, Only(t, x)))
             /\ x = 0 => Good(s, Out(k, d, NoFlow))
             /\ \A n \in Nat : x = -n => Good(s, Out(k, Credit(s, d, t, n), NoFlow))
             /\ \A n \in Nat : x = n => Good(s, Out(k, Debit(s, d, t, n), NoFlow))
<1>1. CASE ~Has(s, "loan") \/ b = Err
  <2>1. OnAccount(s, b) = Err  BY <1>1 DEF OnAccount
  <2>2. \A n : Credit(s, Err, t, n) = Err /\ Debit(s, Err, t, n) = Err  BY ErrDelta
  <2>. QED  BY <2>1, <2>2, GoodErr
<1>2. CASE Has(s, "loan") /\ b # Err
  <2>1. OnAccount(s, b) = Pos(Nothing, "update", "loan", b)  BY <1>2 DEF OnAccount
  <2>2. b \in Account /\ \A u \in Coins : NetOf(b, u) = NetOf(Body(s, "loan"), u) + (IF u = t THEN x ELSE 0)
    BY <1>2 DEF Shifts, Loan
  <2>3. LET d == Pos(Nothing, "update", "loan", b)
        IN  /\ Good(s, Out(k, d, Only(t, x)))
            /\ x = 0 => Good(s, Out(k, d, NoFlow))
            /\ \A n \in Nat : x = -n => Good(s, Out(k, Credit(s, d, t, n), NoFlow))
            /\ \A n \in Nat : x = n => Good(s, Out(k, Debit(s, d, t, n), NoFlow))
    BY <1>2, <2>2, LoanApply
  <2>. QED  BY <2>1, <2>3
<1>. QED  BY <1>1, <1>2

LEMMA LessCollIs ==
  ASSUME NEW s \in Wallets, Has(s, "loan"), NEW t \in Coins, NEW n \in Nat
  PROVE  Shifts(s, LessColl(Loan(s), t, n), t, -n)
<1> DEFINE a == Loan(s)
           c == ReduceEntry(a.coll, t, n)
<1>1. a \in Account  BY LoanBodyIs DEF Loan
<1>2. a.coll \in [Coins -> Opt(Nat)]  BY <1>1 DEF Account
<1> HIDE DEF a
<1> SUFFICES ASSUME LessColl(a, t, n) # Err
             PROVE  /\ LessColl(a, t, n) \in Account
                    /\ \A u \in Coins : NetOf(LessColl(a, t, n), u) = NetOf(a, u) + (IF u = t THEN -n ELSE 0)
  BY DEF Shifts, a
<1>3. c # Err /\ LessColl(a, t, n) = [a EXCEPT !.coll = c]  BY DEF LessColl
<1>4. /\ c \in [Coins -> Opt(Nat)]
      /\ \A u \in Coins : Z(c[u]) = Z(a.coll[u]) + (IF u = t THEN -n ELSE 0)
  BY <1>2, <1>3, ReduceIs
<1> HIDE DEF c
<1>5. -n \in Int  OBVIOUS
<1>. QED  BY <1>1, <1>3, <1>4, <1>5, NetColl

\* The debt of one mode moves by n.
LEMMA DebtShift ==
  ASSUME NEW a \in Account, NEW t \in Coins, NEW m \in Modes, NEW n \in Int, NEW K, NEW c \in [K -> Opt(Nat)],
         NEW k, NEW b, b = [a EXCEPT !.debt = c], K = Coins \X Modes, k = <<t, m>>,
         \A j \in K : Z(c[j]) = Z(a.debt[j]) + (IF j = k THEN n ELSE 0)
  PROVE  b \in Account /\ \A u \in Coins : NetOf(b, u) = NetOf(a, u) + (IF u = t THEN -n ELSE 0)
<1>1. ASSUME NEW u \in Coins
      PROVE  DebtOf(c, u) = DebtOf(a.debt, u) + (IF u = t THEN n ELSE 0)
  <2> DEFINE p == <<u, "stable">>
             q == <<u, "variable">>
             w == <<u, "fixed">>
  <2>1. p \in Coins \X Modes /\ q \in Coins \X Modes /\ w \in Coins \X Modes /\ m \in {"stable", "variable", "fixed"}
    BY DEF Modes
  <2>2. /\ p = <<t, m>> <=> u = t /\ m = "stable"
        /\ q = <<t, m>> <=> u = t /\ m = "variable"
        /\ w = <<t, m>> <=> u = t /\ m = "fixed"
    OBVIOUS
  <2>3. a.debt \in [Coins \X Modes -> Opt(Nat)]  BY DEF Account
  <2> HIDE DEF p, q, w
  <2>4. Z(a.debt[p]) \in Nat /\ Z(a.debt[q]) \in Nat /\ Z(a.debt[w]) \in Nat  BY <2>1, <2>3, ZIs
  <2>5. /\ Z(c[p]) = Z(a.debt[p]) + (IF p = <<t, m>> THEN n ELSE 0)
        /\ Z(c[q]) = Z(a.debt[q]) + (IF q = <<t, m>> THEN n ELSE 0)
        /\ Z(c[w]) = Z(a.debt[w]) + (IF w = <<t, m>> THEN n ELSE 0)
    BY <2>1
  <2>6. Z(c[p]) + Z(c[q]) + Z(c[w]) = Z(a.debt[p]) + Z(a.debt[q]) + Z(a.debt[w]) + (IF u = t THEN n ELSE 0)
    BY <2>1, <2>2, <2>4, <2>5
  <2>. QED  BY <2>6 DEF p, q, w, DebtOf
<1>2. c \in [Coins \X Modes -> Opt(Nat)]  OBVIOUS
<1>3. /\ [a EXCEPT !.debt = c] \in Account
      /\ \A u \in Coins : NetOf([a EXCEPT !.debt = c], u) = NetOf(a, u) + (IF u = t THEN -n ELSE 0)
  BY ZenonT(60), SMTT(30), <1>1, <1>2, NetDebt
<1>. QED  BY <1>3

LEMMA KeyIs == ASSUME NEW t \in Coins, NEW m \in Modes
               PROVE  <<t, m>> \in Coins \X Modes /\ Other(m) \in Modes /\ Other(m) # m
BY DEF Modes, Other

LEMMA MoreDebtIs ==
  ASSUME NEW s \in Wallets, Has(s, "loan"), NEW t \in Coins, NEW m \in Modes, NEW n \in Nat
  PROVE  Shifts(s, MoreDebt(Loan(s), <<t, m>>, n), t, -n)
<1> DEFINE a == Loan(s)
           K == Coins \X Modes
           k == <<t, m>>
           b == MoreDebt(a, k, n)
           c == MergeEntry(a.debt, k, n)
<1>1. a \in Account  BY LoanBodyIs DEF Loan
<1>2. a.debt \in [K -> Opt(Nat)]  BY <1>1 DEF Account
<1>3. k \in K  BY KeyIs
<1> HIDE DEF a
<1>4. /\ c \in [K -> Opt(Nat)]
      /\ \A u \in K : Z(c[u]) = Z(a.debt[u]) + (IF u = k THEN n ELSE 0)
  <2> HIDE DEF K, k
  <2>. QED  BY <1>2, <1>3, MergeIs
<1>5. b = [a EXCEPT !.debt = c]
  <2> HIDE DEF k
  <2>. QED  BY DEF MoreDebt
<1>6. K = Coins \X Modes /\ k = <<t, m>> /\ n \in Int  OBVIOUS
<1> HIDE DEF K, k, b, c
<1>7. b \in Account /\ \A u \in Coins : NetOf(b, u) = NetOf(a, u) + (IF u = t THEN -n ELSE 0)
  BY <1>1, <1>4, <1>5, <1>6, DebtShift
<1>. QED  BY <1>7 DEF Shifts, a, b, k

LEMMA LessDebtIs ==
  ASSUME NEW s \in Wallets, Has(s, "loan"), NEW t \in Coins, NEW m \in Modes, NEW n \in Nat
  PROVE  Shifts(s, LessDebt(Loan(s), <<t, m>>, n), t, n)
<1> DEFINE a == Loan(s)
           K == Coins \X Modes
           k == <<t, m>>
           c == ReduceEntry(a.debt, k, n)
           b == LessDebt(a, k, n)
<1>1. a \in Account  BY LoanBodyIs DEF Loan
<1>2. a.debt \in [K -> Opt(Nat)]  BY <1>1 DEF Account
<1>3. k \in K  BY KeyIs
<1> HIDE DEF a
<1> SUFFICES ASSUME b # Err
             PROVE  b \in Account /\ \A u \in Coins : NetOf(b, u) = NetOf(a, u) + (IF u = t THEN n ELSE 0)
  BY DEF Shifts, a
<1>4. c # Err /\ b = [a EXCEPT !.debt = c]
  <2> HIDE DEF k
  <2>. QED  BY DEF LessDebt
<1>5. PICK x \in Int : x = -n /\ -x = n  OBVIOUS
<1>6. /\ c \in [K -> Opt(Nat)]
      /\ \A u \in K : Z(c[u]) = Z(a.debt[u]) + (IF u = k THEN x ELSE 0)
  <2> HIDE DEF K, k
  <2>. QED  BY <1>2, <1>3, <1>4, <1>5, ReduceIs
<1>7. K = Coins \X Modes /\ k = <<t, m>>  OBVIOUS
<1> HIDE DEF K, k, c, b
<1>8. b \in Account /\ \A u \in Coins : NetOf(b, u) = NetOf(a, u) + (IF u = t THEN -x ELSE 0)
  BY <1>1, <1>4, <1>6, <1>7, DebtShift
<1>. QED  BY <1>5, <1>8

LEMMA MoveDebtIs ==
  ASSUME NEW s \in Wallets, Has(s, "loan"), NEW t \in Coins, NEW m \in Modes
  PROVE  Shifts(s, MoveDebt(Loan(s), <<t, Other(m)>>, <<t, m>>), t, 0)
<1> DEFINE a == Loan(s)
           K == Coins \X Modes
           k == <<t, m>>
           o == <<t, Other(m)>>
           e == [a.debt EXCEPT ![o] = None]
           c == MergeEntry(e, k, a.debt[o])
<1>1. a \in Account  BY LoanBodyIs DEF Loan
<1>2. a.debt \in [K -> Opt(Nat)]  BY <1>1 DEF Account
<1>3. k \in K /\ o \in K /\ k # o  BY KeyIs
<1> HIDE DEF a
<1> SUFFICES ASSUME MoveDebt(a, o, k) # Err
             PROVE  /\ MoveDebt(a, o, k) \in Account
                    /\ \A u \in Coins : NetOf(MoveDebt(a, o, k), u) = NetOf(a, u) + (IF u = t THEN 0 ELSE 0)
  BY DEF Shifts, a
<1>4. a.debt[o] # None /\ MoveDebt(a, o, k) = [a EXCEPT !.debt = c]
  <2> HIDE DEF k, o
  <2>. QED  BY DEF MoveDebt
<1>5. e \in [K -> Opt(Nat)] /\ a.debt[o] \in Nat
      /\ \A u \in K : Z(e[u]) = IF u = o THEN 0 ELSE Z(a.debt[u])
  <2> HIDE DEF K, o
  <2>. QED  BY <1>2, <1>3, <1>4, ZIs DEF Opt
<1>6. /\ c \in [K -> Opt(Nat)]
      /\ \A u \in K : Z(c[u]) = Z(e[u]) + (IF u = k THEN a.debt[o] ELSE 0)
  <2> HIDE DEF K, k, o, e
  <2>. QED  BY <1>3, <1>5, MergeIs
<1> HIDE DEF e, c
<1>7. ASSUME NEW u \in Coins
      PROVE  DebtOf(c, u) = DebtOf(a.debt, u) + (IF u = t THEN 0 ELSE 0)
  <2> DEFINE p == <<u, "stable">>
             q == <<u, "variable">>
             w == <<u, "fixed">>
             D(j) == Z(a.debt[j])
  <2>1. p \in K /\ q \in K /\ w \in K /\ p # q /\ p # w /\ q # w  BY DEF Modes
  <2>2. \/ u # t /\ {p, q, w} \cap {k, o} = {}
        \/ u = t /\ p = k /\ q = o
        \/ u = t /\ p = o /\ q = k
        \/ u = t /\ p = o /\ w = k
    BY DEF Other, Modes
  <2>3. D(o) = a.debt[o]  BY <1>5, ZIs
  <2> HIDE DEF p, q, w, k, o, K
  <2>4. D(p) \in Nat /\ D(q) \in Nat /\ D(w) \in Nat  BY <1>2, <2>1, ZIs
  <2>5. \A j \in {p, q, w} : Z(c[j]) = (IF j = o THEN 0 ELSE D(j)) + (IF j = k THEN D(o) ELSE 0)
    BY <1>5, <1>6, <2>1, <2>3
  <2> HIDE DEF D
  <2>6. Z(c[p]) + Z(c[q]) + Z(c[w]) = D(p) + D(q) + D(w)
    <3>1. CASE u # t /\ {p, q, w} \cap {k, o} = {}
      <4>1. Z(c[p]) = D(p) + 0 /\ Z(c[q]) = D(q) + 0 /\ Z(c[w]) = D(w) + 0  BY <2>5, <3>1
      <4>. QED  BY <2>4, <4>1
    <3>2. CASE p = k /\ q = o
      <4>1. Z(c[p]) = D(p) + D(q) /\ Z(c[q]) = 0 + 0 /\ Z(c[w]) = D(w) + 0  BY <1>3, <2>1, <2>5, <3>2
      <4>. QED  BY <2>4, <4>1
    <3>3. CASE p = o /\ q = k
      <4>1. Z(c[p]) = 0 + 0 /\ Z(c[q]) = D(q) + D(p) /\ Z(c[w]) = D(w) + 0  BY <1>3, <2>1, <2>5, <3>3
      <4>. QED  BY <2>4, <4>1
    <3>4. CASE p = o /\ w = k
      <4>1. Z(c[p]) = 0 + 0 /\ Z(c[q]) = D(q) + 0 /\ Z(c[w]) = D(w) + D(p)  BY <1>3, <2>1, <2>5, <3>4
      <4>. QED  BY <2>4, <4>1
    <3>. QED  BY <2>2, <3>1, <3>2, <3>3, <3>4
  <2>7. D(p) + D(q) + D(w) = D(p) + D(q) + D(w) + (IF u = t THEN 0 ELSE 0)  BY <2>4
  <2>. QED  BY <2>6, <2>7 DEF p, q, w, D, DebtOf
<1>8. /\ [a EXCEPT !.debt = c] \in Account
      /\ \A u \in Coins : NetOf([a EXCEPT !.debt = c], u) = NetOf(a, u) + (IF u = t THEN -0 ELSE 0)
  <2>1. c \in [Coins \X Modes -> Opt(Nat)] /\ 0 \in Int  BY <1>6
  <2> HIDE DEF k, o, K
  <2>. QED  BY ZenonT(60), SMTT(30), <1>1, <1>7, <2>1, NetDebt
<1>. QED  BY <1>4, <1>8

LEMMA SetCollIs ==
  ASSUME NEW s \in Wallets, Has(s, "loan"), NEW t \in Coins
  PROVE  /\ Shifts(s, [Loan(s) EXCEPT !.coll = [Loan(s).coll EXCEPT ![t] = Z(@)]], t, 0)
         /\ Shifts(s, [Loan(s) EXCEPT !.coll = [Loan(s).coll EXCEPT ![t] = None]], t, -Z(Loan(s).coll[t]))
         /\ Z(Loan(s).coll[t]) \in Nat
<1> DEFINE a == Loan(s)
           c == [a.coll EXCEPT ![t] = Z(@)]
           e == [a.coll EXCEPT ![t] = None]
           x == Z(a.coll[t])
           zero == 0
<1>1. a \in Account  BY LoanBodyIs DEF Loan
<1> HIDE DEF a
<1>2. a.coll \in [Coins -> Opt(Nat)]  BY <1>1 DEF Account
<1>3. x \in Nat /\ -x \in Int /\ \A u \in Coins : Z(a.coll[u]) \in Nat  BY <1>2, ZIs
<1>4. /\ c \in [Coins -> Opt(Nat)] /\ e \in [Coins -> Opt(Nat)]
      /\ \A u \in Coins : Z(c[u]) = Z(a.coll[u]) + (IF u = t THEN zero ELSE 0)
      /\ \A u \in Coins : Z(e[u]) = Z(a.coll[u]) + (IF u = t THEN -x ELSE 0)
  BY <1>2, <1>3, ZIs
<1>9. zero \in Int  OBVIOUS
<1> HIDE DEF c, e, x, zero
<1>5. [a EXCEPT !.coll = c] \in Account
      /\ \A u \in Coins : NetOf([a EXCEPT !.coll = c], u) = NetOf(a, u) + (IF u = t THEN zero ELSE 0)
  BY <1>1, <1>4, <1>9, NetColl
<1>6. [a EXCEPT !.coll = e] \in Account
      /\ \A u \in Coins : NetOf([a EXCEPT !.coll = e], u) = NetOf(a, u) + (IF u = t THEN -x ELSE 0)
  BY ZenonT(60), SMTT(30), <1>1, <1>3, <1>4, NetColl
<1>7. Shifts(s, [a EXCEPT !.coll = c], t, zero) /\ Shifts(s, [a EXCEPT !.coll = e], t, -x)  BY <1>5, <1>6 DEF Shifts, a
<1>. QED  BY <1>3, <1>7 DEF a, c, e, x, zero

LEMMA LoanGood ==
  ASSUME NEW s \in Wallets, OneEach(s),
         NEW r \in Withdraw(s) \cup Borrow(s) \cup Repay(s) \cup SwapRateMode(s) \cup SetCollateral(s)
  PROVE  Good(s, r)
<1>1. CASE r \in Withdraw(s)
  <2>1. PICK t \in Coins, n \in Amounts, own \in BOOLEAN :
          r = LET d == OnAccount(s, LessColl(Loan(s), t, n))
              IN  Out("withdraw", IF own THEN Credit(s, d, t, n) ELSE d, IF own THEN NoFlow ELSE Only(t, -n))
    BY <1>1 DEF Withdraw
  <2> DEFINE b == LessColl(Loan(s), t, n)
  <2>2. n \in Nat /\ -n \in Int  BY Numbers
  <2>3. Has(s, "loan") => Shifts(s, b, t, -n)  BY <2>2, LessCollIs
  <2> HIDE DEF b
  <2>4. /\ Good(s, Out("withdraw", OnAccount(s, b), Only(t, -n)))
        /\ Good(s, Out("withdraw", Credit(s, OnAccount(s, b), t, n), NoFlow))
    BY <2>2, <2>3, OnAccountGood
  <2>. QED  BY <2>1, <2>4 DEF b
<1>2. CASE r \in Borrow(s)
  <2>1. PICK t \in Coins, n \in Amounts, m \in Modes :
          r = Out("borrow", Credit(s, OnAccount(s, MoreDebt(Loan(s), <<t, m>>, n)), t, n), NoFlow)
    BY <1>2 DEF Borrow
  <2> DEFINE b == MoreDebt(Loan(s), <<t, m>>, n)
  <2>2. n \in Nat /\ -n \in Int  BY Numbers
  <2>3. Has(s, "loan") => Shifts(s, b, t, -n)  BY <2>2, MoreDebtIs
  <2> HIDE DEF b
  <2>4. Good(s, Out("borrow", Credit(s, OnAccount(s, b), t, n), NoFlow))  BY <2>2, <2>3, OnAccountGood
  <2>. QED  BY <2>1, <2>4 DEF b
<1>3. CASE r \in Repay(s)
  <2>1. PICK t \in Coins, n \in Amounts, m \in Modes :
          r = Out("repay", Debit(s, OnAccount(s, LessDebt(Loan(s), <<t, m>>, n)), t, n), NoFlow)
    BY <1>3 DEF Repay
  <2> DEFINE b == LessDebt(Loan(s), <<t, m>>, n)
  <2>2. n \in Nat /\ n \in Int  BY Numbers
  <2>3. Has(s, "loan") => Shifts(s, b, t, n)  BY <2>2, LessDebtIs
  <2> HIDE DEF b
  <2>4. Good(s, Out("repay", Debit(s, OnAccount(s, b), t, n), NoFlow))  BY <2>2, <2>3, OnAccountGood
  <2>. QED  BY <2>1, <2>4 DEF b
<1>4. CASE r \in SwapRateMode(s)
  <2>1. PICK t \in Coins, m \in Modes : r = Out("rate_mode", OnAccount(s, ToMode(Loan(s), t, m)), NoFlow)
    BY <1>4 DEF SwapRateMode
  <2> DEFINE b == ToMode(Loan(s), t, m)
             x == 0
  <2>2. (Has(s, "loan") => Shifts(s, b, t, x)) /\ x \in Int /\ x = 0  BY MoveDebtIs DEF ToMode
  <2> HIDE DEF b, x
  <2>3. Good(s, Out("rate_mode", OnAccount(s, b), NoFlow))  BY <2>2, OnAccountGood
  <2>. QED  BY <2>1, <2>3 DEF b
<1>5. CASE r \in SetCollateral(s)
  <2>1. PICK t \in Coins :
          \/ r = Out("enable", OnAccount(s, [Loan(s) EXCEPT !.coll = [Loan(s).coll EXCEPT ![t] = Z(@)]]), NoFlow)
          \/ r = Lossy("disable", OnAccount(s, [Loan(s) EXCEPT !.coll = [Loan(s).coll EXCEPT ![t] = None]]), NoFlow,
                       IF Has(s, "loan") THEN Only(t, Z(Loan(s).coll[t])) ELSE NoFlow)
    BY <1>5 DEF SetCollateral
  <2> DEFINE b == [Loan(s) EXCEPT !.coll = [Loan(s).coll EXCEPT ![t] = Z(@)]]
             e == [Loan(s) EXCEPT !.coll = [Loan(s).coll EXCEPT ![t] = None]]
             v == Z(Loan(s).coll[t])
             x == -v
             y == 0
  <2>2. /\ Has(s, "loan") => Shifts(s, b, t, y) /\ Shifts(s, e, t, x) /\ x \in Int /\ v \in Nat /\ x = 0 - v
        /\ y = 0 /\ y \in Int
    BY SetCollIs
  <2> HIDE DEF b, e, v, x, y
  <2>3. Good(s, Out("enable", OnAccount(s, b), NoFlow))  BY <2>2, OnAccountGood
  <2>4. ASSUME Has(s, "loan") PROVE Good(s, Lossy("disable", OnAccount(s, e), NoFlow, Only(t, v)))
    <3>1. Good(s, Out("disable", OnAccount(s, e), Only(t, x)))  BY <2>2, <2>4, OnAccountGood
    <3>2. NoFlow \in [Tokens -> Int] /\ Only(t, v) \in [Tokens -> Nat]  BY <2>2, <2>4, FlowTypes, Numbers
    <3>3. \A u \in Tokens : Only(t, x)[u] = NoFlow[u] - Only(t, v)[u]  BY <2>2, <2>4, PlusIs
    <3>. QED  BY <3>1, <3>2, <3>3, GoodLossy
  <2>5. ASSUME ~Has(s, "loan") PROVE Good(s, Lossy("disable", OnAccount(s, e), NoFlow, NoFlow))
    <3>1. OnAccount(s, e) = Err  BY <2>5 DEF OnAccount
    <3>. QED  BY <3>1, OutIs DEF Good
  <2>. QED  BY <2>1, <2>3, <2>4, <2>5 DEF b, e, v
<1>. QED  BY <1>1, <1>2, <1>3, <1>4, <1>5

LEMMA EModeGood == ASSUME NEW s \in Wallets, OneEach(s), NEW r \in SetEMode(s) PROVE Good(s, r)
<1>1. r = Out("emode", OnAccount(s, Loan(s)), NoFlow)  BY DEF SetEMode
<1>2. CASE ~Has(s, "loan")  BY <1>1, <1>2, GoodErr DEF OnAccount
<1>3. CASE Has(s, "loan")
  <2> DEFINE b == Loan(s)
             d == Pos(Nothing, "update", "loan", b)
             op == "update"
  <2>1. b \in Account /\ s.pos["loan"] # <<>>
        /\ \A t \in Tokens : Net(s.pos["loan"], t) = IF t \in Coins THEN NetOf(b, t) ELSE 0
    BY <1>3, LoanBodyIs DEF Loan
  <2>2. b # Err  BY <2>1, ErrAssumption
  <2>3. OnAccount(s, b) = d  BY <1>3, <2>2 DEF OnAccount
  <2>4. op \in {"open", "update"} /\ (op = "open" <=> s.pos["loan"] = <<>>) /\ NoFlow \in [Tokens -> Int]
    BY <2>1, FlowTypes
  <2> HIDE DEF b
  <2>5. Moves(s, d, NoFlow, <<[op |-> op, id |-> "loan", body |-> b]>>)  BY <2>1, MovesNothing, LoanMoves
  <2> HIDE DEF d, op
  <2>6. \A t \in Tokens : (IF t \in Coins THEN NetOf(b, t) ELSE 0) + NoFlow[t] = Net(s.pos["loan"], t) + NoFlow[t]
    BY <2>1
  <2>7. Good(s, Out("emode", d, NoFlow))  BY <2>1, <2>4, <2>5, <2>6, GoodLoan
  <2>. QED  BY <1>1, <2>3, <2>7 DEF b
<1>. QED  BY <1>2, <1>3

\* Two balances change, one after the other.
LEMMA PairMoves ==
  ASSUME NEW s \in Wallets, NEW t \in Tokens, NEW u \in Tokens, NEW n \in Nat, NEW m \in Nat
  PROVE  /\ Moves(s, Debit(s, Nothing, t, n), Only(t, -n), <<>>)
         /\ Moves(s, Credit(s, Debit(s, Nothing, t, n), u, m), Plus(Only(t, -n), Only(u, m)), <<>>)
<1> DEFINE d == Debit(s, Nothing, t, n)
<1>1. Moves(s, d, Plus(NoFlow, Only(t, -n)), <<>>)  BY MovesNothing, MovesDebit
<1>2. -n \in Int  OBVIOUS
<1>3. Plus(NoFlow, Only(t, -n)) = Only(t, -n)  BY <1>2, PlusIs, FlowTypes
<1>4. Moves(s, d, Only(t, -n), <<>>)  BY <1>1, <1>3
<1> HIDE DEF d
<1>5. Moves(s, Credit(s, d, u, m), Plus(Only(t, -n), Only(u, m)), <<>>)  BY <1>4, MovesCredit
<1>. QED  BY <1>4, <1>5 DEF d

LEMMA SwapGood ==
  ASSUME NEW s \in Wallets, OneEach(s), NEW r \in Liquidate(s) \cup Swap(s)
  PROVE  Good(s, r)
<1>1. CASE r \in Liquidate(s)
  <2>1. PICK t \in Coins, u \in Coins, n \in Amounts, m \in Amounts :
          r = Out("liquidate", Credit(s, Debit(s, Nothing, t, n), u, m), Plus(Only(t, -n), Only(u, m)))
    BY <1>1 DEF Liquidate
  <2>2. t \in Tokens /\ u \in Tokens /\ n \in Nat /\ m \in Nat  BY Numbers
  <2>3. Moves(s, Credit(s, Debit(s, Nothing, t, n), u, m), Plus(Only(t, -n), Only(u, m)), <<>>)  BY <2>2, PairMoves
  <2>. QED  BY <2>1, <2>3, GoodPlain
<1>2. CASE r \in {Out("swap", Credit(s, Debit(s, Nothing, t, n), u, m), Plus(Only(t, -n), Only(u, m))) :
                    t \in Coins, u \in Tokens, n \in Amounts, m \in Amounts}
  <2>1. PICK t \in Coins, u \in Tokens, n \in Amounts, m \in Amounts :
          r = Out("swap", Credit(s, Debit(s, Nothing, t, n), u, m), Plus(Only(t, -n), Only(u, m)))
    BY <1>2
  <2>2. t \in Tokens /\ n \in Nat /\ m \in Nat  BY Numbers
  <2>3. Moves(s, Credit(s, Debit(s, Nothing, t, n), u, m), Plus(Only(t, -n), Only(u, m)), <<>>)  BY <2>2, PairMoves
  <2>. QED  BY <2>1, <2>3, GoodPlain
<1>3. CASE r \in {Out("swap", Debit(s, Nothing, t, n), Only(t, -n)) : t \in Coins, n \in Amounts}
  <2>1. PICK t \in Coins, n \in Amounts : r = Out("swap", Debit(s, Nothing, t, n), Only(t, -n))  BY <1>3
  <2>2. t \in Tokens /\ n \in Nat  BY Numbers
  <2>3. Moves(s, Debit(s, Nothing, t, n), Only(t, -n), <<>>)  BY <2>2, PairMoves
  <2>. QED  BY <2>1, <2>3, GoodPlain
<1>. QED  BY <1>1, <1>2, <1>3 DEF Swap

LEMMA BundledGood ==
  ASSUME NEW s \in Wallets, OneEach(s), NEW r \in AggregatorSwap(s)
  PROVE  Good(s, r)
<1>1. PICK t \in Coins, u \in Coins, n \in Amounts :
        r = Out("bundled_swap", Credit(s, Debit(s, PermitBundle(t, n), t, n), u, n), Plus(Only(t, -n), Only(u, n)))
  BY DEF AggregatorSwap
<1> DEFINE a == PermitBundle(t, n)
           d == Debit(s, a, t, n)
<1>2. t \in Tokens /\ u \in Tokens /\ n \in Nat /\ -n \in Int  BY Numbers
<1>3. Moves(s, a, NoFlow, <<>>)  BY MovesNothing, StillIs DEF PermitBundle
<1> HIDE DEF a
<1>4. Moves(s, d, Plus(NoFlow, Only(t, -n)), <<>>)  BY <1>2, <1>3, MovesDebit
<1>5. Plus(NoFlow, Only(t, -n)) = Only(t, -n)  BY <1>2, PlusIs, FlowTypes
<1> HIDE DEF d
<1>6. Moves(s, Credit(s, d, u, n), Plus(Only(t, -n), Only(u, n)), <<>>)  BY <1>2, <1>4, <1>5, MovesCredit
<1>7. Good(s, Out("bundled_swap", Credit(s, d, u, n), Plus(Only(t, -n), Only(u, n))))  BY <1>6, GoodPlain
<1>. QED  BY <1>1, <1>7 DEF d, a

-----------------------------------------------------------------------------
(* Pools: every coin once                                                    *)

LEMMA CoinsOnce ==
  /\ SetToSeq(Coins) \in Seq(Coins)
  /\ \A i, j \in 1 .. Len(SetToSeq(Coins)) : SetToSeq(Coins)[i] = SetToSeq(Coins)[j] => i = j
  /\ \A t \in Coins : \E i \in 1 .. Len(SetToSeq(Coins)) : SetToSeq(Coins)[i] = t
<1> DEFINE n == Cardinality(Coins)
           e == SetToSeq(Coins)
<1>1. IsFiniteSet(Coins)  BY ReducerAssumption
<1>2. n \in Nat /\ ExistsBijection(1 .. n, Coins)  BY <1>1, FS_CardinalityType
<1>3. \E f \in [1 .. n -> Coins] : IsInjective(f)
  BY <1>2 DEF ExistsBijection, Bijection, Injection
<1>4. e \in [1 .. n -> Coins] /\ IsInjective(e)  BY <1>3 DEF SetToSeq
<1> HIDE DEF e
<1>5. e \in Injection(1 .. n, Coins)  BY <1>4 DEF Injection
<1>6. Cardinality(1 .. n) = n
  <2> HIDE DEF n
  <2>1. Cardinality(1 .. n) = IF 1 > n THEN 0 ELSE n - 1 + 1  BY <1>2, FS_Interval
  <2>. QED  BY <1>2, <2>1
<1>7. e \in Surjection(1 .. n, Coins)  BY <1>1, <1>5, <1>6, FS_Injection
<1> HIDE DEF n
<1>8. e \in Seq(Coins) /\ Len(e) = n  BY <1>2, <1>4
<1>. QED  BY <1>4, <1>7, <1>8 DEF IsInjective, Surjection, e

\* A trace of deltas, each of which moves one coin more by x.
LEMMA PoolMoves ==
  ASSUME NEW s \in Wallets, NEW tr, NEW g, NEW x \in Int, Moves(s, tr[0], g, <<>>),
         NEW e, NEW n \in Nat, e = SetToSeq(Coins), n = Len(e),
         \A i \in 1 .. n : \A h : Moves(s, tr[i - 1], h, <<>>) => Moves(s, tr[i], Plus(h, Only(e[i], x)), <<>>)
  PROVE  Moves(s, tr[n], Plus(g, Every(x)), <<>>)
<1> DEFINE F(k) == [u \in Tokens |-> g[u] + (IF \E j \in 1 .. k : e[j] = u THEN x ELSE 0)]
           H == {k \in Nat : Moves(s, tr[k], F(k), <<>>)}
<1>1. g \in [Tokens -> Int]  BY DEF Moves
<1>2. /\ \A i \in 1 .. n : e[i] \in Coins /\ e[i] \in Tokens
      /\ \A i, j \in 1 .. n : e[i] = e[j] => i = j
      /\ \A t \in Coins : \E i \in 1 .. n : e[i] = t
  BY CoinsOnce, Numbers
<1>3. 0 \in H
  <2>1. F(0) = g  BY <1>1
  <2> HIDE DEF F
  <2>. QED  BY <2>1
<1>4. ASSUME NEW k \in 0 .. n - 1, k \in H PROVE k + 1 \in H
  <2>1. k + 1 \in 1 .. n /\ k + 1 - 1 = k /\ k + 1 \in Nat  OBVIOUS
  <2>2. Moves(s, tr[k], F(k), <<>>)  BY <1>4
  <2>3. Plus(F(k), Only(e[k + 1], x)) = F(k + 1)
    <3>1. ASSUME NEW u \in Tokens PROVE F(k)[u] + Only(e[k + 1], x)[u] = F(k + 1)[u]
      <4>1. Only(e[k + 1], x)[u] = IF u = e[k + 1] THEN x ELSE 0  BY PlusIs
      <4>2. CASE u = e[k + 1]
        <5>1. ~\E j \in 1 .. k : e[j] = u  BY <1>2, <2>1, <4>2
        <5>2. \E j \in 1 .. k + 1 : e[j] = u  BY <2>1, <4>2
        <5>3. F(k)[u] = g[u] /\ F(k + 1)[u] = g[u] + x /\ g[u] \in Int  BY <1>1, <5>1, <5>2
        <5>4. Only(e[k + 1], x)[u] = x  BY <4>1, <4>2
        <5> HIDE DEF F
        <5>. QED  BY <5>3, <5>4
      <4>3. CASE u # e[k + 1]
        <5>1. (\E j \in 1 .. k : e[j] = u) <=> (\E j \in 1 .. k + 1 : e[j] = u)  BY <4>3
        <5>. QED  BY <1>1, <4>1, <4>3, <5>1
      <4>. QED  BY <4>2, <4>3
    <3>2. F(k + 1) = [u \in Tokens |-> F(k + 1)[u]]  OBVIOUS
    <3> HIDE DEF F
    <3>. QED  BY <3>1, <3>2 DEF Plus
  <2> HIDE DEF F
  <2>4. Moves(s, tr[k + 1], Plus(F(k), Only(e[k + 1], x)), <<>>)  BY <2>1, <2>2
  <2>. QED  BY <2>1, <2>3, <2>4
<1>5. n \in H
  <2> HIDE DEF H
  <2>. QED  BY <1>3, <1>4, Tok!Upto
<1>6. F(n) = Plus(g, Every(x))
  <2>1. ASSUME NEW u \in Tokens PROVE F(n)[u] = g[u] + Every(x)[u]
    <3>1. (\E j \in 1 .. n : e[j] = u) <=> u \in Coins  BY <1>2
    <3>. QED  BY <3>1 DEF Every
  <2>2. F(n) = [u \in Tokens |-> F(n)[u]]  OBVIOUS
  <2> HIDE DEF F
  <2>. QED  BY <2>1, <2>2 DEF Plus
<1>. QED  BY <1>5, <1>6

DebitStep(p, d, t)  == Debit(p[1], d, t, p[2])
CreditStep(p, d, t) == Credit(p[1], d, t, p[2])
Deb == INSTANCE Folding WITH Op <- DebitStep
Cre == INSTANCE Folding WITH Op <- CreditStep

LEMMA DebitFold == \A s, n : DebitAll(s, n) = Deb!Fold(<<s, n>>, Nothing, SetToSeq(Coins))
BY DEF DebitAll, DebitStep, FoldLeft, MapThenFoldSet, Max, Deb!Fold, Deb!FoldLeft, Deb!MapThenFoldSet, Deb!Max
LEMMA CreditFold == \A s, d, n : CreditAll(s, d, n) = Cre!Fold(<<s, n>>, d, SetToSeq(Coins))
BY DEF CreditAll, CreditStep, FoldLeft, MapThenFoldSet, Max, Cre!Fold, Cre!FoldLeft, Cre!MapThenFoldSet, Cre!Max

LEMMA DebitAllMoves ==
  ASSUME NEW s \in Wallets, NEW n \in Nat PROVE Moves(s, DebitAll(s, n), Every(-n), <<>>)
<1> DEFINE p == <<s, n>>
<1>1. PICK e \in Seq(Coins), m \in Nat : e = SetToSeq(Coins) /\ m = Len(e) /\ DOMAIN e = 1 .. m  BY CoinsOnce
<1>2. p[1] = s /\ p[2] = n  OBVIOUS
<1> HIDE DEF p
<1>3. PICK tr : Deb!Trace(tr, p, Nothing, e, m) /\ Deb!Fold(p, Nothing, e) = tr[m]  BY <1>1, Deb!FoldTrace
<1>4. tr[0] = Nothing /\ \A i \in 1 .. m : tr[i] = Debit(s, tr[i - 1], e[i], n)  BY <1>2, <1>3 DEF Deb!Trace, DebitStep
<1>5. Moves(s, tr[0], NoFlow, <<>>)  BY <1>4, MovesNothing
<1>6. PICK x \in Int : x = -n  OBVIOUS
<1>7. ASSUME NEW i \in 1 .. m, NEW h, Moves(s, tr[i - 1], h, <<>>)
      PROVE  Moves(s, tr[i], Plus(h, Only(e[i], x)), <<>>)
  <2>1. e[i] \in Tokens  BY <1>1, Numbers
  <2>. QED  BY <1>4, <1>6, <1>7, <2>1, MovesDebit
<1>8. Moves(s, tr[m], Plus(NoFlow, Every(x)), <<>>)  BY <1>1, <1>5, <1>7, PoolMoves
<1>9. Plus(NoFlow, Every(x)) = Every(x)  BY PlusIs, FlowTypes
<1>10. DebitAll(s, n) = tr[m]  BY <1>1, <1>3, DebitFold DEF p
<1>. QED  BY <1>6, <1>8, <1>9, <1>10

LEMMA CreditAllMoves ==
  ASSUME NEW s \in Wallets, NEW n \in Nat, NEW d, NEW g, Moves(s, d, g, <<>>)
  PROVE  Moves(s, CreditAll(s, d, n), Plus(g, Every(n)), <<>>)
<1> DEFINE p == <<s, n>>
<1>1. PICK e \in Seq(Coins), m \in Nat : e = SetToSeq(Coins) /\ m = Len(e) /\ DOMAIN e = 1 .. m  BY CoinsOnce
<1>2. p[1] = s /\ p[2] = n  OBVIOUS
<1> HIDE DEF p
<1>3. PICK tr : Cre!Trace(tr, p, d, e, m) /\ Cre!Fold(p, d, e) = tr[m]  BY <1>1, Cre!FoldTrace
<1>4. tr[0] = d /\ \A i \in 1 .. m : tr[i] = Credit(s, tr[i - 1], e[i], n)  BY <1>2, <1>3 DEF Cre!Trace, CreditStep
<1>5. Moves(s, tr[0], g, <<>>) /\ n \in Int  BY <1>4
<1>7. ASSUME NEW i \in 1 .. m, NEW h, Moves(s, tr[i - 1], h, <<>>)
      PROVE  Moves(s, tr[i], Plus(h, Only(e[i], n)), <<>>)
  <2>1. e[i] \in Tokens  BY <1>1, Numbers
  <2>. QED  BY <1>4, <1>7, <2>1, MovesCredit
<1>8. Moves(s, tr[m], Plus(g, Every(n)), <<>>)  BY <1>1, <1>5, <1>7, PoolMoves
<1>10. CreditAll(s, d, n) = tr[m]  BY <1>1, <1>3, CreditFold DEF p
<1>. QED  BY <1>8, <1>10

LEMMA AddGood ==
  ASSUME NEW s \in Wallets, OneEach(s), NEW r \in AddLiquidity(s)
  PROVE  Good(s, r)
<1> DEFINE D(n) == IF s.held[Lp] # None THEN Credit(s, DebitAll(s, n), Lp, n)
                   ELSE RawCredit(Token(DebitAll(s, n), [op |-> "mint", t |-> Lp, n |-> None]), Lp, n)
<1>1. PICK n \in Amounts : \/ r = Out("add_liquidity", D(n), Plus(Every(-n), Only(Lp, n)))
                           \/ r = Out("mint_range", DebitAll(s, n), Every(-n))
  BY DEF AddLiquidity
<1> DEFINE d == DebitAll(s, n)
           c == [op |-> "mint", t |-> Lp, n |-> None]
           g == Every(-n)
<1>2. n \in Nat /\ -n \in Int /\ Lp \in Tokens /\ n \in Int  BY Numbers
<1>3. Moves(s, d, g, <<>>) /\ g[Lp] = 0  BY <1>2, DebitAllMoves, ReducerAssumption DEF Every
<1>4. D(n) = IF s.held[Lp] # None THEN Credit(s, d, Lp, n) ELSE RawCredit(Token(d, c), Lp, n)  OBVIOUS
<1>5. c \in TokenChange /\ c.op = "mint" /\ c.t = Lp /\ c.t # "native"  BY <1>2, ReducerAssumption DEF TokenChange
<1> HIDE DEF d, g, D, c
<1>6. Good(s, Out("mint_range", d, g))  BY <1>3, GoodPlain
<1>7. Moves(s, Credit(s, d, Lp, n), Plus(g, Only(Lp, n)), <<>>)  BY <1>2, <1>3, MovesCredit
<1>8. CASE s.held[Lp] # None
  <2>1. Good(s, Out("add_liquidity", D(n), Plus(g, Only(Lp, n))))  BY <1>4, <1>7, <1>8, GoodPlain
  <2>. QED  BY <1>1, <1>6, <2>1 DEF d, g
<1>9. CASE s.held[Lp] = None
  <2> DEFINE m == Token(d, c)
  <2>1. Moves(s, m, g, <<>>) /\ (d # Err => AllTokens(s, m.tokens).held[Lp] # None)  BY <1>3, <1>5, <1>9, MovesStill
  <2>2. d = Err => m = Err  BY DEF Token
  <2>3. D(n) = RawCredit(m, Lp, n)  BY <1>4, <1>9
  <2> HIDE DEF m
  <2>4. CASE m = Err
    <3>1. D(n) = Err  BY <2>3, <2>4 DEF RawCredit, Token
    <3>. QED  BY <1>1, <1>6, <3>1, GoodErr DEF d, g
  <2>5. CASE m # Err
    <3>1. m \in Deltas /\ AllTokens(s, m.tokens).held[Lp] # None /\ AllTokens(s, m.tokens) \in Wallets
      BY <2>1, <2>2, <2>5 DEF Moves
    <3>2. AllTokens(s, m.tokens).held[Lp] \in Nat
      <4> DEFINE w == AllTokens(s, m.tokens)
      <4>1. w \in Wallets /\ w.held[Lp] # None  BY <3>1
      <4> HIDE DEF w
      <4>2. w.held[Lp] \in Nat  BY <1>2, <4>1 DEF Wallets, Opt
      <4>. QED  BY <4>2 DEF w
    <3>3. AllTokens(s, m.tokens).held[Lp] + n >= 0  BY <1>2, <3>2
    <3>4. Moves(s, Token(m, [op |-> "balance", t |-> Lp, n |-> n]), Plus(g, Only(Lp, n)), <<>>)
      BY <1>2, <2>1, <3>1, <3>3, MovesBalance
    <3>5. Moves(s, D(n), Plus(g, Only(Lp, n)), <<>>)  BY <2>3, <3>4 DEF RawCredit
    <3>6. Good(s, Out("add_liquidity", D(n), Plus(g, Only(Lp, n))))  BY <3>5, GoodPlain
    <3>. QED  BY <1>1, <1>6, <3>6 DEF d, g
  <2>. QED  BY <2>4, <2>5
<1>. QED  BY <1>8, <1>9

\* A further credit, unless it is of nothing.
LEMMA RiderMoves ==
  ASSUME NEW s \in Wallets, NEW d, NEW g, Moves(s, d, g, <<>>), NEW t \in Tokens, NEW n \in Nat
  PROVE  Moves(s, Rider(s, d, t, n), Plus(g, Only(t, n)), <<>>)
<1>1. CASE n = 0
  <2>1. g \in [Tokens -> Int]  BY DEF Moves
  <2>2. \A x \in Tokens : g[x] + Only(t, n)[x] = g[x]  BY <1>1, <2>1, PlusIs
  <2>3. Plus(g, Only(t, n)) = [x \in Tokens |-> g[x]]  BY <2>2 DEF Plus
  <2>4. Plus(g, Only(t, n)) = g  BY <2>1, <2>3
  <2>5. Rider(s, d, t, n) = d  BY <1>1 DEF Rider
  <2>. QED  BY <2>4, <2>5
<1>2. CASE n # 0
  <2>1. Rider(s, d, t, n) = Credit(s, d, t, n)  BY <1>2 DEF Rider
  <2>. QED  BY <2>1, MovesCredit
<1>. QED  BY <1>1, <1>2

LEMMA RemoveGood ==
  ASSUME NEW s \in Wallets, OneEach(s), NEW r \in RemoveLiquidity(s)
  PROVE  Good(s, r)
<1>0. Lp \in Tokens  BY Numbers
<1>1. CASE r \in {Out("remove_liquidity", Rider(s, CreditAll(s, Debit(s, Nothing, Lp, n), n), u, m),
                      Plus(Plus(Only(Lp, -n), Every(n)), Only(u, m))) : u \in Coins, n \in Amounts, m \in {0} \cup Amounts}
  <2>1. PICK u \in Coins, n \in Amounts, m \in {0} \cup Amounts :
          r = Out("remove_liquidity", Rider(s, CreditAll(s, Debit(s, Nothing, Lp, n), n), u, m),
                  Plus(Plus(Only(Lp, -n), Every(n)), Only(u, m)))
    BY <1>1
  <2>2. n \in Nat /\ m \in Nat /\ u \in Tokens  BY Numbers
  <2> DEFINE d == Debit(s, Nothing, Lp, n)
             e == CreditAll(s, d, n)
             g == Plus(Only(Lp, -n), Every(n))
  <2>3. Moves(s, d, Only(Lp, -n), <<>>)  BY <1>0, <2>2, PairMoves
  <2> HIDE DEF d
  <2>4. Moves(s, e, g, <<>>)  BY <2>2, <2>3, CreditAllMoves
  <2> HIDE DEF e, g
  <2>5. Moves(s, Rider(s, e, u, m), Plus(g, Only(u, m)), <<>>)  BY <2>2, <2>4, RiderMoves
  <2>6. Good(s, Out("remove_liquidity", Rider(s, e, u, m), Plus(g, Only(u, m))))  BY <2>5, GoodPlain
  <2>. QED  BY <2>1, <2>6 DEF d, e, g
<1>2. CASE r \in {Out("remove_one", Rider(s, Credit(s, Debit(s, Nothing, Lp, n), t, n), u, m),
                      Plus(Plus(Only(Lp, -n), Only(t, n)), Only(u, m))) :
                    t \in Coins, u \in Coins, n \in Amounts, m \in {0} \cup Amounts}
  <2>1. PICK t \in Coins, u \in Coins, n \in Amounts, m \in {0} \cup Amounts :
          r = Out("remove_one", Rider(s, Credit(s, Debit(s, Nothing, Lp, n), t, n), u, m),
                  Plus(Plus(Only(Lp, -n), Only(t, n)), Only(u, m)))
    BY <1>2
  <2>2. t \in Tokens /\ u \in Tokens /\ n \in Nat /\ m \in Nat  BY Numbers
  <2> DEFINE e == Credit(s, Debit(s, Nothing, Lp, n), t, n)
             g == Plus(Only(Lp, -n), Only(t, n))
  <2>3. Moves(s, e, g, <<>>)  BY <1>0, <2>2, PairMoves
  <2> HIDE DEF e, g
  <2>4. Moves(s, Rider(s, e, u, m), Plus(g, Only(u, m)), <<>>)  BY <2>2, <2>3, RiderMoves
  <2>5. Good(s, Out("remove_one", Rider(s, e, u, m), Plus(g, Only(u, m))))  BY <2>4, GoodPlain
  <2>. QED  BY <2>1, <2>5 DEF e, g
<1>3. CASE r = Out("decrease_range", Nothing, NoFlow)  BY <1>3, MovesNothing, GoodPlain
<1>4. CASE r = Out("nft_transfer", NftTransfer(s), NoFlow)  BY <1>4, NftGood
<1>. QED  BY <1>1, <1>2, <1>3, <1>4 DEF RemoveLiquidity

-----------------------------------------------------------------------------
(* Sums over the entries of a list                                           *)

Entry == Coins \X Nat

LEMMA SumSteps == ASSUME NEW t, NEW n \in Int, NEW e \in Entry
                  PROVE  SumStep(t, n, e) = n + (IF e[1] = t THEN e[2] ELSE 0) /\ SumStep(t, n, e) \in Int
BY DEF SumStep, Entry

LEMMA SumPush ==
  ASSUME NEW es \in Seq(Entry), NEW e \in Entry, NEW u
  PROVE  SumOf(Append(es, e), u) = SumOf(es, u) + (IF e[1] = u THEN e[2] ELSE 0)
<1>1. Summ!Fold(u, 0, Append(es, e)) = SumStep(u, Summ!Fold(u, 0, es), e)  BY Summ!FoldAppend
<1>2. SumOf(es, u) \in Int  BY SumType DEF Entry
<1>. QED  BY <1>1, <1>2, SumFold, SumSteps

LEMMA SumNone == \A u : SumOf(<<>>, u) = 0
BY SumFold, Summ!FoldEmpty

\* The trace of a sum.
SumTraced(f, es, u, n) ==
  /\ f[0] = 0 /\ SumOf(es, u) = f[n] /\ \A k \in 0 .. n : f[k] \in Int
  /\ \A k \in 1 .. n : f[k] = f[k - 1] + (IF es[k][1] = u THEN es[k][2] ELSE 0)

LEMMA SumTrace ==
  ASSUME NEW es \in Seq(Entry), NEW u, NEW n \in Nat, n = Len(es)
  PROVE  \E f : SumTraced(f, es, u, n)
<1>1. DOMAIN es = 1 .. n /\ \A k \in 1 .. n : es[k] \in Entry  OBVIOUS
<1> DEFINE z == 0
<1> HIDE DEF z
<1>8. PICK f : Summ!Trace(f, u, z, es, n) /\ Summ!Fold(u, z, es) = f[n]  BY <1>1, Summ!FoldTrace
<1>2. Summ!Trace(f, u, 0, es, n) /\ Summ!Fold(u, 0, es) = f[n]  BY <1>8 DEF z
<1>3. f[0] = 0 /\ \A k \in 1 .. n : f[k] = SumStep(u, f[k - 1], es[k])  BY <1>2 DEF Summ!Trace
<1> DEFINE H == {k \in Nat : f[k] \in Int}
<1>4. 0 \in H  BY <1>3
<1>5. ASSUME NEW k \in 0 .. n - 1, k \in H PROVE k + 1 \in H
  <2>1. k + 1 \in 1 .. n /\ k + 1 - 1 = k  OBVIOUS
  <2>2. f[k + 1] = SumStep(u, f[k], es[k + 1])  BY <1>3, <2>1
  <2>. QED  BY <1>1, <1>5, <2>1, <2>2, SumSteps
<1>6. \A k \in 0 .. n : f[k] \in Int
  <2>1. \A k \in 0 .. n : k \in H
    <3> HIDE DEF H
    <3>. QED  BY <1>4, <1>5, Summ!Upto
  <2>. QED  BY <2>1
<1>7. ASSUME NEW k \in 1 .. n PROVE f[k] = f[k - 1] + (IF es[k][1] = u THEN es[k][2] ELSE 0)
  <2>1. k - 1 \in 0 .. n  OBVIOUS
  <2>. QED  BY <1>1, <1>3, <1>6, <2>1, SumSteps
<1>. QED  BY <1>2, <1>3, <1>6, <1>7, SumFold DEF SumTraced

\* An entry replaced by another of the same token.
LEMMA SumPoint ==
  ASSUME NEW es \in Seq(Entry), NEW i \in 1 .. Len(es), NEW v \in Entry, v[1] = es[i][1], NEW u
  PROVE  /\ [es EXCEPT ![i] = v] \in Seq(Entry)
         /\ SumOf([es EXCEPT ![i] = v], u) = SumOf(es, u) + (IF v[1] = u THEN v[2] - es[i][2] ELSE 0)
<1> DEFINE fs == [es EXCEPT ![i] = v]
           n == Len(es)
           x == IF v[1] = u THEN v[2] - es[i][2] ELSE 0
<1>1. fs \in Seq(Entry) /\ Len(fs) = n /\ \A k \in 1 .. n : fs[k] = IF k = i THEN v ELSE es[k]  OBVIOUS
<1>2. n \in Nat /\ \A k \in 1 .. n : es[k] \in Entry /\ es[k][2] \in Int  BY DEF Entry
<1>3. x \in Int /\ v[2] \in Int  BY <1>2 DEF Entry
<1> HIDE DEF fs, n
<1>4. PICK f : SumTraced(f, es, u, n)  BY <1>2, SumTrace DEF n
<1>5. PICK g : SumTraced(g, fs, u, n)  BY <1>1, <1>2, SumTrace
<1>6. i \in 1 .. n  BY DEF n
<1> DEFINE H == {k \in Nat : g[k] = f[k] + (IF k >= i THEN x ELSE 0)}
<1>7. 0 \in H  BY <1>4, <1>5, <1>6 DEF SumTraced
<1>8. ASSUME NEW k \in 0 .. n - 1, k \in H PROVE k + 1 \in H
  <2>1. k + 1 \in 1 .. n /\ k + 1 - 1 = k /\ k \in 0 .. n /\ k + 1 \in Nat  BY <1>2
  <2>2. g[k] = f[k] + (IF k >= i THEN x ELSE 0) /\ f[k] \in Int  BY <1>4, <1>8, <2>1 DEF SumTraced
  <2>3. /\ f[k + 1] = f[k] + (IF es[k + 1][1] = u THEN es[k + 1][2] ELSE 0)
        /\ g[k + 1] = g[k] + (IF fs[k + 1][1] = u THEN fs[k + 1][2] ELSE 0)
    BY <1>4, <1>5, <2>1 DEF SumTraced
  <2>4. CASE k + 1 = i
    <3>1. ~(k >= i) /\ k + 1 >= i /\ fs[k + 1] = v /\ es[k + 1] = es[i]  BY <1>1, <1>6, <2>1, <2>4
    <3>2. g[k] = f[k]  BY <2>2, <3>1
    <3>3. g[k + 1] = f[k] + (IF v[1] = u THEN v[2] ELSE 0)  BY <2>3, <3>1, <3>2
    <3>4. f[k + 1] = f[k] + (IF v[1] = u THEN es[i][2] ELSE 0)  BY <2>3, <3>1
    <3>5. g[k + 1] = f[k + 1] + x  BY <1>2, <1>3, <1>6, <2>2, <3>3, <3>4
    <3>. QED  BY <2>1, <3>1, <3>5
  <2>5. CASE k + 1 # i
    <3>1. fs[k + 1] = es[k + 1] /\ ((k + 1 >= i) <=> (k >= i))  BY <1>1, <1>6, <2>1, <2>5
    <3> DEFINE y == IF es[k + 1][1] = u THEN es[k + 1][2] ELSE 0
    <3>2. y \in Int  BY <1>2, <2>1
    <3>3. f[k + 1] = f[k] + y /\ g[k + 1] = g[k] + y  BY <2>3, <3>1
    <3> HIDE DEF x, y
    <3>. QED  BY <1>3, <2>1, <2>2, <3>1, <3>2, <3>3
  <2>. QED  BY <2>4, <2>5
<1>9. n \in H
  <2> HIDE DEF H
  <2>1. \A k \in 0 .. n : k \in H  BY <1>2, <1>7, <1>8, Summ!Upto
  <2>. QED  BY <1>2, <2>1
<1>10. g[n] = f[n] + x  BY <1>2, <1>6, <1>9
<1>. QED  BY <1>1, <1>4, <1>5, <1>10 DEF fs, SumTraced

\* The first entry and the others.
LEMMA SumTail ==
  ASSUME NEW es \in Seq(Entry), es # <<>>, NEW u
  PROVE  SumOf(es, u) = SumOf(Tail(es), u) + (IF es[1][1] = u THEN es[1][2] ELSE 0)
<1> DEFINE ts == Tail(es)
           n == Len(ts)
           x == IF es[1][1] = u THEN es[1][2] ELSE 0
<1>1. /\ ts \in Seq(Entry) /\ n \in Nat /\ Len(es) = n + 1 /\ \A k \in 1 .. n : ts[k] = es[k + 1]
      /\ 1 \in 1 .. n + 1
  OBVIOUS
<1>2. \A k \in 1 .. n + 1 : es[k] \in Entry /\ es[k][2] \in Int  BY <1>1 DEF Entry
<1>3. x \in Int  BY <1>1, <1>2
<1> HIDE DEF ts, n
<1>4. PICK f : SumTraced(f, es, u, n + 1)
  <2>1. PICK m \in Nat : m = n + 1  BY <1>1
  <2>2. \E f : SumTraced(f, es, u, m)  BY <1>1, <2>1, SumTrace
  <2>. QED  BY <2>1, <2>2
<1>5. PICK g : SumTraced(g, ts, u, n)  BY <1>1, SumTrace DEF n
<1> DEFINE H == {k \in Nat : f[k + 1] = g[k] + x}
<1>6. 0 \in H
  <2>1. f[1] = f[0] + x  BY <1>1, <1>4 DEF SumTraced
  <2>. QED  BY <1>3, <1>4, <1>5, <2>1 DEF SumTraced
<1>7. ASSUME NEW k \in 0 .. n - 1, k \in H PROVE k + 1 \in H
  <2>1. /\ k + 1 \in 1 .. n /\ k + 1 - 1 = k /\ k + 1 \in Nat /\ k + 1 + 1 \in 1 .. n + 1 /\ k + 1 + 1 - 1 = k + 1
        /\ k \in 0 .. n
    BY <1>1
  <2> DEFINE y == IF es[k + 1 + 1][1] = u THEN es[k + 1 + 1][2] ELSE 0
  <2>2. f[k + 1 + 1] = f[k + 1] + y  BY <1>4, <2>1 DEF SumTraced
  <2>3. g[k + 1] = g[k] + y  BY SMTT(30), ZenonT(60), <1>1, <1>5, <2>1 DEF SumTraced
  <2>4. y \in Int /\ g[k] \in Int  BY <1>2, <1>5, <2>1 DEF SumTraced
  <2>5. f[k + 1] = g[k] + x  BY <1>7
  <2> HIDE DEF x, y
  <2>. QED  BY <1>3, <2>1, <2>2, <2>3, <2>4, <2>5
<1>8. n \in H
  <2> HIDE DEF H
  <2>1. \A k \in 0 .. n : k \in H  BY <1>1, <1>6, <1>7, Summ!Upto
  <2>. QED  BY <1>1, <2>1
<1>. QED  BY <1>4, <1>5, <1>8 DEF ts, SumTraced

LEMMA CoalesceIs ==
  ASSUME NEW es \in Entries, NEW t \in Coins, NEW n \in Nat
  PROVE  /\ Coalesce(es, t, n) \in Entries
         /\ \A u : SumOf(Coalesce(es, t, n), u) = SumOf(es, u) + (IF u = t THEN n ELSE 0)
<1>0. es \in Seq(Entry) /\ es # <<>> /\ \A q : (q \in Seq(Entry) /\ q # <<>>) => q \in Entries  BY DEF Entries, Entry
<1>1. CASE \E i \in DOMAIN es : es[i][1] = t
  <2> DEFINE i == CHOOSE i \in DOMAIN es : es[i][1] = t
             v == <<t, es[i][2] + n>>
             fs == [es EXCEPT ![i] = v]
  <2>1. i \in DOMAIN es /\ es[i][1] = t  BY <1>1
  <2>2. Coalesce(es, t, n) = fs  BY <1>1 DEF Coalesce
  <2> HIDE DEF i
  <2>3. i \in 1 .. Len(es) /\ es[i] \in Entry  BY <1>0, <2>1
  <2>4. v \in Entry /\ v[1] = t /\ es[i][2] \in Nat /\ v[2] - es[i][2] = n  BY <2>3 DEF Entry
  <2> HIDE DEF v
  <2>5. fs \in Seq(Entry) /\ \A u : SumOf(fs, u) = SumOf(es, u) + (IF v[1] = u THEN v[2] - es[i][2] ELSE 0)
    BY <1>0, <2>1, <2>3, <2>4, SumPoint
  <2>6. fs # <<>>
    <3>1. i \in DOMAIN fs /\ i \notin DOMAIN <<>>  BY <2>1
    <3>. QED  BY <3>1
  <2> HIDE DEF fs
  <2>. QED  BY <1>0, <2>2, <2>4, <2>5, <2>6
<1>2. CASE ~\E i \in DOMAIN es : es[i][1] = t
  <2> DEFINE v == <<t, n>>
  <2>1. Coalesce(es, t, n) = Append(es, v)  BY <1>2 DEF Coalesce
  <2>2. v \in Entry /\ v[1] = t /\ v[2] = n  BY DEF Entry
  <2> HIDE DEF v
  <2>3. Append(es, v) \in Seq(Entry) /\ Append(es, v) # <<>>  BY <1>0, <2>2
  <2>4. \A u : SumOf(Append(es, v), u) = SumOf(es, u) + (IF v[1] = u THEN v[2] ELSE 0)  BY <1>0, <2>2, SumPush
  <2>. QED  BY <1>0, <2>1, <2>2, <2>3, <2>4
<1>. QED  BY <1>1, <1>2

-----------------------------------------------------------------------------
(* Perps                                                                     *)

LEMMA PerpIs ==
  ASSUME NEW s \in Wallets, Has(s, "perp")
  PROVE  /\ Perp(s) \in PerpBody /\ s.pos["perp"] # <<>>
         /\ Perp(s).coll \in Seq(Entry) /\ Perp(s).coll # <<>> /\ Perp(s).coll \in Entries
         /\ First(s) \in Entry /\ First(s)[1] \in Coins /\ First(s)[2] \in Nat
         /\ Perp(s).size \in Nat \ {0}
         /\ \A u : Mar(s.pos["perp"], u) = SumOf(Perp(s).coll, u)
<1>1. s.pos["perp"] \in Seq(PerpBody) /\ s.pos["perp"] # <<>>  BY WalletPos DEF Has
<1>2. Perp(s) \in PerpBody  BY <1>1 DEF Perp, Body
<1>3. Perp(s).coll \in Seq(Entry) /\ Perp(s).coll # <<>> /\ Perp(s).coll \in Entries /\ Perp(s).size \in Nat \ {0}
  BY <1>2 DEF PerpBody, Entries, Entry
<1>4. First(s) \in Entry  BY <1>3 DEF First
<1>5. First(s)[1] \in Coins /\ First(s)[2] \in Nat  BY <1>4 DEF Entry
<1>6. \A u : Mar(s.pos["perp"], u) = SumOf(Perp(s).coll, u)  BY <1>1 DEF Mar, Perp, Body
<1>. QED  BY <1>1, <1>2, <1>3, <1>4, <1>5, <1>6

LEMMA PerpMoves ==
  ASSUME NEW s \in Wallets, NEW d, NEW g, Moves(s, d, g, <<>>), NEW b \in PerpBody, NEW op \in {"open", "update"}
  PROVE  Moves(s, Pos(d, op, "perp", b), g, <<[op |-> op, id |-> "perp", body |-> b]>>)
<1> DEFINE c == [op |-> op, id |-> "perp", body |-> b]
<1>1. c \in PositionChange  BY DEF PositionChange, PositionIds, Bodies, BodyOf
<1>2. Moves(s, Pos(d, op, "perp", b), g, Append(<<>>, c))  BY <1>1, MovesPos
<1>3. Append(<<>>, c) = <<c>>  OBVIOUS
<1>. QED  BY <1>2, <1>3

LEMMA PerpUpdated ==
  ASSUME NEW s \in Wallets, OneEach(s), Has(s, "perp"), NEW d, NEW g, Moves(s, d, g, <<>>), NEW b \in PerpBody,
         NEW f \in [Tokens -> Int],
         \A u \in Tokens : SumOf(b.coll, u) + g[u] = SumOf(Perp(s).coll, u) + f[u], NEW k
  PROVE  Good(s, OnPerp(k, d, b, f))
<1> DEFINE op == "update"
           z == Pos(d, op, "perp", b)
<1>1. op \in {"open", "update"} /\ (op = "open" <=> s.pos["perp"] = <<>>)  BY PerpIs
<1>2. OnPerp(k, d, b, f) = Out(k, z, f)  BY DEF OnPerp
<1> HIDE DEF op
<1>3. Moves(s, z, g, <<[op |-> op, id |-> "perp", body |-> b]>>)  BY <1>1, PerpMoves
<1>4. \A u \in Tokens : SumOf(b.coll, u) + g[u] = Mar(s.pos["perp"], u) + f[u]  BY PerpIs
<1> HIDE DEF z
<1>5. Good(s, Out(k, z, f))  BY <1>1, <1>3, <1>4, GoodPerp
<1>. QED  BY <1>2, <1>5

LEMMA PerpOpenGood == ASSUME NEW s \in Wallets, OneEach(s), NEW r \in PerpOpen(s) PROVE Good(s, r)
<1>1. PICK t \in Coins, n \in Amounts :
        r = Out("perp_open", Open(s, Debit(s, Nothing, t, n), "perp", [size |-> 2, coll |-> <<<<t, n>>>>]), NoFlow)
  BY SMTT(30), ZenonT(60) DEF PerpOpen
<1> DEFINE v == <<t, n>>
           es == <<v>>
           b == [size |-> 2, coll |-> es]
           d == Debit(s, Nothing, t, n)
           g == Only(t, -n)
           op == "open"
<1>2. t \in Tokens /\ n \in Nat /\ n \in Int /\ -n \in Int  BY Numbers
<1>3. Moves(s, d, g, <<>>)  BY <1>2, PairMoves
<1>4. v \in Entry /\ v[1] = t /\ v[2] = n  BY <1>2 DEF Entry
<1>5. es \in Seq(Entry) /\ es = Append(<<>>, v) /\ es # <<>>
  <2> HIDE DEF v
  <2>. QED  BY <1>4
<1>6. \A u \in Tokens : SumOf(es, u) = IF u = t THEN n ELSE 0
  <2> HIDE DEF v
  <2>1. \A u : SumOf(Append(<<>>, v), u) = SumOf(<<>>, u) + (IF v[1] = u THEN v[2] ELSE 0)
    <3>0. <<>> \in Seq(Entry)  OBVIOUS
    <3>1. PICK q \in Seq(Entry) : q = <<>>  BY <3>0
    <3>2. \A u : SumOf(Append(q, v), u) = SumOf(q, u) + (IF v[1] = u THEN v[2] ELSE 0)  BY <1>4, SumPush
    <3>. QED  BY <3>1, <3>2
  <2>. QED  BY <1>2, <1>4, <1>5, <2>1, SumNone
<1>7. b \in PerpBody /\ b.coll = es
  <2> HIDE DEF es
  <2>. QED  BY <1>5 DEF PerpBody, Entries, Entry
<1>8. CASE Has(s, "perp")
  <2>1. Open(s, d, "perp", b) = Err  BY <1>8 DEF Open
  <2> HIDE DEF d
  <2>. QED  BY <1>1, <2>1, GoodErr DEF d
<1>9. CASE ~Has(s, "perp")
  <2>1. Open(s, d, "perp", b) = Pos(d, op, "perp", b)  BY <1>9 DEF Open
  <2>2. op \in {"open", "update"} /\ (op = "open" <=> s.pos["perp"] = <<>>) /\ NoFlow \in [Tokens -> Int] /\ s.pos["perp"] = <<>>
    BY <1>9, FlowTypes DEF Has
  <2> HIDE DEF d, b, es, op, g
  <2>3. Moves(s, Pos(d, op, "perp", b), g, <<[op |-> op, id |-> "perp", body |-> b]>>)  BY <1>3, <1>7, <2>2, PerpMoves
  <2>4. ASSUME NEW u \in Tokens PROVE SumOf(b.coll, u) + g[u] = Mar(s.pos["perp"], u) + NoFlow[u]
    <3>1. Mar(s.pos["perp"], u) = 0 /\ NoFlow[u] = 0  BY <2>2, PlusIs DEF Mar
    <3>2. g[u] = IF u = t THEN -n ELSE 0  BY PlusIs DEF g
    <3>. QED  BY <1>2, <1>6, <1>7, <3>1, <3>2
  <2> DEFINE z == Pos(d, op, "perp", b)
  <2> HIDE DEF z
  <2>5. Good(s, Out("perp_open", z, NoFlow))  BY <1>7, <2>2, <2>3, <2>4, GoodPerp DEF z
  <2>. QED  BY <1>1, <2>1, <2>5 DEF z, d, b, es
<1>. QED  BY <1>8, <1>9

LEMMA SettleMoves ==
  ASSUME NEW s \in Wallets, NEW t \in Tokens, NEW n \in Int
  PROVE  Moves(s, Settle(s, Nothing, t, n), Only(t, n), <<>>)
<1>1. Moves(s, Settle(s, Nothing, t, n), Plus(NoFlow, Only(t, n)), <<>>)  BY MovesNothing, MovesSettle
<1>2. Plus(NoFlow, Only(t, n)) = Only(t, n)  BY PlusIs, FlowTypes
<1>. QED  BY <1>1, <1>2

LEMMA PerpIncreaseGood ==
  ASSUME NEW s \in Wallets, OneEach(s), Has(s, "perp"), NEW r \in PerpIncrease(s) PROVE Good(s, r)
<1> DEFINE p == Perp(s)
<1>0. p \in PerpBody /\ p.coll \in Entries /\ p.size \in Nat \ {0} /\ p.coll \in Seq(Entry)  BY PerpIs
<1>1. \A u : SumOf(p.coll, u) \in Int  BY <1>0, SumType DEF Entry
<1>2. CASE r = OnPerp("increase", Nothing, [Perp(s) EXCEPT !.size = @ + 1], NoFlow)
  <2> DEFINE b == [p EXCEPT !.size = @ + 1]
  <2>1. b \in PerpBody /\ b.coll = p.coll
    <3> HIDE DEF p
    <3>. QED  BY <1>0 DEF PerpBody
  <2>2. r = OnPerp("increase", Nothing, b, NoFlow)  BY <1>2
  <2> HIDE DEF b
  <2>3. \A u \in Tokens : SumOf(b.coll, u) + NoFlow[u] = SumOf(Perp(s).coll, u) + NoFlow[u]  BY <2>1
  <2>. QED  BY <2>1, <2>2, <2>3, MovesNothing, FlowTypes, PerpUpdated
<1>3. CASE r \in {OnPerp("increase", Debit(s, Nothing, t, n),
                         [size |-> Perp(s).size + 1, coll |-> Coalesce(Perp(s).coll, t, n)], NoFlow) : t \in Coins, n \in Amounts}
  <2>1. PICK t \in Coins, n \in Amounts :
          r = OnPerp("increase", Debit(s, Nothing, t, n),
                     [size |-> Perp(s).size + 1, coll |-> Coalesce(Perp(s).coll, t, n)], NoFlow)
    BY <1>3
  <2> DEFINE c == Coalesce(p.coll, t, n)
             b == [size |-> p.size + 1, coll |-> c]
             g == Only(t, -n)
  <2>2. t \in Tokens /\ n \in Nat /\ n \in Int /\ -n \in Int  BY Numbers
  <2>3. c \in Entries /\ \A u : SumOf(c, u) = SumOf(p.coll, u) + (IF u = t THEN n ELSE 0)  BY <1>0, <2>2, CoalesceIs
  <2>4. b \in PerpBody /\ b.coll = c
    <3> HIDE DEF c, p
    <3>. QED  BY <1>0, <2>3 DEF PerpBody
  <2>5. Moves(s, Debit(s, Nothing, t, n), g, <<>>)  BY <2>2, PairMoves
  <2>6. r = OnPerp("increase", Debit(s, Nothing, t, n), b, NoFlow)  BY <2>1
  <2> HIDE DEF b, c, g
  <2>7. ASSUME NEW u \in Tokens PROVE SumOf(b.coll, u) + g[u] = SumOf(Perp(s).coll, u) + NoFlow[u]
    <3>1. NoFlow[u] = 0 /\ g[u] = IF u = t THEN -n ELSE 0  BY PlusIs DEF g
    <3>2. SumOf(p.coll, u) \in Int /\ SumOf(b.coll, u) = SumOf(p.coll, u) + (IF u = t THEN n ELSE 0)  BY <1>1, <2>3, <2>4
    <3> DEFINE x == SumOf(p.coll, u)
    <3>3. x \in Int /\ x = SumOf(Perp(s).coll, u)  BY <3>2
    <3> HIDE DEF x
    <3>4. SumOf(b.coll, u) = x + (IF u = t THEN n ELSE 0)  BY <3>2 DEF x
    <3>. QED  BY <2>2, <3>1, <3>3, <3>4
  <2>. QED  BY <2>4, <2>5, <2>6, <2>7, FlowTypes, PerpUpdated
<1>. QED  BY <1>2, <1>3 DEF PerpIncrease

LEMMA PerpDecreaseGood ==
  ASSUME NEW s \in Wallets, OneEach(s), Has(s, "perp"), NEW r \in PerpDecrease(s) PROVE Good(s, r)
<1> DEFINE p == Perp(s)
           t == First(s)[1]
<1>0. p \in PerpBody /\ p.size \in Nat \ {0} /\ p.coll \in Seq(Entry) /\ t \in Coins /\ t \in Tokens  BY PerpIs, Numbers
<1>1. \A u : SumOf(p.coll, u) \in Int  BY <1>0, SumType DEF Entry
<1>2. PICK c \in {-1, 0, 1} : /\ Perp(s).size > 1
        /\ r = OnPerp("decrease", Settle(s, Nothing, First(s)[1], c), [Perp(s) EXCEPT !.size = @ - 1], Only(First(s)[1], c))
  BY DEF PerpDecrease
<1> DEFINE b == [p EXCEPT !.size = @ - 1]
           g == Only(t, c)
<1>3. c \in Int  OBVIOUS
<1>4. b \in PerpBody /\ b.coll = p.coll
  <2>1. p.size > 1  BY <1>2
  <2> HIDE DEF p
  <2>. QED  BY <1>0, <2>1 DEF PerpBody
<1>5. Moves(s, Settle(s, Nothing, t, c), g, <<>>) /\ g \in [Tokens -> Int]
  <2> HIDE DEF t
  <2>. QED  BY <1>0, <1>3, SettleMoves, FlowTypes
<1>6. r = OnPerp("decrease", Settle(s, Nothing, t, c), b, g)  BY <1>2
<1> HIDE DEF b, g, t
<1>7. \A u \in Tokens : SumOf(b.coll, u) + g[u] = SumOf(Perp(s).coll, u) + g[u]  BY <1>4
<1>. QED  BY <1>4, <1>5, <1>6, <1>7, PerpUpdated

LEMMA LeverageGood ==
  ASSUME NEW s \in Wallets, OneEach(s), Has(s, "perp"), NEW r \in ChangeLeverage(s) PROVE Good(s, r)
<1>1. r = OnPerp("leverage", Nothing, Perp(s), NoFlow)  BY DEF ChangeLeverage
<1>2. PICK b \in PerpBody : b = Perp(s)  BY PerpIs
<1>3. \A u \in Tokens : SumOf(b.coll, u) + NoFlow[u] = SumOf(Perp(s).coll, u) + NoFlow[u]  BY <1>2
<1>. QED  BY <1>1, <1>2, <1>3, MovesNothing, FlowTypes, PerpUpdated

LEMMA MarginGood ==
  ASSUME NEW s \in Wallets, OneEach(s), Has(s, "perp"), NEW r \in AdjustMargin(s) PROVE Good(s, r)
<1> DEFINE p == Perp(s)
           e == First(s)
<1>0. /\ p \in PerpBody /\ p.coll \in Seq(Entry) /\ p.coll # <<>> /\ e \in Entry /\ e[1] \in Coins /\ e[2] \in Nat
      /\ e[1] \in Tokens /\ e = p.coll[1]
  BY PerpIs, Numbers DEF First
<1>1. \A u : SumOf(p.coll, u) \in Int  BY <1>0, SumType DEF Entry
<1>2. PICK c \in {-n : n \in Amounts} \cup Amounts : /\ First(s)[2] + c >= 0
        /\ r = OnPerp("margin", Settle(s, Nothing, First(s)[1], -c),
                      [Perp(s) EXCEPT !.coll[1] = <<First(s)[1], First(s)[2] + c>>], NoFlow)
  BY DEF AdjustMargin
<1>3. c \in Int /\ -c \in Int  BY Numbers
<1> DEFINE v == <<e[1], e[2] + c>>
           cs == [p.coll EXCEPT ![1] = v]
           b == [p EXCEPT !.coll[1] = v]
           g == Only(e[1], -c)
<1>4. v \in Entry /\ v[1] = e[1] /\ v[2] - e[2] = c
  <2>1. e[2] + c >= 0  BY <1>2
  <2> HIDE DEF e
  <2>. QED  BY <1>0, <1>3, <2>1 DEF Entry
<1>5. r = OnPerp("margin", Settle(s, Nothing, e[1], -c), b, NoFlow)  BY <1>2
<1> HIDE DEF e, v
<1>6. b = [p EXCEPT !.coll = cs] /\ 1 \in 1 .. Len(p.coll)
  <2> HIDE DEF p
  <2>. QED  BY <1>0 DEF PerpBody
<1>7. cs \in Seq(Entry) /\ \A u : SumOf(cs, u) = SumOf(p.coll, u) + (IF v[1] = u THEN v[2] - e[2] ELSE 0)
  <2>1. v[1] = p.coll[1][1] /\ e[2] = p.coll[1][2]  BY <1>0, <1>4
  <2>2. PICK i \in 1 .. Len(p.coll) : i = 1  BY <1>6
  <2> HIDE DEF p
  <2>. QED  BY <1>0, <1>4, <2>1, <2>2, SumPoint
<1>8. cs # <<>>
  <2>1. 1 \in DOMAIN cs /\ 1 \notin DOMAIN <<>>
    <3> HIDE DEF p
    <3>. QED  BY <1>0, <1>6
  <2>. QED  BY <2>1
<1>9. b \in PerpBody /\ b.coll = cs
  <2>1. cs \in Entries  BY <1>7, <1>8 DEF Entries, Entry
  <2> HIDE DEF p, cs
  <2>. QED  BY <1>0, <1>6, <2>1 DEF PerpBody
<1>10. Moves(s, Settle(s, Nothing, e[1], -c), g, <<>>) /\ \A u \in Tokens : g[u] = IF u = e[1] THEN -c ELSE 0
  BY <1>0, <1>3, SettleMoves, PlusIs
<1> HIDE DEF b, cs, g
<1>11. ASSUME NEW u \in Tokens PROVE SumOf(b.coll, u) + g[u] = SumOf(Perp(s).coll, u) + NoFlow[u]
  <2> DEFINE x == SumOf(p.coll, u)
  <2>1. x \in Int /\ x = SumOf(Perp(s).coll, u) /\ NoFlow[u] = 0  BY <1>1, PlusIs
  <2>2. SumOf(b.coll, u) = x + (IF e[1] = u THEN c ELSE 0)  BY <1>4, <1>7, <1>9
  <2> HIDE DEF x
  <2>. QED  BY <1>3, <1>10, <2>1, <2>2
<1>. QED  BY <1>5, <1>9, <1>10, <1>11, FlowTypes, PerpUpdated

LEMMA PerpCloseGood ==
  ASSUME NEW s \in Wallets, OneEach(s), Has(s, "perp"), NEW r \in PerpClose(s) PROVE Good(s, r)
<1> DEFINE p == Perp(s)
           e == First(s)
           h == [u \in Tokens |-> SumOf(Tail(Perp(s).coll), u)]
<1>0. /\ p \in PerpBody /\ p.coll \in Seq(Entry) /\ p.coll # <<>> /\ e \in Entry /\ e[1] \in Coins /\ e[2] \in Nat
      /\ e[1] \in Tokens /\ e = p.coll[1] /\ e[2] \in Int
  BY PerpIs, Numbers DEF First
<1>1. \A u : SumOf(p.coll, u) \in Int /\ SumOf(Tail(p.coll), u) \in Int /\ SumOf(Tail(p.coll), u) \in Nat
  <2>1. Tail(p.coll) \in Seq(Entry)
    <3> HIDE DEF p
    <3>. QED  BY <1>0
  <2>. QED  BY <1>0, <2>1, SumType DEF Entry
<1>2. PICK c \in {-1, 0, 1} :
        r = Lossy("perp_close", Pos(Settle(s, Credit(s, Nothing, e[1], e[2]), e[1], c), "close", "perp", None), Only(e[1], c), h)
  BY DEF PerpClose
<1>3. \A u : SumOf(p.coll, u) = SumOf(Tail(p.coll), u) + (IF e[1] = u THEN e[2] ELSE 0)
  <2> HIDE DEF p, e
  <2>. QED  BY <1>0, SumTail
<1>4. h \in [Tokens -> Nat] /\ \A u \in Tokens : h[u] = SumOf(Tail(p.coll), u)  BY <1>1
<1> HIDE DEF e, h
<1> DEFINE a == Credit(s, Nothing, e[1], e[2])
           d == Settle(s, a, e[1], c)
           x == [op |-> "close", id |-> "perp", body |-> None]
           g == Plus(Plus(NoFlow, Only(e[1], e[2])), Only(e[1], c))
           f == [u \in Tokens |-> Only(e[1], c)[u] - h[u]]
           z == Pos(d, "close", "perp", None)
<1>5. c \in Int  OBVIOUS
<1>6. x \in PositionChange /\ x.op = "close" /\ x.id = "perp"  BY DEF PositionChange, PositionIds
<1>7. Moves(s, a, Plus(NoFlow, Only(e[1], e[2])), <<>>)  BY <1>0, MovesNothing, MovesCredit
<1>8. Moves(s, d, g, <<>>)
  <2> HIDE DEF a
  <2>. QED  BY <1>0, <1>5, <1>7, MovesSettle
<1>9. Moves(s, z, g, <<x>>)
  <2> HIDE DEF d, g
  <2>1. Moves(s, z, g, Append(<<>>, x))  BY <1>6, <1>8, MovesPos
  <2>2. Append(<<>>, x) = <<x>>  OBVIOUS
  <2>. QED  BY <2>1, <2>2
<1>10. r = Lossy("perp_close", z, Only(e[1], c), h)  BY <1>2
<1>11. /\ g \in [Tokens -> Int] /\ f \in [Tokens -> Int]
       /\ \A u \in Tokens : /\ g[u] = (IF u = e[1] THEN e[2] ELSE 0) + (IF u = e[1] THEN c ELSE 0)
                            /\ f[u] = (IF u = e[1] THEN c ELSE 0) - SumOf(Tail(p.coll), u)
  <2>1. g \in [Tokens -> Int]  BY <1>9 DEF Moves
  <2>2. f \in [Tokens -> Int]
    <3>1. Only(e[1], c) \in [Tokens -> Int]  BY <1>0, <1>5, FlowTypes
    <3>2. \A u \in Tokens : Only(e[1], c)[u] - h[u] \in Int  BY <1>4, <3>1
    <3>. QED  BY <3>2
  <2>3. ASSUME NEW u \in Tokens
        PROVE  /\ g[u] = (IF u = e[1] THEN e[2] ELSE 0) + (IF u = e[1] THEN c ELSE 0)
               /\ f[u] = (IF u = e[1] THEN c ELSE 0) - SumOf(Tail(p.coll), u)
    <3>1. g[u] = NoFlow[u] + Only(e[1], e[2])[u] + Only(e[1], c)[u] /\ f[u] = Only(e[1], c)[u] - h[u]  BY PlusIs
    <3>2. NoFlow[u] = 0 /\ Only(e[1], e[2])[u] = (IF u = e[1] THEN e[2] ELSE 0) /\ Only(e[1], c)[u] = IF u = e[1] THEN c ELSE 0
      BY PlusIs
    <3>3. h[u] = SumOf(Tail(p.coll), u) /\ SumOf(Tail(p.coll), u) \in Int  BY <1>1, <1>4
    <3> HIDE DEF p, g, f
    <3>. QED  BY <1>0, <1>5, <3>1, <3>2, <3>3
  <2>. QED  BY <2>1, <2>2, <2>3
<1> DEFINE y == NewPos(s.pos, x)
<1>12. s.pos \in [PositionIds -> Seq(Bodies)] /\ {"loan", "perp"} \subseteq PositionIds /\ s.pos["perp"] # <<>>
       /\ s.pos["loan"] \in Seq(Account)
  BY PerpIs, WalletPos DEF Wallets, PositionIds
<1> HIDE DEF a, d, g, f, z, x, p
<1>13. ~NoPos(s.pos, x) /\ y["perp"] = <<>> /\ y["loan"] = s.pos["loan"]  BY <1>6, <1>12 DEF NoPos, NewPos
<1> HIDE DEF y
<1>14. ASSUME NEW u \in Tokens PROVE Locked(y, u) + g[u] = Locked(s.pos, u) + f[u]
  <2>1. Locked(y, u) = 0 + Net(s.pos["loan"], u)  BY <1>13 DEF Locked, Mar
  <2>2. Locked(s.pos, u) = SumOf(p.coll, u) + Net(s.pos["loan"], u)  BY PerpIs DEF Locked, p
  <2>3. Net(s.pos["loan"], u) \in Int  BY WalletPos, LockedType
  <2> DEFINE w == SumOf(Tail(p.coll), u)
             q == Net(s.pos["loan"], u)
  <2>4. w \in Int /\ q \in Int /\ SumOf(p.coll, u) = w + (IF e[1] = u THEN e[2] ELSE 0)  BY <1>1, <1>3, <2>3
  <2>5. g[u] = (IF u = e[1] THEN e[2] ELSE 0) + (IF u = e[1] THEN c ELSE 0) /\ f[u] = (IF u = e[1] THEN c ELSE 0) - w  BY <1>11
  <2>6. Locked(y, u) = 0 + q /\ Locked(s.pos, u) = w + (IF e[1] = u THEN e[2] ELSE 0) + q  BY <2>1, <2>2, <2>4
  <2> HIDE DEF w, q
  <2>. QED  BY <1>0, <1>5, <2>4, <2>5, <2>6
<1>15. Good(s, Out("perp_close", z, f))  BY <1>6, <1>9, <1>11, <1>13, <1>14, GoodPos DEF y
<1>16. Only(e[1], c) \in [Tokens -> Int] /\ \A u \in Tokens : f[u] = Only(e[1], c)[u] - h[u]
  BY <1>0, <1>5, FlowTypes DEF f
<1>17. Good(s, Lossy("perp_close", z, Only(e[1], c), h))  BY <1>4, <1>15, <1>16, GoodLossy
<1>. QED  BY <1>10, <1>17

-----------------------------------------------------------------------------
(* Airdrops, sales and the Hyperliquid account: their bodies count for nothing *)

LEMMA UncountedGood ==
  ASSUME NEW s \in Wallets, OneEach(s), NEW d, NEW g, Moves(s, d, g, <<>>), NEW op, NEW id \in {"sale", "drop", "hl"}, NEW b,
         [op |-> op, id |-> id, body |-> b] \in PositionChange,
         op # "open" => Has(s, id), op = "open" /\ id # "drop" => ~Has(s, id), NEW k
  PROVE  Good(s, Out(k, Pos(d, op, id, b), g))
<1> DEFINE c == [op |-> op, id |-> id, body |-> b]
           z == Pos(d, op, id, b)
<1>1. Moves(s, z, g, Append(<<>>, c))  BY MovesPos
<1>2. Append(<<>>, c) = <<c>> /\ c \in PositionChange /\ c.op = op /\ c.id = id  OBVIOUS
<1>3. ~NoPos(s.pos, c) /\ (c.op = "open" /\ c.id # "drop" => s.pos[c.id] = <<>>) /\ c.id \in {"sale", "drop", "hl"}
  BY <1>2 DEF NoPos, Has
<1> HIDE DEF c, z
<1>4. Moves(s, z, g, <<c>>)  BY <1>1, <1>2
<1>5. Good(s, Out(k, z, g))  BY <1>2, <1>3, <1>4, GoodUncounted
<1>. QED  BY <1>5 DEF z

LEMMA CreditMoves ==
  ASSUME NEW s \in Wallets, NEW t \in Tokens, NEW n \in Nat
  PROVE  Moves(s, Credit(s, Nothing, t, n), Only(t, n), <<>>)
<1>1. Moves(s, Credit(s, Nothing, t, n), Plus(NoFlow, Only(t, n)), <<>>)  BY MovesNothing, MovesCredit
<1>2. n \in Int  OBVIOUS
<1>3. Plus(NoFlow, Only(t, n)) = Only(t, n)  BY <1>2, PlusIs, FlowTypes
<1>. QED  BY <1>1, <1>3

LEMMA ChangeIs ==
  /\ \A b \in SaleBody, op \in {"open", "update"} : [op |-> op, id |-> "sale", body |-> b] \in PositionChange
  /\ \A b \in DropBody, op \in {"open", "update"} : [op |-> op, id |-> "drop", body |-> b] \in PositionChange
  /\ \A b \in HlBody, op \in {"open", "update"} : [op |-> op, id |-> "hl", body |-> b] \in PositionChange
  /\ [op |-> "close", id |-> "sale", body |-> None] \in PositionChange
BY DEF PositionChange, PositionIds, Bodies, BodyOf

LEMMA SaleIs ==
  ASSUME NEW s \in Wallets, Has(s, "sale")
  PROVE  /\ Sale(s) \in SaleBody /\ Sale(s).paid \in Seq(Entry) /\ Sale(s).paid # <<>> /\ Sale(s).paid \in Entries
         /\ Sale(s).paid[1] \in Entry /\ Sale(s).paid[1][1] \in Coins /\ Sale(s).paid[1][2] \in Nat
         /\ Sale(s).token \in Coins /\ Sale(s).claimed \in Nat
<1>1. s.pos["sale"] \in Seq(SaleBody) /\ s.pos["sale"] # <<>>  BY WalletPos DEF Has
<1>2. Sale(s) \in SaleBody  BY <1>1 DEF Sale, Body
<1>3. /\ Sale(s).paid \in Seq(Entry) /\ Sale(s).paid # <<>> /\ Sale(s).paid \in Entries
      /\ Sale(s).token \in Coins /\ Sale(s).claimed \in Nat
  BY <1>2 DEF SaleBody, Entries, Entry
<1>4. Sale(s).paid[1] \in Entry  BY <1>3
<1>5. Sale(s).paid[1][1] \in Coins /\ Sale(s).paid[1][2] \in Nat  BY <1>4 DEF Entry
<1>. QED  BY <1>2, <1>3, <1>4, <1>5

LEMMA AirdropGood == ASSUME NEW s \in Wallets, OneEach(s), NEW r \in Airdrop(s) PROVE Good(s, r)
<1>1. PICK t \in Coins, n \in Amounts :
        r = Out("airdrop", Pos(Credit(s, Nothing, t, n), "open", "drop", [amount |-> n]), Only(t, n))
  BY DEF Airdrop
<1> DEFINE b == [amount |-> n]
           op == "open"
           id == "drop"
<1>2. t \in Tokens /\ n \in Nat  BY Numbers
<1>3. b \in DropBody  BY <1>2 DEF DropBody
<1>4. [op |-> op, id |-> id, body |-> b] \in PositionChange /\ op = "open" /\ id = "drop"  BY <1>3, ChangeIs
<1>5. Moves(s, Credit(s, Nothing, t, n), Only(t, n), <<>>)  BY <1>2, CreditMoves
<1> HIDE DEF b, op, id
<1>6. id \in {"sale", "drop", "hl"}  BY <1>4
<1>7. Good(s, Out("airdrop", Pos(Credit(s, Nothing, t, n), op, id, b), Only(t, n)))  BY <1>4, <1>5, <1>6, UncountedGood
<1>. QED  BY <1>1, <1>7 DEF b, op, id

\* A sale is updated, opened or closed.
LEMMA SaleGood ==
  ASSUME NEW s \in Wallets, OneEach(s), NEW d, NEW g, Moves(s, d, g, <<>>), NEW k, NEW b, NEW op,
         \/ op = "open" /\ ~Has(s, "sale") /\ b \in SaleBody
         \/ op = "update" /\ Has(s, "sale") /\ b \in SaleBody
         \/ op = "close" /\ Has(s, "sale") /\ b = None
  PROVE  Good(s, Out(k, Pos(d, op, "sale", b), g))
<1> DEFINE id == "sale"
<1>1. [op |-> op, id |-> id, body |-> b] \in PositionChange  BY ChangeIs
<1>2. id \in {"sale", "drop", "hl"} /\ (op # "open" => Has(s, id)) /\ (op = "open" /\ id # "drop" => ~Has(s, id))  OBVIOUS
<1> HIDE DEF id
<1>3. Good(s, Out(k, Pos(d, op, id, b), g))  BY <1>1, <1>2, UncountedGood
<1>. QED  BY <1>3 DEF id

LEMMA CommitGood == ASSUME NEW s \in Wallets, OneEach(s), NEW r \in Commit(s) PROVE Good(s, r)
<1> DEFINE op == IF Has(s, "sale") THEN "update" ELSE "open"
<1>1. PICK t \in Coins, n \in Amounts, v \in BOOLEAN :
        r = Out("commit", Pos(Debit(s, Nothing, t, n), op, "sale", Committed(s, t, n, v)), Only(t, -n))
  BY DEF Commit
<1>2. t \in Tokens /\ n \in Nat  BY Numbers
<1>3. Moves(s, Debit(s, Nothing, t, n), Only(t, -n), <<>>)  BY <1>2, PairMoves
<1> DEFINE b == Committed(s, t, n, v)
<1>4. b \in SaleBody
  <2>1. CASE Has(s, "sale")
    <3> DEFINE p == Sale(s)
               c == Coalesce(p.paid, t, n)
    <3>1. p \in SaleBody /\ p.paid \in Entries  BY <2>1, SaleIs
    <3>2. b = [p EXCEPT !.paid = Coalesce(@, t, n)]  BY <2>1 DEF Committed
    <3> HIDE DEF p, b
    <3>3. c \in Entries  BY <1>2, <3>1, CoalesceIs
    <3>4. b = [p EXCEPT !.paid = c]  BY <3>1, <3>2 DEF SaleBody
    <3> HIDE DEF c
    <3>. QED  BY <3>1, <3>3, <3>4 DEF SaleBody
  <2>2. CASE ~Has(s, "sale")
    <3> DEFINE e == <<t, n>>
               es == <<e>>
    <3>1. b = [paid |-> es, token |-> t, claimed |-> 0, vest |-> v]  BY <2>2 DEF Committed
    <3>2. e \in Entry  BY <1>2 DEF Entry
    <3> HIDE DEF e, b
    <3>3. es \in Entries  BY <3>2 DEF Entries, Entry
    <3> HIDE DEF es
    <3>. QED  BY <3>1, <3>3 DEF SaleBody
  <2>. QED  BY <2>1, <2>2
<1>5. (op = "open" /\ ~Has(s, "sale")) \/ (op = "update" /\ Has(s, "sale"))  OBVIOUS
<1> HIDE DEF b, op
<1>6. Good(s, Out("commit", Pos(Debit(s, Nothing, t, n), op, "sale", b), Only(t, -n)))  BY <1>3, <1>4, <1>5, SaleGood
<1>. QED  BY <1>1, <1>6 DEF b

LEMMA AllocationGood ==
  ASSUME NEW s \in Wallets, OneEach(s), Has(s, "sale"), NEW r \in ClaimAllocation(s) PROVE Good(s, r)
<1>1. PICK t \in Coins, n \in Amounts, m \in {0, 1} :
        r = Out("claim_allocation", Pos(Allocation(s, t, n, m), "update", "sale", Claimed(s, t, n)),
                Plus(Only(t, n), Only(Payer(s), m)))
  BY DEF ClaimAllocation
<1> DEFINE p == Sale(s)
           u == Payer(s)
           a == Credit(s, Nothing, t, n)
           d == Allocation(s, t, n, m)
           b == Claimed(s, t, n)
           g == Plus(Only(t, n), Only(u, m))
           op == "update"
<1>2. t \in Tokens /\ n \in Nat /\ n \in Int /\ u \in Tokens /\ m \in Nat /\ m \in Int  BY SaleIs, Numbers DEF Payer
<1>3. b \in SaleBody
  <2>1. p \in SaleBody /\ b = IF p.vest THEN [p EXCEPT !.token = t] ELSE [p EXCEPT !.token = t, !.claimed = n]  BY SaleIs DEF Claimed
  <2> HIDE DEF p, b
  <2>. QED  BY <1>2, <2>1 DEF SaleBody
<1>4. Moves(s, a, Only(t, n), <<>>)  BY <1>2, CreditMoves
<1> HIDE DEF u
<1>5. Moves(s, d, g, <<>>)
  <2>1. d = Rider(s, a, u, m)  BY DEF Allocation, u
  <2> HIDE DEF d, a
  <2>2. Moves(s, Rider(s, a, u, m), Plus(Only(t, n), Only(u, m)), <<>>)  BY <1>2, <1>4, RiderMoves
  <2>. QED  BY <2>1, <2>2
<1>6. r = Out("claim_allocation", Pos(d, op, "sale", b), g) /\ op = "update"
  <2>1. r = Out("claim_allocation", Pos(Allocation(s, t, n, m), op, "sale", Claimed(s, t, n)), Plus(Only(t, n), Only(u, m))) /\ op = "update"
    BY <1>1 DEF u
  <2>. QED  BY <2>1
<1> HIDE DEF d, b, g, op
<1>7. Good(s, Out("claim_allocation", Pos(d, op, "sale", b), g))  BY <1>3, <1>5, <1>6, SaleGood
<1>. QED  BY <1>6, <1>7

LEMMA VestedGood ==
  ASSUME NEW s \in Wallets, OneEach(s), Has(s, "sale"), NEW r \in ClaimVested(s) PROVE Good(s, r)
<1> DEFINE p == Sale(s)
           t == Sale(s).token
<1>1. PICK n \in Amounts :
        r = Out("claim_vested", Pos(Credit(s, Nothing, t, n), "update", "sale", [p EXCEPT !.claimed = @ + n]), Only(t, n))
  BY DEF ClaimVested
<1> DEFINE b == [p EXCEPT !.claimed = @ + n]
           op == "update"
<1>2. p \in SaleBody /\ p.claimed \in Nat /\ t \in Tokens /\ n \in Nat  BY SaleIs, Numbers
<1> HIDE DEF p, t
<1>3. b \in SaleBody  BY <1>2 DEF SaleBody
<1>4. Moves(s, Credit(s, Nothing, t, n), Only(t, n), <<>>)  BY <1>2, CreditMoves
<1>5. r = Out("claim_vested", Pos(Credit(s, Nothing, t, n), op, "sale", b), Only(t, n)) /\ op = "update"  BY <1>1
<1> HIDE DEF b, op
<1>6. Good(s, Out("claim_vested", Pos(Credit(s, Nothing, t, n), op, "sale", b), Only(t, n)))  BY <1>3, <1>4, <1>5, SaleGood
<1>. QED  BY <1>5, <1>6

LEMMA RefundGood == ASSUME NEW s \in Wallets, OneEach(s), NEW r \in Refund(s) PROVE Good(s, r)
<1>1. PICK t \in Coins, n \in Amounts :
        r = Out("refund", IF Has(s, "sale") THEN Pos(Credit(s, Nothing, t, n), "close", "sale", None) ELSE Credit(s, Nothing, t, n), Only(t, n))
  BY DEF Refund
<1>2. t \in Tokens /\ n \in Nat  BY Numbers
<1>3. Moves(s, Credit(s, Nothing, t, n), Only(t, n), <<>>)  BY <1>2, CreditMoves
<1>4. CASE Has(s, "sale")
  <2> DEFINE op == "close"
  <2>1. op = "close"  OBVIOUS
  <2> HIDE DEF op
  <2>2. Good(s, Out("refund", Pos(Credit(s, Nothing, t, n), op, "sale", None), Only(t, n)))  BY <1>3, <1>4, <2>1, SaleGood
  <2>. QED  BY <1>1, <1>4, <2>1, <2>2
<1>5. CASE ~Has(s, "sale")  BY <1>1, <1>3, <1>5, GoodPlain
<1>. QED  BY <1>4, <1>5

LEMMA WithdrawCommitGood ==
  ASSUME NEW s \in Wallets, OneEach(s), Has(s, "sale"), NEW r \in WithdrawCommit(s) PROVE Good(s, r)
<1> DEFINE p == Sale(s)
           e == Sale(s).paid[1]
           V(n) == <<e[1], IF n > e[2] THEN 0 ELSE e[2] - n>>
           b(n) == [p EXCEPT !.paid[1] = V(n)]
<1>1. PICK n \in Amounts :
        \/ r = Out("withdraw_commit", Pos(Credit(s, Nothing, e[1], n), "close", "sale", None), Only(e[1], n))
        \/ r = Out("withdraw_commit", Pos(Credit(s, Nothing, e[1], n), "update", "sale", b(n)), Only(e[1], n))
  BY DEF WithdrawCommit
<1>2. /\ p \in SaleBody /\ p.paid \in Seq(Entry) /\ p.paid # <<>> /\ e[1] \in Coins /\ e[2] \in Nat
      /\ e[1] \in Tokens /\ n \in Nat
  BY SaleIs, Numbers
<1> DEFINE v == V(n)
           c == b(n)
           es == [p.paid EXCEPT ![1] = v]
<1>3. v \in Entry
  <2> HIDE DEF e
  <2>. QED  BY <1>2 DEF Entry
<1>4. c = [p EXCEPT !.paid[1] = v]  OBVIOUS
<1> HIDE DEF v, c
<1>5. es \in Seq(Entry) /\ es # <<>> /\ c = [p EXCEPT !.paid = es]
  <2> HIDE DEF p
  <2>1. 1 \in 1 .. Len(p.paid) /\ DOMAIN p.paid = 1 .. Len(p.paid)  BY <1>2
  <2>2. es \in Seq(Entry)  BY <1>2, <1>3, <2>1
  <2>3. 1 \in DOMAIN es /\ 1 \notin DOMAIN <<>>  BY <2>1
  <2>4. c = [p EXCEPT !.paid = es]  BY <1>2, <1>4 DEF SaleBody
  <2>. QED  BY <2>2, <2>3, <2>4
<1>6. c \in SaleBody
  <2>1. es \in Entries  BY <1>5 DEF Entries, Entry
  <2> HIDE DEF es, p
  <2>. QED  BY <1>2, <1>5, <2>1 DEF SaleBody
<1> HIDE DEF e, es, p
<1>7. Moves(s, Credit(s, Nothing, e[1], n), Only(e[1], n), <<>>)  BY <1>2, CreditMoves
<1> DEFINE d == Credit(s, Nothing, e[1], n)
           g == Only(e[1], n)
           cl == "close"
           up == "update"
<1>8. cl = "close" /\ up = "update" /\ Moves(s, d, g, <<>>)  BY <1>7
<1>9. \/ r = Out("withdraw_commit", Pos(d, cl, "sale", None), g)
      \/ r = Out("withdraw_commit", Pos(d, up, "sale", c), g)
  BY <1>1 DEF c
<1> HIDE DEF d, g, cl, up
<1>10. Good(s, Out("withdraw_commit", Pos(d, cl, "sale", None), g))  BY <1>8, SaleGood
<1>11. Good(s, Out("withdraw_commit", Pos(d, up, "sale", c), g))  BY <1>6, <1>8, SaleGood
<1>. QED  BY <1>9, <1>10, <1>11

LEMMA OutflowGood == ASSUME NEW s \in Wallets, OneEach(s), NEW r \in Outflow(s) PROVE Good(s, r)
<1> DEFINE a == Body(s, "hl")
           id == "hl"
           op == IF Has(s, "hl") THEN "update" ELSE "open"
           b(n) == IF ~Has(s, "hl") THEN [usdc |-> None, out |-> n]
                   ELSE IF a.usdc = None THEN [a EXCEPT !.out = @ + n] ELSE [usdc |-> a.usdc - n, out |-> a.out + n]
<1>1. PICK n \in Amounts :
        \/ r = Out("outflow", Err, NoFlow)
        \/ (Has(s, "hl") => a.usdc = None \/ ~(a.usdc < n)) /\ r = Out("outflow", Pos(Nothing, op, id, b(n)), NoFlow)
  BY DEF Outflow, Open
<1> DEFINE c == b(n)
<1>2. n \in Nat  BY Numbers
<1>3. (Has(s, "hl") => a.usdc = None \/ ~(a.usdc < n)) => c \in HlBody
  <2>1. CASE ~Has(s, "hl")  BY <1>2, <2>1 DEF HlBody, Opt
  <2>2. CASE Has(s, "hl")
    <3>1. a \in HlBody  BY <2>2, WalletPos DEF Has, Body
    <3>2. c = IF a.usdc = None THEN [a EXCEPT !.out = @ + n] ELSE [usdc |-> a.usdc - n, out |-> a.out + n]  BY <2>2
    <3> HIDE DEF a, c
    <3>. QED  BY <1>2, <2>2, <3>1, <3>2 DEF HlBody, Opt
  <2>. QED  BY <2>1, <2>2
<1>4. op \in {"open", "update"} /\ (op = "open" <=> ~Has(s, id)) /\ id = "hl" /\ id \in {"sale", "drop", "hl"}  OBVIOUS
<1> HIDE DEF a, op, id, b, c
<1>5. CASE r = Out("outflow", Err, NoFlow)  BY <1>5, GoodErr
<1>6. CASE (Has(s, "hl") => a.usdc = None \/ ~(a.usdc < n)) /\ r = Out("outflow", Pos(Nothing, op, id, b(n)), NoFlow)
  <2>1. c \in HlBody  BY <1>3, <1>6
  <2>2. [op |-> op, id |-> id, body |-> c] \in PositionChange  BY <1>4, <2>1, ChangeIs
  <2>3. Good(s, Out("outflow", Pos(Nothing, op, id, c), NoFlow))  BY <1>4, <2>2, MovesNothing, UncountedGood
  <2>. QED  BY <1>6, <2>3 DEF c
<1>. QED  BY <1>1, <1>5, <1>6

-----------------------------------------------------------------------------
(* evaluate and apply_multicall                                              *)

LEMMA AllGood == ASSUME NEW s \in Wallets, OneEach(s), NEW r \in Reductions(s) PROVE Good(s, r)
<1>1. CASE r \in {Rejected} \cup Approve \cup Permit2Approve \cup SignPermit \cup SignPermit2 \cup Transfer(s) \cup Revoke \cup NftActions(s)
                 \cup Inert \cup Delegate \cup Collect(s) \cup SignOrder \cup EndOrder \cup PlaceOrder \cup CancelOrder
  BY <1>1, TokenGood
<1>2. CASE r \in Supply(s)  BY <1>2, SupplyGood
<1>3. CASE r \in Withdraw(s) \cup Borrow(s) \cup Repay(s) \cup SwapRateMode(s) \cup SetCollateral(s)  BY <1>3, LoanGood
<1>4. CASE r \in SetEMode(s)  BY <1>4, EModeGood
<1>5. CASE r \in Liquidate(s) \cup Swap(s)  BY <1>5, SwapGood
<1>6. CASE r \in AggregatorSwap(s)  BY <1>6, BundledGood
<1>7. CASE r \in AddLiquidity(s)  BY <1>7, AddGood
<1>8. CASE r \in RemoveLiquidity(s)  BY <1>8, RemoveGood
<1>9. CASE r \in PerpOpen(s)  BY <1>9, PerpOpenGood
<1>10. CASE r \in PerpActions(s)
  <2>1. Has(s, "perp") /\ r \in PerpIncrease(s) \cup PerpDecrease(s) \cup PerpClose(s) \cup AdjustMargin(s) \cup ChangeLeverage(s)
    BY <1>10 DEF PerpActions
  <2>. QED  BY <2>1, PerpIncreaseGood, PerpDecreaseGood, PerpCloseGood, MarginGood, LeverageGood
<1>11. CASE r \in Airdrop(s)  BY <1>11, AirdropGood
<1>12. CASE r \in Commit(s)  BY <1>12, CommitGood
<1>13. CASE r \in SaleActions(s)
  <2>1. Has(s, "sale") /\ r \in ClaimAllocation(s) \cup ClaimVested(s) \cup WithdrawCommit(s)  BY <1>13 DEF SaleActions
  <2>. QED  BY <2>1, AllocationGood, VestedGood, WithdrawCommitGood
<1>14. CASE r \in Refund(s)  BY <1>14, RefundGood
<1>15. CASE r \in Outflow(s)  BY <1>15, OutflowGood
<1>. QED
  BY <1>1, <1>2, <1>3, <1>4, <1>5, <1>6, <1>7, <1>8, <1>9, <1>10, <1>11, <1>12, <1>13, <1>14, <1>15 DEF Reductions

\* Applying the outcome of an action to a wallet: an error, or a wallet that
\* keeps what the invariant says.
LEMMA Reduced ==
  ASSUME NEW s \in Wallets, OneEach(s), NEW r \in Reductions(s)
  PROVE  /\ Refused(s, r) \subseteq Queued
         /\ Applied(s, r.delta) # Err =>
              /\ r.delta \in Deltas /\ r.flow \in [Tokens -> Int] /\ r.lost \in [Tokens -> Nat]
              /\ Applied(s, r.delta) = ApplyDelta(s, r.delta)
              /\ ApplyDelta(s, r.delta) \in Wallets /\ OneEach(ApplyDelta(s, r.delta))
              /\ \A t \in Tokens : Worth(ApplyDelta(s, r.delta), t) = Worth(s, t) + r.flow[t] - r.lost[t]
<1>1. Good(s, r)  BY AllGood
<1>2. Refused(s, r) \subseteq Queued  BY <1>1 DEF Refused, Applied, Good
<1>3. ASSUME Applied(s, r.delta) # Err
      PROVE  /\ r.delta \in Deltas /\ r.flow \in [Tokens -> Int] /\ r.lost \in [Tokens -> Nat]
              /\ Applied(s, r.delta) = ApplyDelta(s, r.delta)
             /\ ApplyDelta(s, r.delta) \in Wallets /\ OneEach(ApplyDelta(s, r.delta))
             /\ \A t \in Tokens : Worth(ApplyDelta(s, r.delta), t) = Worth(s, t) + r.flow[t] - r.lost[t]
  <2>1. r.delta # Err /\ Applied(s, r.delta) = ApplyDelta(s, r.delta) /\ ApplyDelta(s, r.delta) # Err  BY <1>3 DEF Applied
  <2>2. /\ r.delta \in Deltas /\ r.flow \in [Tokens -> Int] /\ r.lost \in [Tokens -> Nat] /\ OneEach(ApplyDelta(s, r.delta))
        /\ \A t \in Tokens : Worth(ApplyDelta(s, r.delta), t) = Worth(s, t) + r.flow[t] - r.lost[t]
    BY <1>1, <2>1 DEF Good
  <2>3. ApplyDelta(s, r.delta) \in Wallets  BY <2>1, <2>2, DeltaResult DEF Results
  <2>. QED  BY <2>1, <2>2, <2>3
<1>. QED  BY <1>2, <1>3

LEMMA WalletType ==
  ASSUME NEW l \in Seq(Account), NEW h \in Seq(HlBody), Len(l) <= 1, Len(h) <= 1, NEW p \in SUBSET Coins
  PROVE  Wallet(l, h, p) \in Wallets /\ OneEach(Wallet(l, h, p))
<1> DEFINE w == Wallet(l, h, p)
           y == [id \in PositionIds |-> IF id = "loan" THEN l ELSE IF id = "hl" THEN h ELSE <<>>]
<1>1. ASSUME NEW id \in PositionIds PROVE y[id] \in Seq(BodyOf(id)) /\ Len(y[id]) <= 1
  <2>1. \A S : <<>> \in Seq(S)  OBVIOUS
  <2>2. Len(<<>>) <= 1  OBVIOUS
  <2>3. CASE id = "loan"  BY <2>3 DEF BodyOf
  <2>4. CASE id = "hl"  BY <2>4 DEF BodyOf
  <2>5. CASE id # "loan" /\ id # "hl"
    <3>1. y[id] = <<>>  BY <2>5
    <3>. QED  BY <2>1, <2>2, <3>1
  <2>. QED  BY <2>3, <2>4, <2>5
<1>2. y \in [PositionIds -> Seq(Bodies)]
  <2>1. \A id \in PositionIds : Seq(BodyOf(id)) \subseteq Seq(Bodies)  BY BodyIn
  <2>2. \A id \in PositionIds : y[id] \in Seq(Bodies)  BY <1>1, <2>1
  <2>3. y = [id \in PositionIds |-> y[id]]  OBVIOUS
  <2> HIDE DEF y
  <2>. QED  BY <2>2, <2>3
<1>3. w = [held |-> [t \in Tokens |-> IF t \in Coins THEN Funds ELSE None],
           nft |-> TRUE, nftTo |-> None, all |-> FALSE, erc20 |-> [t \in Coins |-> None], permit2 |-> p,
           pos |-> y, pending |-> <<>>]
  BY DEF Wallet
<1> HIDE DEF y, w
<1>4. w \in Wallets  BY <1>1, <1>2, <1>3, ReducerAssumption DEF Wallets, Opt
<1>5. OneEach(w)  BY <1>1, <1>3 DEF OneEach
<1>. QED  BY <1>4, <1>5 DEF w

LEMMA ReducerInit == Init => ReducerInv
<1> SUFFICES ASSUME Init PROVE ReducerInv  OBVIOUS
<1> DEFINE b == [NewAccount EXCEPT !.coll = [t \in Coins |-> 2]]
           h == [usdc |-> 1, out |-> 0]
<1>1. b \in Account
  <2>1. [t \in Coins |-> 2] \in [Coins -> Opt(Nat)]  BY DEF Opt
  <2>. QED  BY <2>1, NewAccountIs DEF Account
<1>2. h \in HlBody  BY DEF HlBody, Opt
<1> HIDE DEF b, h
<1>3. before \in Wallets /\ OneEach(before)
  <2>1. <<b>> \in Seq(Account) /\ <<h>> \in Seq(HlBody) /\ Len(<<b>>) = 1 /\ Len(<<h>>) = 1  BY <1>1, <1>2
  <2>2. <<>> \in Seq(Account) /\ <<>> \in Seq(HlBody) /\ Len(<<>>) = 0  OBVIOUS
  <2>3. before = Wallet(<<>>, <<>>, {}) \/ before = Wallet(<<b>>, <<h>>, Coins)  BY DEF Init, b, h
  <2>4. Wallet(<<>>, <<>>, {}) \in Wallets /\ OneEach(Wallet(<<>>, <<>>, {}))
    <3> DEFINE l == <<>>
               k == <<>>
               p == {}
    <3>1. l \in Seq(Account) /\ k \in Seq(HlBody) /\ p \in SUBSET Coins /\ Len(l) <= 1 /\ Len(k) <= 1  BY <2>2
    <3> HIDE DEF l, k, p
    <3>2. Wallet(l, k, p) \in Wallets /\ OneEach(Wallet(l, k, p))  BY <3>1, WalletType
    <3>. QED  BY <3>2 DEF l, k, p
  <2>5. Wallet(<<b>>, <<h>>, Coins) \in Wallets /\ OneEach(Wallet(<<b>>, <<h>>, Coins))
    <3> DEFINE l == <<b>>
               k == <<h>>
               p == Coins
    <3>1. l \in Seq(Account) /\ k \in Seq(HlBody) /\ p \in SUBSET Coins /\ Len(l) <= 1 /\ Len(k) <= 1  BY <2>1
    <3> HIDE DEF l, k, p
    <3>2. Wallet(l, k, p) \in Wallets /\ OneEach(Wallet(l, k, p))  BY <3>1, WalletType
    <3>. QED  BY <3>2 DEF l, k, p
  <2>. QED  BY <2>3, <2>4, <2>5
<1>4. state = before /\ deltas = <<>> /\ pc = "ready" /\ actions = 0 /\ flow = NoFlow /\ multiflow = NoFlow
      /\ lost = NoFlow /\ multilost = NoFlow /\ refused = {}
  BY DEF Init
<1>5. TypeOK
  <2>1. <<>> \in Seq(Deltas) /\ 0 \in 0 .. MaxActions  BY ReducerAssumption
  <2>. QED  BY <1>3, <1>4, <2>1, FlowTypes DEF TypeOK
<1>6. DeltasExplainState
  <2>1. Del!Fold(None, before, <<>>) = before  BY Del!FoldEmpty
  <2>. QED  BY <1>4, <2>1, DeltaFold DEF DeltasExplainState
<1>7. Conserved
  <2>1. ASSUME NEW t \in Tokens PROVE Worth(before, t) = Worth(before, t) + NoFlow[t] - NoFlow[t]
    <3>1. Worth(before, t) \in Int /\ NoFlow[t] = 0  BY <1>3, WorthInt, PlusIs
    <3>. QED  BY <3>1
  <2>. QED  BY <1>4, <2>1 DEF Conserved
<1>. QED  BY <1>3, <1>4, <1>5, <1>6, <1>7 DEF ReducerInv, MergedIsSequential, ReducedApplies, OnePerId

\* A step that keeps the delta d, which brings the wallet to w.
LEMMA KeepInv ==
  ASSUME ReducerInv, NEW d \in Deltas, NEW f \in [Tokens -> Int], NEW l \in [Tokens -> Nat], NEW w \in Wallets,
         Applied(state, d) = w, ApplyDelta(state, d) = w, OneEach(w),
         \A t \in Tokens : Worth(w, t) = Worth(state, t) + f[t] - l[t], Keep(d, f, l), before' = before,
         refused' \subseteq Queued, multiflow' = multiflow, multilost' = multilost, actions' \in 0 .. MaxActions
  PROVE  ReducerInv'
<1>1. /\ state' = w /\ deltas' = Append(deltas, d) /\ flow' = Plus(flow, f) /\ lost' = Plus(lost, l) /\ pc' = "ready"
  BY DEF Keep
<1>2. /\ before \in Wallets /\ state \in Wallets /\ deltas \in Seq(Deltas)
      /\ flow \in [Tokens -> Int] /\ multiflow \in [Tokens -> Int]
      /\ lost \in [Tokens -> Nat] /\ multilost \in [Tokens -> Nat]
  BY DEF ReducerInv, TypeOK
<1>3. TypeOK'
  <2>1. Append(deltas, d) \in Seq(Deltas)  BY <1>2
  <2>2. Plus(flow, f) \in [Tokens -> Int] /\ Plus(lost, l) \in [Tokens -> Nat]  BY <1>2, FlowTypes
  <2>. QED  BY <1>1, <1>2, <2>1, <2>2 DEF TypeOK
<1>4. DeltasExplainState'
  <2>1. Del!Fold(None, before, Append(deltas, d)) = ApplyDelta(Del!Fold(None, before, deltas), d)
    BY <1>2, Del!FoldAppend DEF DeltaStep
  <2>2. FoldLeft(ApplyDelta, before, deltas) = state  BY DEF ReducerInv, DeltasExplainState
  <2>3. Del!Fold(None, before, deltas) = state  BY <2>2, DeltaFold
  <2>4. Del!Fold(None, before', deltas') = state'  BY <1>1, <2>1, <2>3
  <2>5. FoldLeft(ApplyDelta, before', deltas') = state'  BY <2>4, DeltaFold
  <2>. QED  BY <2>5 DEF DeltasExplainState
<1>5. Conserved'
  <2>1. ASSUME NEW t \in Tokens PROVE Worth(w, t) = Worth(before, t) + Plus(flow, f)[t] - Plus(lost, l)[t]
    <3>1. /\ Worth(before, t) \in Int /\ Worth(state, t) \in Int /\ flow[t] \in Int /\ f[t] \in Int
          /\ lost[t] \in Int /\ l[t] \in Int
      BY <1>2, WorthInt
    <3>2. Worth(state, t) = Worth(before, t) + flow[t] - lost[t]  BY DEF ReducerInv, Conserved
    <3>3. Plus(flow, f)[t] = flow[t] + f[t] /\ Plus(lost, l)[t] = lost[t] + l[t]  BY PlusIs
    <3>4. Worth(w, t) = Worth(state, t) + f[t] - l[t]  OBVIOUS
    <3>. QED  BY <3>1, <3>2, <3>3, <3>4
  <2>2. \A t \in Tokens : Worth(state', t) = Worth(before', t) + flow'[t] - lost'[t]  BY <1>1, <2>1
  <2>. QED  BY <1>1, <2>2 DEF Conserved, Worth, Margin, Collateral, Debt, Has, Body
<1>6. OnePerId'  BY <1>1 DEF OnePerId, OneEach
<1>7. ReducedApplies'  BY DEF ReducedApplies, Queued
<1>. QED  BY <1>1, <1>3, <1>4, <1>5, <1>6, <1>7 DEF ReducerInv, MergedIsSequential

\* A step that stops at an error.
LEMMA StopInv ==
  ASSUME ReducerInv, Stop, before' = before, refused' \subseteq Queued, multiflow' = multiflow, multilost' = multilost,
         actions' \in 0 .. MaxActions
  PROVE  ReducerInv'
<1>1. state' = state /\ deltas' = deltas /\ flow' = flow /\ lost' = lost /\ pc' = "stopped"  BY DEF Stop
<1>2. TypeOK'  BY <1>1 DEF ReducerInv, TypeOK
<1>3. DeltasExplainState'
  <2>1. FoldLeft(ApplyDelta, before, deltas) = state  BY DEF ReducerInv, DeltasExplainState
  <2>2. Del!Fold(None, before', deltas') = state'  BY <1>1, <2>1, DeltaFold
  <2>3. FoldLeft(ApplyDelta, before', deltas') = state'  BY <2>2, DeltaFold
  <2>. QED  BY <2>3 DEF DeltasExplainState
<1>4. Conserved'
  <2>1. \A t \in Tokens : Worth(state', t) = Worth(before', t) + flow'[t] - lost'[t]  BY <1>1 DEF ReducerInv, Conserved
  <2>. QED  BY <1>1, <2>1 DEF Conserved, Worth, Margin, Collateral, Debt, Has, Body
<1>5. OnePerId'  BY <1>1 DEF ReducerInv, OnePerId, OneEach
<1>6. ReducedApplies'  BY DEF ReducedApplies, Queued
<1>. QED  BY <1>1, <1>2, <1>3, <1>4, <1>5, <1>6 DEF ReducerInv, MergedIsSequential

\* An outcome r of an action in wallet s, refused or not.
LEMMA RefusedKept ==
  ASSUME ReducerInv, NEW s \in Wallets, OneEach(s), NEW r \in Reductions(s), refused' = refused \cup Refused(s, r)
  PROVE  refused' \subseteq Queued
BY Reduced DEF ReducerInv, ReducedApplies, Queued

LEMMA EnvelopeInv ==
  ASSUME ReducerInv, NEW r \in Reductions(state), Envelope(r) PROVE ReducerInv'
<1>1. /\ pc = "ready" /\ actions < MaxActions /\ actions' = actions + 1
      /\ IF Applied(state, r.delta) = Err THEN Stop ELSE Keep(r.delta, r.flow, r.lost)
      /\ refused' = refused \cup Refused(state, r) /\ before' = before /\ multiflow' = multiflow /\ multilost' = multilost
  BY DEF Envelope
<1>2. state \in Wallets /\ OneEach(state) /\ actions \in 0 .. MaxActions  BY DEF ReducerInv, TypeOK, OnePerId
<1>3. refused' \subseteq Queued  BY <1>1, <1>2, RefusedKept
<1>4. actions' \in 0 .. MaxActions  BY <1>1, <1>2, ReducerAssumption
<1>5. CASE Applied(state, r.delta) = Err  BY <1>1, <1>3, <1>4, <1>5, StopInv
<1>6. CASE Applied(state, r.delta) # Err
  <2> DEFINE d == r.delta
             f == r.flow
             l == r.lost
             w == ApplyDelta(state, d)
  <2>1. /\ d \in Deltas /\ f \in [Tokens -> Int] /\ l \in [Tokens -> Nat]
        /\ Applied(state, d) = w /\ w \in Wallets /\ OneEach(w)
        /\ \A t \in Tokens : Worth(w, t) = Worth(state, t) + f[t] - l[t]
    BY <1>2, <1>6, Reduced
  <2>2. Keep(d, f, l)  BY <1>1, <1>6
  <2>3. PICK e \in Deltas, g \in [Tokens -> Int], h \in [Tokens -> Nat], v \in Wallets : e = d /\ g = f /\ h = l /\ v = w
    <3> HIDE DEF d, f, l, w
    <3>. QED  BY <2>1
  <2>4. Keep(e, g, h)
    <3> HIDE DEF d, f, l
    <3>. QED  BY <2>2, <2>3
  <2>5. /\ Applied(state, e) = v /\ ApplyDelta(state, e) = v /\ OneEach(v)
        /\ \A t \in Tokens : Worth(v, t) = Worth(state, t) + g[t] - h[t]
    <3>1. w = ApplyDelta(state, d)  OBVIOUS
    <3> HIDE DEF d, f, l, w
    <3>. QED  BY <2>1, <2>3, <3>1
  <2>. QED  BY <1>1, <1>3, <1>4, <2>4, <2>5, KeepInv
<1>. QED  BY <1>5, <1>6

LEMMA BeginInv == ASSUME ReducerInv, BeginMulticall PROVE ReducerInv'
<1>1. /\ actions < MaxActions /\ actions' = actions + 1 /\ pc' = "multicall" /\ current' = state /\ merged' = Nothing
      /\ multiflow' = NoFlow /\ multilost' = NoFlow /\ before' = before /\ state' = state /\ deltas' = deltas
      /\ flow' = flow /\ lost' = lost /\ refused' = refused
  BY DEF BeginMulticall
<1>2. state \in Wallets /\ OneEach(state) /\ actions \in 0 .. MaxActions  BY DEF ReducerInv, TypeOK, OnePerId
<1>3. Nothing \in Deltas  BY DEF Nothing, Deltas
<1>4. TypeOK'  BY <1>1, <1>2, <1>3, FlowTypes, ReducerAssumption DEF ReducerInv, TypeOK
<1>5. MergedIsSequential'
  <2>1. ApplyDelta(state, Nothing) = state
    <3>1. Nothing.tokens = <<>> /\ Nothing.positions = <<>> /\ Nothing.pending = <<>>  BY DEF Nothing
    <3>2. AllTokens(state, <<>>) = state /\ AllPositions(state, <<>>) = state /\ AllPending(state, <<>>) = state
      BY Tok!FoldEmpty, Posn!FoldEmpty, Pend!FoldEmpty DEF AllTokens, AllPositions, AllPending
    <3>. QED  BY <3>1, <3>2, ApplyDeltaFolds
  <2>2. ApplyDelta(state', merged') = current'  BY <1>1, <2>1
  <2>. QED  BY <2>2, ApplyDeltaFolds DEF MergedIsSequential
<1>6. DeltasExplainState'
  <2>1. FoldLeft(ApplyDelta, before, deltas) = state  BY DEF ReducerInv, DeltasExplainState
  <2>2. Del!Fold(None, before', deltas') = state'  BY <1>1, <2>1, DeltaFold
  <2>3. FoldLeft(ApplyDelta, before', deltas') = state'  BY <2>2, DeltaFold
  <2>. QED  BY <2>3 DEF DeltasExplainState
<1>7. Conserved'
  <2>1. \A t \in Tokens : Worth(state', t) = Worth(before', t) + flow'[t] - lost'[t]  BY <1>1 DEF ReducerInv, Conserved
  <2>2. ASSUME NEW t \in Tokens PROVE Worth(state, t) = Worth(state, t) + NoFlow[t] - NoFlow[t]
    <3>1. Worth(state, t) \in Int /\ NoFlow[t] = 0  BY <1>2, WorthInt, PlusIs
    <3>. QED  BY <3>1
  <2>3. \A t \in Tokens : Worth(current', t) = Worth(state', t) + multiflow'[t] - multilost'[t]  BY <1>1, <2>2
  <2>. QED  BY <2>1, <2>3 DEF Conserved, Worth, Margin, Collateral, Debt, Has, Body
<1>8. OnePerId' /\ OneEach(current)'  BY <1>1, <1>2 DEF OnePerId, OneEach
<1>9. ReducedApplies'  BY <1>1 DEF ReducerInv, ReducedApplies
<1>. QED  BY <1>4, <1>5, <1>6, <1>7, <1>8, <1>9 DEF ReducerInv

LEMMA ChildInv ==
  ASSUME ReducerInv, pc = "multicall", NEW r \in Reductions(current), Child(r) PROVE ReducerInv'
<1>1. /\ actions < MaxActions /\ actions' = actions + 1
      /\ refused' = refused \cup Refused(current, r) /\ before' = before
  BY DEF Child
<1>2. /\ state \in Wallets /\ OneEach(current) /\ current \in Wallets /\ merged \in Deltas /\ actions \in 0 .. MaxActions
      /\ multiflow \in [Tokens -> Int] /\ multilost \in [Tokens -> Nat] /\ ApplyDelta(state, merged) = current
  BY DEF ReducerInv, TypeOK, MergedIsSequential
<1>3. refused' \subseteq Queued  BY <1>1, <1>2, RefusedKept
<1>4. actions' \in 0 .. MaxActions  BY <1>1, <1>2, ReducerAssumption
<1>5. CASE Applied(current, r.delta) = Err
  <2>1. Stop /\ multiflow' = multiflow /\ multilost' = multilost  BY <1>5 DEF Child
  <2>. QED  BY <1>1, <1>3, <1>4, <2>1, StopInv
<1>6. CASE Applied(current, r.delta) # Err
  <2> DEFINE d == r.delta
             f == r.flow
             l == r.lost
             w == ApplyDelta(current, d)
  <2>1. /\ d \in Deltas /\ f \in [Tokens -> Int] /\ l \in [Tokens -> Nat]
        /\ Applied(current, d) = w /\ w \in Wallets /\ OneEach(w)
        /\ \A t \in Tokens : Worth(w, t) = Worth(current, t) + f[t] - l[t]
    BY <1>2, <1>6, Reduced
  <2>2. /\ current' = w /\ merged' = MergeDelta(merged, d)
        /\ multiflow' = Plus(multiflow, f) /\ multilost' = Plus(multilost, l)
        /\ pc' = "multicall" /\ state' = state /\ deltas' = deltas /\ flow' = flow /\ lost' = lost
    BY <1>6, <2>1 DEF Child
  <2>3. MergeDelta(merged, d) \in Deltas /\ ApplyDelta(state, MergeDelta(merged, d)) = w
    <3>1. state \in Results  BY <1>2 DEF Results
    <3> HIDE DEF d
    <3>2. MergeDelta(merged, d) \in Deltas /\ ApplyDelta(state, MergeDelta(merged, d)) = ApplyDelta(ApplyDelta(state, merged), d)
      BY <1>2, <2>1, <3>1, MergeApplies
    <3>. QED  BY <1>2, <3>2
  <2> HIDE DEF d, f, l, w
  <2>4. Plus(multiflow, f) \in [Tokens -> Int] /\ Plus(multilost, l) \in [Tokens -> Nat]  BY <1>2, <2>1, FlowTypes
  <2>5. TypeOK'  BY <1>1, <1>4, <2>1, <2>2, <2>3, <2>4 DEF ReducerInv, TypeOK
  <2>6. MergedIsSequential'
    <3>1. ApplyDelta(state', merged') = current'  BY <2>2, <2>3
    <3>. QED  BY <3>1, ApplyDeltaFolds DEF MergedIsSequential
  <2>7. DeltasExplainState'
    <3>1. FoldLeft(ApplyDelta, before, deltas) = state  BY DEF ReducerInv, DeltasExplainState
    <3>2. Del!Fold(None, before', deltas') = state'  BY <1>1, <2>2, <3>1, DeltaFold
    <3>3. FoldLeft(ApplyDelta, before', deltas') = state'  BY <3>2, DeltaFold
    <3>. QED  BY <3>3 DEF DeltasExplainState
  <2>8. Conserved'
    <3>1. \A t \in Tokens : Worth(state', t) = Worth(before', t) + flow'[t] - lost'[t]  BY <1>1, <2>2 DEF ReducerInv, Conserved
    <3>2. ASSUME NEW t \in Tokens PROVE Worth(w, t) = Worth(state, t) + Plus(multiflow, f)[t] - Plus(multilost, l)[t]
      <4>1. /\ Worth(state, t) \in Int /\ Worth(current, t) \in Int /\ multiflow[t] \in Int /\ f[t] \in Int
            /\ multilost[t] \in Int /\ l[t] \in Int
        BY <1>2, <2>1, WorthInt
      <4>2. Worth(current, t) = Worth(state, t) + multiflow[t] - multilost[t]  BY DEF ReducerInv, Conserved
      <4>3. /\ Plus(multiflow, f)[t] = multiflow[t] + f[t] /\ Plus(multilost, l)[t] = multilost[t] + l[t]
            /\ Worth(w, t) = Worth(current, t) + f[t] - l[t]
        BY <2>1, PlusIs
      <4>. QED  BY <4>1, <4>2, <4>3
    <3>3. \A t \in Tokens : Worth(current', t) = Worth(state', t) + multiflow'[t] - multilost'[t]  BY <2>2, <3>2
    <3>. QED  BY <3>1, <3>3 DEF Conserved, Worth, Margin, Collateral, Debt, Has, Body
  <2>9. OnePerId' /\ OneEach(current)'  BY <2>1, <2>2 DEF ReducerInv, OnePerId, OneEach
  <2>10. ReducedApplies'  BY <1>3 DEF ReducedApplies, Queued
  <2>. QED  BY <2>5, <2>6, <2>7, <2>8, <2>9, <2>10 DEF ReducerInv
<1>. QED  BY <1>5, <1>6

LEMMA EndInv == ASSUME ReducerInv, EndMulticall PROVE ReducerInv'
<1>1. /\ pc = "multicall" /\ IF Applied(state, merged) = Err THEN Stop ELSE Keep(merged, multiflow, multilost)
      /\ refused' = refused \cup Refused(state, Out("multicall", merged, multiflow))
      /\ before' = before /\ actions' = actions /\ multiflow' = multiflow /\ multilost' = multilost
  BY DEF EndMulticall
<1>2. /\ state \in Wallets /\ OneEach(current) /\ current \in Wallets /\ merged \in Deltas /\ actions \in 0 .. MaxActions
      /\ multiflow \in [Tokens -> Int] /\ multilost \in [Tokens -> Nat] /\ ApplyDelta(state, merged) = current
      /\ \A t \in Tokens : Worth(current, t) = Worth(state, t) + multiflow[t] - multilost[t]
  BY <1>1 DEF ReducerInv, TypeOK, MergedIsSequential, Conserved
<1>3. Applied(state, merged) = current /\ current # Err /\ merged # Err  BY <1>2, ErrAssumption DEF Applied
<1>4. refused' \subseteq Queued
  <2>1. Refused(state, Out("multicall", merged, multiflow)) = {}  BY <1>3, OutIs DEF Refused
  <2>. QED  BY <1>1, <2>1 DEF ReducerInv, ReducedApplies, Queued
<1>5. Keep(merged, multiflow, multilost) /\ actions' \in 0 .. MaxActions  BY <1>1, <1>2, <1>3
<1>6. PICK e \in Deltas, g \in [Tokens -> Int], h \in [Tokens -> Nat], v \in Wallets :
        e = merged /\ g = multiflow /\ h = multilost /\ v = current
  BY <1>2
<1>7. Keep(e, g, h) /\ Applied(state, e) = v /\ ApplyDelta(state, e) = v /\ OneEach(v)
      /\ \A t \in Tokens : Worth(v, t) = Worth(state, t) + g[t] - h[t]
  BY <1>2, <1>3, <1>5, <1>6
<1>. QED  BY <1>1, <1>4, <1>5, <1>7, KeepInv

LEMMA UnchangedInv == ASSUME ReducerInv, UNCHANGED vars PROVE ReducerInv'
<1>1. /\ before' = before /\ state' = state /\ deltas' = deltas /\ pc' = pc /\ current' = current /\ merged' = merged
      /\ actions' = actions /\ flow' = flow /\ lost' = lost /\ multiflow' = multiflow /\ multilost' = multilost
      /\ refused' = refused
  BY DEF vars
<1>2. TypeOK' /\ ReducedApplies' /\ OnePerId' /\ (pc' = "multicall" => OneEach(current)')
  BY <1>1 DEF ReducerInv, TypeOK, ReducedApplies, OnePerId, OneEach
<1>3. MergedIsSequential'
  <2>1. pc' = "multicall" => ApplyDelta(state', merged') = current'  BY <1>1 DEF ReducerInv, MergedIsSequential
  <2>. QED  BY <2>1, ApplyDeltaFolds DEF MergedIsSequential
<1>4. DeltasExplainState'
  <2>1. FoldLeft(ApplyDelta, before, deltas) = state  BY DEF ReducerInv, DeltasExplainState
  <2>2. Del!Fold(None, before', deltas') = state'  BY <1>1, <2>1, DeltaFold
  <2>3. FoldLeft(ApplyDelta, before', deltas') = state'  BY <2>2, DeltaFold
  <2>. QED  BY <2>3 DEF DeltasExplainState
<1>5. Conserved'
  <2>1. /\ \A t \in Tokens : Worth(state', t) = Worth(before', t) + flow'[t] - lost'[t]
        /\ pc' = "multicall" => \A t \in Tokens : Worth(current', t) = Worth(state', t) + multiflow'[t] - multilost'[t]
    BY <1>1 DEF ReducerInv, Conserved
  <2>. QED  BY <2>1 DEF Conserved, Worth, Margin, Collateral, Debt, Has, Body
<1>. QED  BY <1>2, <1>3, <1>4, <1>5 DEF ReducerInv

LEMMA ReducerNext == ReducerInv /\ [Next]_vars => ReducerInv'
<1> SUFFICES ASSUME ReducerInv, [Next]_vars PROVE ReducerInv'  OBVIOUS
<1>1. CASE pc = "ready" /\ \E r \in Reductions(state) : Envelope(r)  BY <1>1, EnvelopeInv
<1>2. CASE BeginMulticall  BY <1>2, BeginInv
<1>3. CASE pc = "multicall" /\ \E r \in Reductions(current) : Child(r)  BY <1>3, ChildInv
<1>4. CASE EndMulticall  BY <1>4, EndInv
<1>5. CASE UNCHANGED vars  BY <1>5, UnchangedInv
<1>. QED  BY <1>1, <1>2, <1>3, <1>4, <1>5 DEF Next

LEMMA ReducerInvariant == Spec => []ReducerInv
BY ReducerInit, ReducerNext, PTL DEF Spec

-----------------------------------------------------------------------------
(* The theorems                                                              *)

\* Amounts of the wallet never go below zero (held tokens, collateral, debt,
\* margins, sums paid and claimed), every position keeps the shape its reducers
\* expect, and every queued change is well formed, however many actions and
\* multicalls a request carries.
THEOREM ReducerTypes == Spec => []TypeOK
<1>1. ReducerInv => TypeOK  BY DEF ReducerInv
<1>. QED  BY <1>1, ReducerInvariant, PTL

\* apply_multicall: the merged delta of the children, applied once to the wallet,
\* leads exactly where applying child after child to the copy led.
THEOREM MergeIsSequential == Spec => []MergedIsSequential
<1>1. ReducerInv => MergedIsSequential  BY DEF ReducerInv
<1>. QED  BY <1>1, ReducerInvariant, PTL

\* evaluate: folding the answered deltas over state_before gives state_after, at
\* every moment and also after an error.
THEOREM DeltasExplain == Spec => []DeltasExplainState
<1>1. ReducerInv => DeltasExplainState  BY DEF ReducerInv
<1>. QED  BY <1>1, ReducerInvariant, PTL

\* Whatever a reducer returns, apply_delta accepts; the exceptions are the NFT
\* transfer and approval, the two cancellations and the delegation of a borrow
\* (of the native coin), queued without a look.
THEOREM DeltasApply == Spec => []ReducedApplies
<1>1. ReducerInv => ReducedApplies  BY DEF ReducerInv
<1>. QED  BY <1>1, ReducerInvariant, PTL

\* Held tokens, margins, collateral and debt together move by what counterparties
\* gave and took, less what a disabled collateral, a closed perp's further
\* collateral and a first ineligible supply drop, for every number of coins and
\* every amount: no other reducer, and no multicall, makes or loses tokens.
THEOREM WorthConserved == Spec => []Conserved
<1>1. ReducerInv => Conserved  BY DEF ReducerInv
<1>. QED  BY <1>1, ReducerInvariant, PTL

\* open_position is never let through twice: one loan, perp, sale and Hyperliquid
\* account, also across the copies of a multicall.
THEOREM PositionsOnce == Spec => []OnePerId
<1>1. ReducerInv => OnePerId  BY DEF ReducerInv
<1>. QED  BY <1>1, ReducerInvariant, PTL
====
