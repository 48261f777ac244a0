---------------------------- MODULE PolicyOps ----------------------------
(***************************************************************************)
(* The documents of the policy store (ps2:<uid>:library and :wallets) and  *)
(* what each operation makes of them.  A policy definition is told apart   *)
(* by what decides whether it is bound and evaluated: its source, whether  *)
(* new wallets get it, its required hole, the wallet that owns it and its  *)
(* package.  Names, folders of templates and Cedar text are left out.      *)
(***************************************************************************)
EXTENDS Naturals, FiniteSets, Bags

CONSTANTS Baked, Others,  \* ids of built-in definitions, and of all others
          Pkgs, Uncat,    \* packages; pkg::uncategorized
          BuiltinPkg,
          Wallets,
          Designs,        \* definitions a user may save or install
          Public, Nowhere, None, Err,
          MaxBindings     \* bound: bindings of one wallet

DefIds == Baked \cup Others
Blank  == Uncat         \* no defaults.packageId

Def     == [source : {"builtin", "mine", "market"}, on : BOOLEAN, hole : {"none", "filled", "blank"},
            home : Wallets \cup {Public, Nowhere}, pkg : Pkgs]
\* fresh: the definition has not been replaced since the holes were checked.
Binding == [def : DefIds, pkg : Pkgs, on : BOOLEAN, filled : BOOLEAN, fresh : BOOLEAN]

ASSUME StoreAssumption ==
  /\ Baked \cap Others = {} /\ {Uncat, BuiltinPkg} \subseteq Pkgs /\ Designs \subseteq Def
  /\ Public \notin Wallets /\ Nowhere \notin Wallets /\ Public # Nowhere
  /\ None \notin Def /\ MaxBindings \in Nat

\* known are the wallets in the document; walletAt reads the others as new ones.
NewWallet == [bindings |-> EmptyBag, pkgs |-> {}, off |-> {}]
EmptyStore == [defs |-> [d \in DefIds |-> None], pkgs |-> {Uncat},
               known |-> {}, wallets |-> [w \in Wallets |-> NewWallet], rev |-> 0]

Registered(s, w) == w \in s.known
Bound(s, w)      == BagToSet(s.wallets[w].bindings)
Holders(s, d)    == {w \in Wallets : \E b \in Bound(s, w) : b.def = d}
Named(bs)        == {b.pkg : b \in bs} \ {Uncat}
Library(s)       == {d \in DefIds : s.defs[d] # None}

\* missingRequiredHoles
Missing(def, filled) == def.hole = "blank" /\ ~filled

-----------------------------------------------------------------------------
(* Reading: normalizeWallets, normalizeHiddenDefs                            *)

Normal(s) ==
  [s EXCEPT !.wallets = [w \in Wallets |-> [@[w] EXCEPT !.pkgs = s.wallets[w].pkgs \cup Named(Bound(s, w))]],
            !.defs = [d \in DefIds |-> IF @[d] = None \/ @[d].home # Nowhere \/ Holders(s, d) = {} THEN @[d]
                        ELSE [@[d] EXCEPT !.home = CHOOSE w \in Holders(s, d) : TRUE]]]

\* validate
Valid(s) ==
  /\ Uncat \in s.pkgs
  /\ \A w \in Wallets : \A b \in Bound(s, w) :
       s.defs[b.def] # None /\ (b.pkg = Uncat \/ b.pkg \in s.wallets[w].pkgs)

-----------------------------------------------------------------------------
(* Operations: each is the store after fn(draft), or Err when fn throws      *)

\* The bindings of every wallet w, changed to rows[w].
Rebound(s, rows) == [s EXCEPT !.wallets = [w \in Wallets |-> [@[w] EXCEPT !.bindings = rows[w]]]]

Dropping(bag, S) == [b \in BagToSet(bag) \ S |-> bag[b]]

\* The fresh bindings of d are no longer fresh.
Stale(b) == [b EXCEPT !.fresh = FALSE]
Aged(bag, d) ==
  LET S == {b \in BagToSet(bag) : b.def = d /\ b.fresh}
  IN  Dropping(bag, S) (+) [c \in {Stale(b) : b \in S} |-> bag[[c EXCEPT !.fresh = TRUE]]]
Outdated(s, d) == Rebound(s, [w \in Wallets |-> Aged(s.wallets[w].bindings, d)])

\* The bindings of d lose the value of its hole.
Unfilled(b) == [b EXCEPT !.filled = FALSE]
Emptied(bag, d) ==
  LET S == {b \in BagToSet(bag) : b.def = d /\ b.filled}
  IN  Dropping(bag, S) (+) [c \in {Unfilled(b) : b \in S} |-> bag[[c EXCEPT !.filled = TRUE]]]
Cleared(s, d) == Rebound(s, [w \in Wallets |-> Emptied(s.wallets[w].bindings, d)])

PutDef(s, d, def) == [Outdated(s, d) EXCEPT !.defs[d] = def]

\* A deletion that forgets the bindings.
DeleteDefAlone(s, d) == [s EXCEPT !.defs[d] = None]
DeleteDef(s, d) ==
  [Rebound(s, [w \in Wallets |-> Dropping(s.wallets[w].bindings, {b \in Bound(s, w) : b.def = d})])
     EXCEPT !.defs[d] = None]

DuplicateDef(s, d, new) ==
  IF s.defs[d] = None THEN Err ELSE [s EXCEPT !.defs[new] = [s.defs[d] EXCEPT !.source = "mine"]]

PutPackage(s, p) == [s EXCEPT !.pkgs = @ \cup {p}]

\* A deletion that also takes the package, with its members, from the wallets.
DeletePackageEverywhere(s, p) ==
  IF p = Uncat THEN Err
  ELSE [s EXCEPT !.pkgs = @ \ {p},
                 !.wallets = [w \in Wallets |->
                    [@[w] EXCEPT !.bindings = Dropping(s.wallets[w].bindings, {b \in Bound(s, w) : b.pkg = p})]]]
\* One that leaves the definitions without any package.
DeletePackageLoosely(s, p) ==
  IF p = Uncat THEN Err
  ELSE [s EXCEPT !.pkgs = @ \ {p},
                 !.defs = [d \in DefIds |-> IF @[d] # None /\ @[d].pkg = p THEN [@[d] EXCEPT !.pkg = None] ELSE @[d]]]
DeletePackage(s, p) ==
  IF p = Uncat THEN Err
  ELSE [s EXCEPT !.pkgs = @ \ {p},
                 !.defs = [d \in DefIds |-> IF @[d] # None /\ @[d].pkg = p THEN [@[d] EXCEPT !.pkg = Blank] ELSE @[d]]]

\* walletAt without a change: putWalletFolder; removeWalletFolder arranges templates only.
PutWalletFolder(s, w) == [s EXCEPT !.known = @ \cup {w}]
PutWalletPackage(s, w, p) ==
  IF p = Uncat THEN Err ELSE [s EXCEPT !.known = @ \cup {w}, !.wallets[w].pkgs = @ \cup {p}]
SetPackageEnabled(s, w, p, on) ==
  [s EXCEPT !.known = @ \cup {w}, !.wallets[w].off = IF on THEN @ \ {p} ELSE @ \cup {p}]

\* pruneHiddenDefs: a hidden definition without a registered home becomes public.
Pruned(s) ==
  [s EXCEPT !.defs = [d \in DefIds |-> IF @[d] = None \/ @[d].home = Public THEN @[d]
     ELSE IF @[d].home # Nowhere /\ Registered(s, @[d].home) THEN @[d] ELSE [@[d] EXCEPT !.home = Public]]]

RemovePackage(s, w, p) ==
  IF ~Registered(s, w) THEN s
  ELSE Pruned([s EXCEPT !.wallets[w] = [bindings |-> Dropping(@.bindings, {b \in Bound(s, w) : b.pkg = p}),
                                        pkgs |-> @.pkgs \ {p}, off |-> @.off \ {p}]])

OneLess(bag, b) == bag (-) SetToBag({b})
RemoveBinding(s, w, b) == Pruned([s EXCEPT !.wallets[w].bindings = OneLess(@, b)])

\* New rows of a wallet, and the packages they name (ensureWalletPackage).
Added(e, rows) == [e EXCEPT !.bindings = @ (+) SetToBag(rows), !.pkgs = @ \cup Named(rows)]
WithRows(s, ws, rows) ==
  [s EXCEPT !.known = @ \cup ws,
            !.wallets = [w \in Wallets |-> IF w \in ws THEN Added(@[w], rows) ELSE @[w]]]

Row(d, p, on, filled) == [def |-> d, pkg |-> p, on |-> on, filled |-> filled, fresh |-> TRUE]

Bind(s, ws, d, p, filled, on) ==
  IF s.defs[d] # None /\ Missing(s.defs[d], filled) THEN Err
  ELSE WithRows(s, ws, {Row(d, p, on, filled)})

Patched(s, w, b, c) == [s EXCEPT !.wallets[w].bindings = OneLess(@, b) (+) SetToBag({c})]
\* updateBinding: the patch of params checks the holes again, the others do not.
PatchParams(s, w, b, filled) ==
  IF Missing(s.defs[b.def], filled) THEN Err ELSE Patched(s, w, b, [b EXCEPT !.filled = filled, !.fresh = TRUE])

\* The rows a new wallet gets: defaults.enabled, not hidden, no blank left.  One
\* slip: the blanks not looked at.
DefaultsBlindly(s) == {d \in Library(s) : s.defs[d].on /\ s.defs[d].home = Public}
Defaults(s) == {d \in Library(s) : s.defs[d].on /\ s.defs[d].home = Public /\ ~Missing(s.defs[d], FALSE)}
\* params of the new row repeat defaults.params.
Provision(s, ws) ==
  WithRows(s, {w \in ws : ~Registered(s, w)},
           {Row(d, s.defs[d].pkg, TRUE, s.defs[d].hole = "filled") : d \in Defaults(s)})

\* installMarket of one definition: an update drops the values of holes that are
\* gone, then the scope's wallets get a row each.  scope = {}: library-only.
InstallMarket(s, d, def, pkg, scope, filled) ==
  LET lib  == IF pkg = Uncat THEN s ELSE PutPackage(s, pkg)
      kept == IF s.defs[d] = None THEN lib
              ELSE IF def.hole = "none" THEN Cleared(Outdated(lib, d), d) ELSE Outdated(lib, d)
      new  == [kept EXCEPT !.defs[d] = [def EXCEPT !.source = "market"]]
  IN  IF scope = {} THEN new
      ELSE IF Missing(def, filled) THEN Err
      ELSE WithRows(new, scope, {Row(d, IF def.pkg = Blank THEN pkg ELSE def.pkg, TRUE, filled)})

\* ensureSeeded's mutate: got are the baked policies that could be converted.
Builtin == [source |-> "builtin", on |-> TRUE, hole |-> "none", home |-> Public, pkg |-> BuiltinPkg]
Seed(s, got) ==
  [s EXCEPT !.pkgs = @ \cup {BuiltinPkg},
            !.defs = [d \in DefIds |-> IF d \in got THEN Builtin ELSE @[d]]]

-----------------------------------------------------------------------------
(* Commands: what mutate() may be asked to do with the documents s           *)

Some(S) == SUBSET S \ {{}}

LibraryCommands(s) ==
  [op : {"putDef"}, d : DefIds, def : Designs]
  \cup [op : {"deleteDef"}, d : DefIds]
  \cup [op : {"duplicateDef"}, d : DefIds, new : Others \ Library(s)]
  \cup [op : {"putPackage", "deletePackage"}, p : Pkgs]
  \cup [op : {"installMarket"}, d : Others, def : Designs, p : Pkgs, ws : SUBSET Wallets, filled : BOOLEAN]

WalletCommands ==
  [op : {"putWalletFolder"}, w : Wallets]
  \cup [op : {"putWalletPackage", "removePackageFromWallet"}, w : Wallets, p : Pkgs]
  \cup [op : {"setPackageEnabled"}, w : Wallets, p : Pkgs, on : BOOLEAN]
  \cup [op : {"provisionWallets"}, ws : Some(Wallets)]
  \cup [op : {"bind"}, ws : Some(Wallets), d : DefIds, p : Pkgs, filled : BOOLEAN, on : BOOLEAN]

\* Commands about a row of a wallet; copyBindings takes one row or all of them.
RowCommands(s, w) ==
  [op : {"removeBinding", "toggleBinding"}, w : {w}, b : Bound(s, w)]
  \cup [op : {"patchParams"}, w : {w}, b : Bound(s, w), filled : BOOLEAN]
  \cup [op : {"patchPackage"}, w : {w}, b : Bound(s, w), p : Pkgs]
  \cup [op : {"copyBindings"}, w : {w}, to : Wallets,
         rows : {{b} : b \in Bound(s, w)} \cup {r \in {Bound(s, w)} : r # {}}]

Commands(s) == LibraryCommands(s) \cup WalletCommands \cup UNION {RowCommands(s, w) : w \in Wallets}
Seedings    == [op : {"seed"}, got : SUBSET Baked]

\* fn(draft)
Fn(s, c) ==
  CASE c.op = "putDef"           -> PutDef(s, c.d, c.def)
    [] c.op = "deleteDef"        -> DeleteDef(s, c.d)
    [] c.op = "duplicateDef"     -> DuplicateDef(s, c.d, c.new)
    [] c.op = "putPackage"       -> PutPackage(s, c.p)
    [] c.op = "deletePackage"    -> DeletePackage(s, c.p)
    [] c.op = "installMarket"    -> InstallMarket(s, c.d, c.def, c.p, c.ws, c.filled)
    [] c.op = "putWalletFolder"  -> PutWalletFolder(s, c.w)
    [] c.op = "putWalletPackage" -> PutWalletPackage(s, c.w, c.p)
    [] c.op = "removePackageFromWallet" -> RemovePackage(s, c.w, c.p)
    [] c.op = "setPackageEnabled" -> SetPackageEnabled(s, c.w, c.p, c.on)
    [] c.op = "provisionWallets" -> Provision(s, c.ws)
    [] c.op = "bind"             -> Bind(s, c.ws, c.d, c.p, c.filled, c.on)
    [] c.op = "removeBinding"    -> RemoveBinding(s, c.w, c.b)
    [] c.op = "toggleBinding"    -> Patched(s, c.w, c.b, [c.b EXCEPT !.on = ~@])
    [] c.op = "patchParams"      -> PatchParams(s, c.w, c.b, c.filled)
    [] c.op = "patchPackage"     -> Patched(s, c.w, c.b, [c.b EXCEPT !.pkg = c.p])
    [] c.op = "copyBindings"     -> WithRows(s, {c.to}, c.rows)
    [] c.op = "seed"             -> Seed(s, c.got)

Fits(s) == \A w \in Wallets : BagCardinality(s.wallets[w].bindings) <= MaxBindings

\* mutate: read, fn, validate, the next revision; Err when one of them throws.
Mutated(stored, c) ==
  LET s == Fn(Normal(stored), c)
  IN  IF s = Err THEN Err ELSE IF ~Valid(s) \/ ~Fits(s) THEN Err ELSE [s EXCEPT !.rev = @ + 1]

-----------------------------------------------------------------------------
(* Evaluation: resolveBundlesForWallet                                       *)

\* isEffectiveOn and holesOk
Effective(s, w, b) == b.on /\ b.pkg \notin s.wallets[w].off /\ ~Missing(s.defs[b.def], b.filled)

Evaluated(s, w) ==
  IF Registered(s, w) THEN {b.def : b \in {x \in Bound(s, w) : Effective(s, w, x)}}
  ELSE {d \in Library(s) : s.defs[d].on /\ ~Missing(s.defs[d], FALSE)}

-----------------------------------------------------------------------------
(* Stores to start from: none yet, or one written before wallets had         *)
(* packages of their own, with the built-in policies bound to every wallet   *)

OldStore ==
  [EmptyStore EXCEPT !.defs = [d \in DefIds |-> IF d \in Baked THEN Builtin ELSE None],
     !.pkgs = @ \cup {BuiltinPkg}, !.known = Wallets,
     !.wallets = [w \in Wallets |->
        [NewWallet EXCEPT !.bindings = SetToBag({Row(d, BuiltinPkg, TRUE, FALSE) : d \in Baked})]]]
Stores == {EmptyStore, OldStore}

\* The bound leaves room for the built-in policies.
ASSUME RoomAssumption == \A s \in Stores : Fits(s)
=============================================================================
