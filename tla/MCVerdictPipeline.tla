------------------------- MODULE MCVerdictPipeline -------------------------
(* Small instances of VerdictPipeline for TLC. *)
EXTENDS VerdictPipeline, TLC

CONSTANTS slippage, recipient, batchSize, quote, price

\* A deny policy on each action that needs a quote and may use a price, a
\* warn policy on each action, and a warn policy on the batch as a whole.
ThreePolicies == {slippage, recipient, batchSize}
Scopes      == slippage :> "inner" @@ recipient :> "inner" @@ batchSize :> "outer"
Severities  == slippage :> "fail"  @@ recipient :> "warn"  @@ batchSize :> "warn"
TwoCalls    == {quote, price}
Needs       == slippage :> {quote, price} @@ recipient :> {} @@ batchSize :> {}

\* The lists the shipped decoders build: no action (a re-entry trampoline) or
\* one, plain, undecoded or a batch.
Shipped == { <<>>, << <<"unknown">> >>, << <<"action">> >>, << <<"batch">> >>,
             << <<"batch", "action", "action">> >>,
             << <<"batch", "action", "unknown">> >>,
             << <<"batch", "unknown", "action">> >> }
\* What the loops accept beyond that: several actions.
Several == Shipped \cup { << <<"action">>, <<"action">> >>,
             << <<"batch", "action">>, <<"unknown">>, <<"action">> >>,
             << <<"batch", "batch", "action", "unknown">>, <<"action">> >> }
=============================================================================
