----------------------------- MODULE MCWatchRun ------------------------------
(* Instances of WatchRun for TLC. *)
EXTENDS WatchRun, TLC

On(strategy, from, max) ==
  [enabled |-> TRUE, trigger |-> [strategy |-> strategy, from |-> from, max |-> max]]
Off(h) == [h EXCEPT !.enabled = FALSE]

\* Every strategy, from the beginning and from now, with pages that are cut.
AllHooks ==
  {On("increment", f, 2) : f \in {"beginning", "now"}}
    \union {On("timestamp", f, 2) : f \in {"beginning", "now"}}
    \union {On("snapshot", f, 4) : f \in {"beginning", "now"}}

\* Edits between strategies, and one that disables the hook.
EditedHooks ==
  {On("increment", "now", 1), On("timestamp", "beginning", 2),
   Off(On("increment", "now", 1))}

LiveHooks == {On("increment", "beginning", 1), On("timestamp", "now", 3),
              On("snapshot", "now", 3)}
OnOffHooks == {On("snapshot", "now", 2), Off(On("snapshot", "now", 2))}

NowIncrement    == {On("increment", "now", 1)}
OneTimestamp    == {On("timestamp", "beginning", 1)}
PairTimestamp   == {On("timestamp", "beginning", 2)}
NarrowSnapshot  == {On("snapshot", "beginning", 2)}
TwoStrategies   == {On("increment", "beginning", 1), On("snapshot", "beginning", 2)}

KeySymmetry  == Permutations(Keys)
BothSymmetry == Permutations(Keys) \union Permutations(Callers)
==============================================================================
