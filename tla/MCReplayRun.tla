---------------------------- MODULE MCReplayRun ----------------------------
(* Instances of ReplayRun for TLC. *)
EXTENDS ReplayRun, TLC

Conf(b, e) == [batch |-> b, onError |-> e]

OneBatch   == {Conf(2, "continue"), Conf(2, "abort")}
TwoBatches == {Conf(1, "continue"), Conf(2, "continue")}
Continue   == {Conf(1, "continue")}

CallerSymmetry == Permutations(Callers)
============================================================================
