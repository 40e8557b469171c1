-------------------------- MODULE MCCaptionSession --------------------------
(***************************************************************************)
(* CaptionSession for TLC: two keys, one of them bad, and a second         *)
(* translation model for the good one, so that every kind of settings      *)
(* change occurs: a new key, another model with the same key, no change.   *)
(***************************************************************************)
EXTENDS CaptionSession, TLC

CONSTANTS w1, w2

MCConfigs == {"good", "good, other model", "bad"}
MCTwoConfigs == {"good", "bad"}
MCKey(cfg) == IF cfg = "bad" THEN "bad key" ELSE "good key"
MCBadKeys == {"bad key"}

\* Which worker does a thing is not told apart by any property.
WorkerSymmetry == Permutations(Workers)
=============================================================================
