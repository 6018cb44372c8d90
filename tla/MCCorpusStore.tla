---------------------------- MODULE MCCorpusStore ----------------------------
(* An instance of CorpusStore for TLC.                                     *)
EXTENDS CorpusStore, TLC

CONSTANTS v1, v2, i1, i2, o1, o2, o3, b1, b2

MCVms == {v1, v2}
MCOneVm == {v1}
MCInputs == {i1, i2}
MCOneInput == {i1}
\* Two published entries and the staging directory of the loser of a race: a
\* VM makes a staging directory only for an entry that it has not seen.
MCObjects == {o1, o2, o3}
MCBuilds == {b1, b2}
Symmetric == Permutations(MCVms) \cup Permutations(MCInputs)
                 \cup Permutations(MCObjects) \cup Permutations(MCBuilds)

\* Without its directory the store is as in the beginning.
StoreStillThere == ~dirLost
=============================================================================
