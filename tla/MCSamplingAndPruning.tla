------------------------ MODULE MCSamplingAndPruning ------------------------
(***************************************************************************)
(* Instances of SamplingAndPruning for TLC.                                *)
(***************************************************************************)
EXTENDS SamplingAndPruning, TLC

\* CIDs are only ever compared for equality.
CidSymmetry == Permutations(Cids)

\* A behaviour has a restart, or a loss of all peers and a reinserted head.
FaultsApart == restarts = 0 \/ disconnects + reinserts = 0
=============================================================================
