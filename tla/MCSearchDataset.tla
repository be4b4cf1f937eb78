---------------------------- MODULE MCSearchDataset ----------------------------
(* SearchDataset for TLC: a configuration file has no negative numbers.      *)
EXTENDS SearchDataset

MCLimits == {-1, 0, 1, 2}
==============================================================================
