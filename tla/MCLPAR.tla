------------------------------- MODULE MCLPAR -------------------------------
(* Instances of LPAR: which tests run. *)
EXTENDS LPAR

CONSTANTS home, away

AllKinds == {"off", "restore", "dkgsb", "restart", "hugepage", "cec",
             "lpm", "inactive", "cross", "cold"}
=============================================================================
