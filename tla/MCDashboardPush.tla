--------------------------- MODULE MCDashboardPush ---------------------------
(***************************************************************************)
(* A small instance of DashboardPush for TLC: three breaks, so that a      *)
(* second socket's error can close a third one that is still connecting,   *)
(* whose own error comes after a fourth was made; a name is used again.    *)
(***************************************************************************)
EXTENDS DashboardPush

CONSTANTS s1, s2, s3

MCSockets == {s1, s2, s3}
=============================================================================
