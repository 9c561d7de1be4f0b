--------------------------- MODULE MC_DentryMount ---------------------------
(* Model-checking instance of DentryMount: two goroutines (enough for two  *)
(* renames in opposite directions, or a delete racing a mount), two        *)
(* dentries, two mount namespaces (a mount in the other namespace does not *)
(* stop a delete), at most one mount per dentry and namespace.             *)
EXTENDS DentryMount

CONSTANTS t1, t2, d1, d2, n1, n2

MCThreads == {t1, t2}
MCDentries == {d1, d2}
MCNamespaces == {n1, n2}
=============================================================================
