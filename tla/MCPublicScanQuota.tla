-------------------------- MODULE MCPublicScanQuota --------------------------
(* Small instances of PublicScanQuota: clients are interchangeable.        *)
EXTENDS PublicScanQuota, TLC

\* The three tables are independent: behaviours that use one of them at a time.
Uses(namespaces) == \E g \in granted : g.namespace \in namespaces

OneTable ==
    Cardinality({table \in {READS \union {"public-scan"}, {"authenticated"}, {"attempt"}} :
                   Uses(table)}) <= 1

Symmetry == Permutations(Clients)
=============================================================================
