----------------------------- MODULE MCHubSync -----------------------------
(***************************************************************************)
(* Instances of HubSync for TLC: a report and a scan; a second edge sealed *)
(* a scan of its own under the same identifier, and both scans use a       *)
(* register that each edge imported for itself under one identifier.       *)
(***************************************************************************)
EXTENDS HubSync

CONSTANTS
    e1, e2,         \* edges
    report, scan,   \* runs
    register,       \* import
    siteA, siteB,
    k1, spare, k2   \* credentials: the keys of the edges, and a second one of e1

MCSealed == [e \in Edges |-> IF e = e1 THEN {report, scan} ELSE {scan}]
MCSiteOf == [r \in Runs |-> IF r = scan THEN siteB ELSE siteA]
MCUses == [x \in Edges \X Runs |-> IF x[2] = scan THEN {register} ELSE {}]
MCEdgeOf == [c \in Credentials |-> IF c = k2 THEN e2 ELSE e1]
MCScopes == {<<k1, siteA>>, <<k1, siteB>>, <<spare, siteB>>, <<k2, siteB>>}
MCKeyOf == [e \in Edges |-> IF e = e1 THEN k1 ELSE k2]
=============================================================================
