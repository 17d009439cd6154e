--------------------------- MODULE MCRunLifecycle ---------------------------
(***************************************************************************)
(* Instances of RunLifecycle for TLC.                                      *)
(***************************************************************************)
EXTENDS RunLifecycle, TLC

CONSTANTS r1, r2, ip, mqtt, key1, user1, planA, planB

Submit(key, job, dry, resources, plan, initiator, parent, relation) ==
    [key |-> key, job |-> job, dry |-> dry, resources |-> resources, plan |-> plan,
     initiator |-> initiator, parent |-> parent, relation |-> relation]

\* Overlapping resources, one retry key used for two different bodies.
SlotRequests ==
    {Submit(key1, "udmi_validation", FALSE, {mqtt}, planA, Null, Null, "none"),
     Submit(key1, "udmi_validation", FALSE, {ip, mqtt}, planA, Null, Null, "none"),
     Submit(Null, "ip_discovery", TRUE, {ip}, planA, Null, Null, "none")}

\* A preview and live runs of a named engineer, of its plan and of another one,
\* the retry of the first run and the expansion of it as a succeeded discovery.
LineageRequests ==
    {Submit(Null, "bacnet_discovery", TRUE, {ip}, planA, user1, Null, "none"),
     Submit(Null, "bacnet_discovery", FALSE, {ip}, planA, user1, Null, "none"),
     Submit(Null, "bacnet_discovery", FALSE, {ip}, planB, user1, Null, "none"),
     Submit(Null, "bacnet_discovery", FALSE, {}, planA, user1, r1, "retry"),
     Submit(Null, "bacnet_discovery", FALSE, {}, planA, user1, r1, "property_expansion")}

WindowsOf == {<<0, 2>>, <<1, 3>>}
NoWindows == {<<0, 1>>}

TokenSymmetry == Permutations(Tokens)
RunTokenSymmetry == Permutations(Runs) \cup Permutations(Tokens)
=============================================================================
