------------------------------- MODULE MCTabs -------------------------------
(***************************************************************************)
(* The tabs of a browser decide whose session they show; or the tab of an  *)
(* older build and one of a newer open the device's database: each         *)
(* behaviour is of one of the two, and the other rests.                    *)
(***************************************************************************)
EXTENDS MCBootSession, SchemaUpgrade

\* Two stores and four versions: the second drops an index and rewrites nothing,
\* the third rewrites both stores and the fourth the first again.
MCBuildOf == t1 :> 2 @@ t2 :> 4
MCStoreOf == [k \in Keys |-> IF k = "k3" THEN "b" ELSE "a"]
MCDeclared == [v \in 1 .. 4 |-> IF v = 1 THEN {"active", "sku"} ELSE {"sku"}]
MCDrops == [s \in 2 .. 4 |-> IF s = 2 THEN {"active"} ELSE {}]
MCRewrites == [s \in 2 .. 4 |-> CASE s = 2 -> {} [] s = 3 -> {"a", "b"} [] s = 4 -> {"a"}]

Unopened == stored = Missing /\ openings = 0
NotBooted == acts = 0 /\ changes = 0 /\ boot = [t \in Tabs |-> NewBoot(t)]

TabsInit == LinkInit /\ SchemaInit
TabsNext ==
    \/ Unopened /\ Next /\ UNCHANGED upgradeVars
    \/ NotBooted /\ SchemaNext /\ UNCHANGED vars
TabsSpec == TabsInit /\ [][TabsNext]_<<vars, upgradeVars>> /\ Fairness
=============================================================================
