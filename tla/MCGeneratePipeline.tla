--------------------------- MODULE MCGeneratePipeline ---------------------------
(***************************************************************************)
(* Two invocations at once.  The user switches between a manifest with two *)
(* interfaces, one that drops the first of them, and an invalid one.       *)
(***************************************************************************)
EXTENDS GeneratePipeline, TLC

CONSTANTS p1, p2

MCProcs   == {p1, p2}
MCEditions == {0, 1}
MCSafe    == [n \in {"shop", "user-api", "user_api", "core"} |->
                IF n = "user-api" THEN "user_api" ELSE n]

MCSlashed == [n \in {"Shop.Api.user_api", "Shop.Api.core", "shop.user_api"} |->
                CASE n = "Shop.Api.user_api" -> "Shop/Api/user_api"
                  [] n = "Shop.Api.core"     -> "Shop/Api/core"
                  [] n = "shop.user_api"     -> "shop/user_api"]

Iface(name, source) == [name |-> name, source |-> source]

Both    == [name |-> "shop", prefix |-> <<"Shop.Api">>,
            ifaces |-> <<Iface("user-api", "core.h"), Iface("core", "core.h")>>]
One     == [name |-> "shop", prefix |-> <<"Shop.Api">>, ifaces |-> <<Iface("core", "core.h")>>]
Invalid == [name |-> "shop", prefix |-> <<>>, ifaces |-> <<Iface("core", "")>>]
MCManifests == {Both, One, Invalid}

\* Two interfaces whose names differ only in '-' and '_'
Twins == [name |-> "shop", prefix |-> <<>>,
          ifaces |-> <<Iface("user-api", "core.h"), Iface("user_api", "core.h")>>]
MCTwins == {Twins}

Symmetry == Permutations(MCProcs)
================================================================================
