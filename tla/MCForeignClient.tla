---------------------------- MODULE MCForeignClient ----------------------------
(***************************************************************************)
(* Two clients on a heap of three blocks, two of which they may lose to    *)
(* error messages: then there is one block left for the engines of both.   *)
(***************************************************************************)
EXTENDS ForeignClient

CONSTANTS c1, c2, a1, a2, a3

MCClients       == {c1, c2}
MCAddr          == {a1, a2, a3}
MCFormatCodes   == {3, 4}
MCDerivedCounts == {0, 2}

\* The documented order, one that skips a step, and one that starts over
MCScripts == {<<"parseInterface", "generateProofs", "compileProofs", "emitWrapper">>,
              <<"getString", "compileProofs">>,
              <<"parseInterface", "generateProofs", "parseInterface", "emitWrapper">>}
================================================================================
