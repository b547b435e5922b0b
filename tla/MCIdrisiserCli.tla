---------------------------- MODULE MCIdrisiserCli ----------------------------
(***************************************************************************)
(* Two commands at once, the template of init, and a manifest that         *)
(* validate refuses; the default output directory and one of the Quick     *)
(* Start of the README.                                                    *)
(***************************************************************************)
EXTENDS IdrisiserCli

CONSTANTS p1, p2

MCCmds      == {p1, p2}
MCTemplate  == [name |-> "my-project", valid |-> TRUE]
MCManifests == {MCTemplate, [name |-> "", valid |-> FALSE]}
MCOutputs   == {BuildDir, <<"generated", "my-api">>}
================================================================================
