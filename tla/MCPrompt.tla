------------------------------ MODULE MCPrompt ------------------------------
(***************************************************************************)
(* An instance of PromptTurn: the driver that issued the prompt, a recovery*)
(* pass, and two appliers.                                                 *)
(***************************************************************************)
EXTENDS PromptTurn

CONSTANTS Driver, Pass, A1, A2

MCCallers == {Driver, Pass}
MCPasses == {Pass}
MCAppliers == {A1, A2}

=============================================================================
