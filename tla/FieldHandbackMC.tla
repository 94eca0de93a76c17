-------------------------- MODULE FieldHandbackMC --------------------------
(* Small instances of FieldHandback for TLC.                               *)
EXTENDS FieldHandback, TLC

CONSTANTS a, tool, tA, tTool

ToolTokens == (a :> tA) @@ (tool :> tTool)

\* A peer that is demoted while a foreign tool takes the field and drops it.
HandbackUses == (a :> {"claim", "yield", "mutate"}) @@ (tool :> {"claim", "release"})
=============================================================================
