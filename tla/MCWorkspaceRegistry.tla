------------------------ MODULE MCWorkspaceRegistry ------------------------
(* TLC instance of WorkspaceRegistry.                                      *)
EXTENDS WorkspaceRegistry

CONSTANTS a, b, c, x, y

\* No workspace, one, and two of which one is the default.
Registries ==
  {{},
   {[id |-> a, path |-> x, default |-> FALSE]},
   {[id |-> a, path |-> x, default |-> TRUE], [id |-> b, path |-> y, default |-> FALSE]}}
=============================================================================
