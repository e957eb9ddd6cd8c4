-------------------------- MODULE MCPythonBridges ----------------------------
(* Small instances of PythonBridges: both bridges, or JAX alone. *)
EXTENDS PythonBridges
==============================================================================
