---------------------------- MODULE MCPanelManager ----------------------------
(* Windows and addresses are only compared: their permutations are symmetries. *)
EXTENDS PanelManager, TLC

Symmetry == Permutations(Panel) \cup Permutations(Data)
=============================================================================
