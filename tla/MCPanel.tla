------------------------------- MODULE MCPanel -------------------------------
(* Two levels and three run directories: the one followed, one left behind  *)
(* by a panel that closed, one being made.                                  *)
EXTENDS Panel, TLC

CONSTANTS r1, r2, r3, l1, l2

MCSlots == {r1, r2, r3}
MCLevels == {l1, l2}
MCLongOps == {"generate_layouts", "walk_level"}
MCQuickOps == {"list_templates", "list_designs", "open_design", "describe_template"}
Symmetry == Permutations(MCSlots) \cup Permutations(MCLevels)
==============================================================================
