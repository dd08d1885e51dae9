--------------------------- MODULE ServiceConstants --------------------------
(***************************************************************************)
(* What a service operation is: where it runs, which there are, what they  *)
(* are asked with.                                                         *)
(***************************************************************************)
CONSTANTS
    Slots,      \* run directories
    NoSlot,
    LongOps,    \* the operations made of legs, which look for the cancel file
    QuickOps,   \* the others
    Arguments,  \* what a request may carry
    NoArgument

ASSUME SlotsAssumption == NoSlot \notin Slots /\ NoArgument \notin Arguments

Ops == LongOps \cup QuickOps
==============================================================================
