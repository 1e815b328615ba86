-------------------------- MODULE BlockRefinement --------------------------
(***************************************************************************)
(* The recursive descent implements the indentation tree.                  *)
(***************************************************************************)
EXTENDS BlockBinder

(* The verdict is out when the instantiation is over. *)
Outcome ==
  IF pc # "done" THEN Pending
  ELSE IF blk.ok THEN Accepted(blk.type)
  ELSE Rejected

Tree == INSTANCE IndentTree WITH outcome <- Outcome

(***************************************************************************)
(* At every line list the verdict and the document of bind<Tree>::make are *)
(* the ones IndentTree reads off the columns of the nodes: what the        *)
(* descent rejects has no legal tree, what it accepts binds to its tree.   *)
(***************************************************************************)
ImplementsIndentTree == Tree!Spec

=============================================================================
