------------------------- MODULE ConditionalBlocks -------------------------
(***************************************************************************)
(* What #ifdef, #ifndef, #else and #endif promise: blocks that nest, each  *)
(* with a first branch and at most one other, where a branch is live when  *)
(* it is selected and everything around it is live, and where a live block *)
(* has one live branch of the two.                                         *)
(*                                                                         *)
(* Nothing is saved and restored here, as the preprocessor does with its   *)
(* enabled flag: a block knows only whether its current branch is live.    *)
(***************************************************************************)
EXTENDS SequencesExt

VARIABLE blocks   \* the open blocks, innermost last

Block == [live : BOOLEAN, inElse : BOOLEAN]

Live(bs) == bs # <<>> => Last(bs).live

Init == blocks = <<>>

OpenBlock(selected) ==
  blocks' =
    Append(blocks, [live |-> Live(blocks) /\ selected, inElse |-> FALSE])

OtherBranch ==
  /\ blocks # <<>>
  /\ ~Last(blocks).inElse
  /\ blocks' =
       Append(Front(blocks),
              [live   |-> Live(Front(blocks)) /\ ~Last(blocks).live,
               inElse |-> TRUE])

CloseBlock ==
  /\ blocks # <<>>
  /\ blocks' = Front(blocks)

Next ==
  \/ \E selected \in BOOLEAN : OpenBlock(selected)
  \/ OtherBranch
  \/ CloseBlock

Spec == Init /\ [][Next]_blocks
=============================================================================
