-------------------------- MODULE MCActionManager --------------------------
(* Instances of ActionManager for TLC: two undoable actions (tagging a     *)
(* thread, say) and one that is done without undo (marking as read).       *)
EXTENDS ActionManager

CONSTANTS tag1, tag2, read

TagsAndRead == {tag1, tag2, read}
NotUndone == {read}

=============================================================================
