SPECIFICATION Spec
CONSTANTS
  tag1 = tag1
  tag2 = tag2
  read = read
  None = None
  Action <- TagsAndRead
  Undoable <- TagsAndRead
  SkipUndo <- NotUndone
INVARIANT CloseFinishesActions
