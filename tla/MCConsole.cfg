CONSTANTS
  Width <- MCWidth
  TabStop <- MCTabStop
  MaxColumn <- MCMaxColumn
  WindowHeight <- MCWindowHeight
  BufferHeight <- MCBufferHeight
  Letters = {x}
  Blank = blank
SPECIFICATION Spec
INVARIANTS TypeOK ScreenShowsWindow
PROPERTIES FollowsOutput ReaderNotDisturbed
CHECK_DEADLOCK FALSE
