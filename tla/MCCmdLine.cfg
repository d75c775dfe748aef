\* Lines of two characters and longer ones by completion, three lines read.
SPECIFICATION EditorsSpec
CONSTANTS
  Characters = {"a", "b", "h", ">", " "}
  Chars = {"a", "b", " "}
  Prompt <- MCPrompt
  Help <- MCHelp
  hints <- MCHints
  first_hints <- MCFirstHints
  MaxLen = 2
  MaxHistory = 3
INVARIANTS ScreenShowsCommand RowShowsLine
PROPERTIES UpShowsAnother TabExtends
