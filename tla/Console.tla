------------------------------ MODULE Console ------------------------------
(***************************************************************************)
(* A console of the C++ kernel (kernel/console.cpp, kernel/consoleex.cpp): *)
(* a buffer of lines, a window of them that the screen shows, and a caret. *)
(* Output moves the caret and rolls the buffer up; the page keys move the  *)
(* window.  Each call of the class is one step.                            *)
(***************************************************************************)
EXTENDS Integers

CONSTANTS
  Width,         \* columns
  TabStop,       \* distance of the tab stops, 4 in the program
  WindowHeight,  \* rows on the screen
  BufferHeight,  \* rows kept
  MaxColumn,     \* bound: no tab is written beyond this column
  Letters,       \* the characters that are printed as they are
  Blank          \* what memclr leaves

Controls == {"CR", "LF", "VT", "BS", "FF", "TAB"}

ASSUME ShapeAssumption ==
  /\ Width \in Nat \ {0} /\ TabStop \in Nat \ {0} /\ MaxColumn \in Nat
  /\ WindowHeight \in Nat \ {0} /\ BufferHeight \in Nat
  /\ WindowHeight <= BufferHeight
  /\ Blank \notin Letters /\ Letters \cap Controls = {}

Row == 0 .. BufferHeight - 1
Column == 0 .. Width - 1
Lowest == BufferHeight - WindowHeight  \* the window's last position

VARIABLES
  con,      \* scrbuf, baseline, cx and cy
  vram,     \* the rows of the screen the window has
  panicked  \* Put was asked for a place outside the buffer
vars == <<con, vram, panicked>>

-----------------------------------------------------------------------------
BlankLine == [x \in Column |-> Blank]

Refresh(c) == [y \in 0 .. WindowHeight - 1 |-> c.line[c.baseline + y]]

\* Each operation works on the console and its screen together.
Shown(c) == [con |-> c, vram |-> Refresh(c)]

IsVisible(c, y) == c.baseline <= y /\ y < c.baseline + WindowHeight

Cleared == [line |-> [y \in Row |-> BlankLine], baseline |-> 0,
            cx |-> 0, cy |-> 0]

RollUp(c) ==
  [c EXCEPT !.line = [y \in Row |-> IF y = BufferHeight - 1 THEN BlankLine
                                    ELSE c.line[y + 1]]]

\* Mutant: the first line has one above it.
BackAtTop(c) == IF c.cx > 0 THEN [c EXCEPT !.cx = @ - 1]
                ELSE [c EXCEPT !.cy = @ - 1, !.cx = Width - 1]
\* One step back, over the beginning of a line to the end of the one above.
Back(c) ==
  IF c.cx > 0 THEN [c EXCEPT !.cx = @ - 1]
  ELSE IF c.cy > 0 THEN [c EXCEPT !.cy = @ - 1, !.cx = Width - 1]
  ELSE c

\* Mutant: the window does not follow the caret.
StayBehind(c) == c
Follow(c) ==
  IF c.cy = c.baseline + WindowHeight THEN [c EXCEPT !.baseline = @ + 1] ELSE c

\* Mutant: a window the user has moved back is left where it is.
LetSlide(c) == c
KeepInView(c) ==
  IF 0 < c.baseline /\ c.baseline < Lowest
  THEN [c EXCEPT !.baseline = @ - 1] ELSE c

LineFeed(c) ==
  IF c.cy < BufferHeight - 1 THEN Follow([c EXCEPT !.cy = @ + 1])
  ELSE KeepInView(RollUp(c))

NewLine(c) == LineFeed([c EXCEPT !.cx = 0])

\* The caret goes to the next tab stop, the edge of the line or not.
Tab(c) == [c EXCEPT !.cx = ((@ + TabStop) \div TabStop) * TabStop]

(* Put, after the line has been broken when it is full. *)
Broken(c) == IF c.cx = Width THEN NewLine(c) ELSE c

PutFails(c) == c.cx \notin Column

Put(c, ch) == [c EXCEPT !.line[c.cy][c.cx] = ch, !.cx = @ + 1]

\* Mutant: the screen is written without asking whether the row is visible.
AnyRow(c, screen, ch) ==
  [screen EXCEPT ![(c.cy - c.baseline) % WindowHeight][c.cx] = ch]
OnScreen(c, screen, ch) ==
  IF IsVisible(c, c.cy)
  THEN [screen EXCEPT ![c.cy - c.baseline][c.cx] = ch] ELSE screen

-----------------------------------------------------------------------------
WriteLetter(ch) ==
  LET c == Broken(con)
      screen == IF c = con THEN vram ELSE Refresh(c)
  IN  IF PutFails(c)
      THEN panicked' = TRUE /\ UNCHANGED <<con, vram>>
      ELSE /\ con' = Put(c, ch)
           /\ vram' = OnScreen(c, screen, ch)
           /\ UNCHANGED panicked

WriteLineFeed ==
  /\ con' = LineFeed(con)
  /\ vram' = Refresh(con')
  /\ UNCHANGED panicked

\* '\v', and MakeNewLine.
WriteVerticalTab ==
  /\ con.cx # 0
  /\ con' = NewLine(con)
  /\ vram' = Refresh(con')
  /\ UNCHANGED panicked

MoveCaret(c) == con' = c /\ UNCHANGED <<vram, panicked>>

\* '\f', and Clear.
WriteFormFeed ==
  /\ con' = Cleared
  /\ vram' = Refresh(con')
  /\ UNCHANGED panicked

Write(ch) ==
  /\ ~panicked
  /\ \/ ch \in Letters /\ WriteLetter(ch)
     \/ ch = "LF" /\ WriteLineFeed
     \/ ch = "VT" /\ WriteVerticalTab
     \/ ch = "FF" /\ WriteFormFeed
     \/ ch = "CR" /\ MoveCaret([con EXCEPT !.cx = 0])
     \/ ch = "BS" /\ MoveCaret(Back(con))
     \/ ch = "TAB" /\ con.cx <= MaxColumn /\ MoveCaret(Tab(con))

(* setWindowBaseline, as the page keys call it in KeyboardHandler. *)
Clamped(c, y) ==
  IF y < 0 THEN 0
  ELSE LET z == IF y > c.cy THEN c.cy ELSE y
       IN  IF z >= Lowest THEN Lowest ELSE z

setWindowBaseline(y) ==
  /\ con' = [con EXCEPT !.baseline = Clamped(con, y)]
  /\ vram' = Refresh(con')
  /\ UNCHANGED panicked

PageUp ==
  /\ ~panicked
  /\ setWindowBaseline(con.baseline - WindowHeight \div 2 - 1)
PageDown ==
  /\ ~panicked
  /\ setWindowBaseline(con.baseline + WindowHeight \div 2 + 1)

-----------------------------------------------------------------------------
Init == con = Cleared /\ vram = Refresh(con) /\ panicked = FALSE

Next == (\E ch \in Letters \cup Controls : Write(ch)) \/ PageUp \/ PageDown

Spec == Init /\ [][Next]_vars

-----------------------------------------------------------------------------
Line == [Column -> Letters \cup {Blank}]

ConsoleState == [line : [Row -> Line], baseline : 0 .. Lowest, cx : Nat, cy : Row]

(* The window never leaves the buffer; the caret may be beyond its line. *)
TypeOK ==
  /\ con \in ConsoleState
  /\ vram \in [0 .. WindowHeight - 1 -> Line]
  /\ panicked \in BOOLEAN

(* The screen is the window: Put writes the video memory itself and only   *)
(* some operations call Refresh, yet after every call the two agree.       *)
ScreenShowsWindow == vram = Refresh(con)

(* Output never moves the caret out of the window: if the caret's row was  *)
(* on the screen before a character was printed, it is after it.  Only a   *)
(* step back over the beginning of a line may leave it.                    *)
FollowsOutput ==
  [][\A ch \in (Letters \cup Controls) \ {"BS"} :
       Write(ch) /\ IsVisible(con, con.cy) => IsVisible(con', con'.cy)]_vars

(* A user who has paged back keeps the same lines on the screen whatever   *)
(* is printed below them, and while output rolls the buffer up, until they *)
(* are the oldest ones.                                                    *)
ReaderNotDisturbed ==
  [][\A ch \in Letters \cup {"LF", "VT"} :
       /\ Write(ch) /\ con.cy = BufferHeight - 1
       /\ 0 < con.baseline /\ con.baseline < Lowest
       => vram' = vram]_vars
=============================================================================
