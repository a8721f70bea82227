--------------------------- MODULE Console_proofs ---------------------------
(***************************************************************************)
(* Proofs about module Console, for screens and buffers of any size: the   *)
(* console keeps its types and the screen is the window.  No invariant     *)
(* beyond these two is needed.                                             *)
(***************************************************************************)
EXTENDS Console, TLAPS

-----------------------------------------------------------------------------
(* The operations on a console return a console.                           *)

LEMMA Shape ==
  /\ Width \in Nat \ {0} /\ WindowHeight \in Nat \ {0} /\ BufferHeight \in Nat
  /\ Lowest \in Nat /\ WindowHeight <= BufferHeight
  /\ 0 \in Row /\ BufferHeight - 1 \in Row
BY ShapeAssumption DEF Lowest, Row

LEMMA BlankLineTyped == BlankLine \in Line
BY DEF BlankLine, Line

LEMMA ClearedTyped == Cleared \in ConsoleState
BY Shape, BlankLineTyped DEF Cleared, ConsoleState

LEMMA RollUpTyped ==
  ASSUME NEW c \in ConsoleState
  PROVE  RollUp(c) \in ConsoleState
<1>1. [y \in Row |-> IF y = BufferHeight - 1 THEN BlankLine
                     ELSE c.line[y + 1]] \in [Row -> Line]
  <2>1. ASSUME NEW y \in Row, y # BufferHeight - 1
        PROVE  y + 1 \in Row
    BY <2>1, Shape DEF Row
  <2>2. c.line \in [Row -> Line]
    BY DEF ConsoleState
  <2> QED BY <2>1, <2>2, BlankLineTyped
<1> QED BY <1>1 DEF RollUp, ConsoleState

LEMMA BackTyped ==
  ASSUME NEW c \in ConsoleState
  PROVE  Back(c) \in ConsoleState
<1>1. c.cx \in Nat /\ c.cy \in Nat /\ c.cy < BufferHeight
  BY Shape DEF ConsoleState, Row
<1>2. CASE c.cx > 0
  BY <1>1, <1>2 DEF Back, ConsoleState
<1>3. CASE c.cx = 0 /\ c.cy > 0
  <2>1. c.cy - 1 \in Row /\ Width - 1 \in Nat
    BY <1>1, <1>3, Shape DEF Row
  <2>2. Back(c) = [c EXCEPT !.cy = @ - 1, !.cx = Width - 1]
    BY <1>3 DEF Back
  <2> QED BY <2>1, <2>2 DEF ConsoleState
<1>4. CASE c.cx = 0 /\ c.cy = 0
  BY <1>4 DEF Back
<1> QED BY <1>1, <1>2, <1>3, <1>4

(* The caret has just gone down: the window may follow it.                 *)
LEMMA FollowTyped ==
  ASSUME NEW c \in ConsoleState
  PROVE  Follow(c) \in ConsoleState
<1>1. CASE c.cy = c.baseline + WindowHeight
  <2>1. c.baseline + 1 \in 0 .. Lowest
    BY <1>1, Shape DEF ConsoleState, Row, Lowest
  <2> QED BY <1>1, <2>1 DEF Follow, ConsoleState
<1>2. CASE c.cy # c.baseline + WindowHeight
  BY <1>2 DEF Follow
<1> QED BY <1>1, <1>2

LEMMA KeepInViewTyped ==
  ASSUME NEW c \in ConsoleState
  PROVE  KeepInView(c) \in ConsoleState
<1>1. CASE 0 < c.baseline /\ c.baseline < Lowest
  <2>1. c.baseline - 1 \in 0 .. Lowest
    BY <1>1, Shape DEF ConsoleState
  <2> QED BY <1>1, <2>1 DEF KeepInView, ConsoleState
<1>2. CASE ~(0 < c.baseline /\ c.baseline < Lowest)
  BY <1>2 DEF KeepInView
<1> QED BY <1>1, <1>2

LEMMA LineFeedTyped ==
  ASSUME NEW c \in ConsoleState
  PROVE  LineFeed(c) \in ConsoleState
<1>1. CASE c.cy < BufferHeight - 1
  <2>1. [c EXCEPT !.cy = @ + 1] \in ConsoleState
    <3>1. c.cy + 1 \in Row
      BY <1>1, Shape DEF ConsoleState, Row
    <3> QED BY <3>1 DEF ConsoleState
  <2> QED BY <1>1, <2>1, FollowTyped DEF LineFeed
<1>2. CASE ~(c.cy < BufferHeight - 1)
  BY <1>2, RollUpTyped, KeepInViewTyped DEF LineFeed
<1> QED BY <1>1, <1>2

LEMMA NewLineTyped ==
  ASSUME NEW c \in ConsoleState
  PROVE  NewLine(c) \in ConsoleState
<1>1. [c EXCEPT !.cx = 0] \in ConsoleState
  BY DEF ConsoleState
<1> QED BY <1>1, LineFeedTyped DEF NewLine

LEMMA BrokenTyped ==
  ASSUME NEW c \in ConsoleState
  PROVE  Broken(c) \in ConsoleState
BY NewLineTyped DEF Broken

LEMMA TabTyped ==
  ASSUME NEW c \in ConsoleState, TabStop \in Nat \ {0}
  PROVE  Tab(c) \in ConsoleState
<1>1. c.cx \in Nat
  BY DEF ConsoleState
<1>2. ((c.cx + TabStop) \div TabStop) * TabStop \in Nat
  BY <1>1
<1> QED BY <1>2 DEF Tab, ConsoleState

LEMMA PutTyped ==
  ASSUME NEW c \in ConsoleState, NEW ch \in Letters, ~PutFails(c)
  PROVE  Put(c, ch) \in ConsoleState
<1>1. c.cx \in Column /\ c.cx + 1 \in Nat
  BY DEF PutFails, ConsoleState
<1>2. [c.line EXCEPT ![c.cy][c.cx] = ch] \in [Row -> Line]
  BY <1>1 DEF ConsoleState, Line
<1> QED BY <1>1, <1>2 DEF Put, ConsoleState

LEMMA ClampedTyped ==
  ASSUME NEW c \in ConsoleState, NEW y \in Int
  PROVE  Clamped(c, y) \in 0 .. Lowest
BY Shape DEF Clamped, ConsoleState, Row

\* What Refresh shows is a screen.
LEMMA RefreshTyped ==
  ASSUME NEW c \in ConsoleState
  PROVE  Refresh(c) \in [0 .. WindowHeight - 1 -> Line]
<1>1. ASSUME NEW y \in 0 .. WindowHeight - 1
      PROVE  c.baseline + y \in Row
  BY Shape DEF ConsoleState, Row, Lowest
<1>2. c.line \in [Row -> Line]
  BY DEF ConsoleState
<1> QED BY <1>1, <1>2 DEF Refresh

-----------------------------------------------------------------------------
(* The console is always one, and the screen always shows its window.      *)

IInv == TypeOK /\ ScreenShowsWindow

\* The caret alone has moved.
LEMMA CaretOnly ==
  ASSUME IInv, NEW c \in ConsoleState,
         c.line = con.line, c.baseline = con.baseline, MoveCaret(c)
  PROVE  IInv'
<1>1. Refresh(c) = Refresh(con)
  BY DEF Refresh
<1>2. con' = c /\ vram' = vram /\ panicked' = panicked
  BY DEF MoveCaret
<1>3. TypeOK'
  BY <1>2 DEF IInv, TypeOK
<1>4. ScreenShowsWindow'
  BY <1>1, <1>2 DEF IInv, ScreenShowsWindow, Refresh
<1> QED BY <1>3, <1>4 DEF IInv

\* The screen has been drawn anew.
LEMMA Redrawn ==
  ASSUME IInv, con' \in ConsoleState, vram' = Refresh(con'),
         UNCHANGED panicked
  PROVE  IInv'
<1>1. vram' \in [0 .. WindowHeight - 1 -> Line]
  BY RefreshTyped
<1> QED BY <1>1 DEF IInv, TypeOK, ScreenShowsWindow, Refresh

(* Put writes the buffer and, if the row is visible, the same character to *)
(* the same place of the screen.                                           *)
LEMMA PutShown ==
  ASSUME NEW c \in ConsoleState, NEW ch \in Letters, ~PutFails(c)
  PROVE  OnScreen(c, Refresh(c), ch) = Refresh(Put(c, ch))
<1> DEFINE S == 0 .. WindowHeight - 1
           d == Put(c, ch)
           Wide(l) == DOMAIN l = Column
<1>1. c.cx \in Column /\ c.cy \in Row /\ c.baseline \in Nat /\ c.cy \in Int
  BY Shape DEF PutFails, ConsoleState, Row
<1>2. d.baseline = c.baseline /\ d.line = [c.line EXCEPT ![c.cy][c.cx] = ch]
  BY DEF Put, ConsoleState
<1>3. c.line \in [Row -> Line]
  BY DEF ConsoleState
<1>4. \A y \in S : c.baseline + y \in Row
  BY Shape DEF ConsoleState, Row, Lowest
<1>5. \A r \in Row : d.line[r] = IF r = c.cy THEN [c.line[r] EXCEPT ![c.cx] = ch]
                                 ELSE c.line[r]
  BY <1>2, <1>3
<1>6. Refresh(d) = [y \in S |-> d.line[c.baseline + y]]
  BY <1>2 DEF Refresh
<1>7. CASE IsVisible(c, c.cy)
  <2>1. c.cy - c.baseline \in S
    BY <1>1, <1>7, Shape DEF IsVisible
  <2>2. OnScreen(c, Refresh(c), ch)
          = [Refresh(c) EXCEPT ![c.cy - c.baseline][c.cx] = ch]
    BY <1>7 DEF OnScreen
  <2>3. \A y \in S : c.baseline + y = c.cy <=> y = c.cy - c.baseline
    BY <1>1
  <2>4. ASSUME NEW y \in S
        PROVE  [Refresh(c) EXCEPT ![c.cy - c.baseline][c.cx] = ch][y]
                 = d.line[c.baseline + y]
    BY <1>4, <1>5, <2>1, <2>3 DEF Refresh
  <2>5. [Refresh(c) EXCEPT ![c.cy - c.baseline][c.cx] = ch]
          = [y \in S |-> [Refresh(c) EXCEPT ![c.cy - c.baseline][c.cx] = ch][y]]
    BY DEF Refresh
  <2> QED BY <1>6, <2>2, <2>4, <2>5
<1>8. CASE ~IsVisible(c, c.cy)
  <2>1. \A y \in S : c.baseline + y # c.cy
    BY <1>1, <1>8, Shape DEF IsVisible
  <2>2. \A y \in S : d.line[c.baseline + y] = c.line[c.baseline + y]
    BY <1>4, <1>5, <2>1
  <2> QED BY <1>6, <1>8, <2>2 DEF OnScreen, Refresh
<1> QED BY <1>7, <1>8

LEMMA InitEstablishes == Init => IInv
BY ClearedTyped, RefreshTyped DEF Init, IInv, TypeOK, ScreenShowsWindow

LEMMA LetterKeeps ==
  ASSUME IInv, NEW ch \in Letters, WriteLetter(ch)
  PROVE  IInv'
<1> DEFINE c == Broken(con)
           screen == IF c = con THEN vram ELSE Refresh(c)
<1>1. c \in ConsoleState
  BY BrokenTyped DEF IInv, TypeOK
<1>2. screen = Refresh(c)
  BY DEF IInv, ScreenShowsWindow
<1>3. CASE PutFails(c)
  <2>1. con' = con /\ vram' = vram /\ panicked' = TRUE
    BY <1>3 DEF WriteLetter
  <2> QED BY <2>1 DEF IInv, TypeOK, ScreenShowsWindow, Refresh
<1>4. CASE ~PutFails(c)
  <2>1. con' = Put(c, ch) /\ vram' = OnScreen(c, screen, ch) /\ panicked' = panicked
    BY <1>4 DEF WriteLetter
  <2>2. con' \in ConsoleState
    BY <1>1, <1>4, <2>1, PutTyped
  <2>3. vram' = Refresh(con')
    BY <1>1, <1>2, <1>4, <2>1, PutShown
  <2> QED BY <2>1, <2>2, <2>3, Redrawn
<1> QED BY <1>3, <1>4

LEMMA NextKeeps == IInv /\ [Next]_vars => IInv'
<1> SUFFICES ASSUME IInv, [Next]_vars PROVE IInv'
  OBVIOUS
<1>1. con \in ConsoleState
  BY DEF IInv, TypeOK
<1>2. ASSUME NEW y \in Int, setWindowBaseline(y)
      PROVE  IInv'
  <2>1. con' = [con EXCEPT !.baseline = Clamped(con, y)]
    BY <1>2 DEF setWindowBaseline
  <2>2. con' \in ConsoleState
    BY <1>1, <2>1, ClampedTyped DEF ConsoleState
  <2> QED BY <1>2, <2>2, Redrawn DEF setWindowBaseline
<1>3. CASE \E ch \in Letters \cup Controls : Write(ch)
  <2>1. PICK ch \in Letters \cup Controls : Write(ch)
    BY <1>3
  <2>2. CASE ch \in Letters /\ WriteLetter(ch)
    BY <2>2, LetterKeeps
  <2>3. CASE WriteLineFeed
    BY <1>1, <2>3, LineFeedTyped, Redrawn DEF WriteLineFeed
  <2>4. CASE WriteVerticalTab
    BY <1>1, <2>4, NewLineTyped, Redrawn DEF WriteVerticalTab
  <2>5. CASE WriteFormFeed
    BY <2>5, ClearedTyped, Redrawn DEF WriteFormFeed
  <2>6. CASE MoveCaret([con EXCEPT !.cx = 0])
    <3>1. [con EXCEPT !.cx = 0] \in ConsoleState
      BY <1>1 DEF ConsoleState
    <3> QED BY <1>1, <2>6, <3>1, CaretOnly DEF ConsoleState
  <2>7. CASE MoveCaret(Back(con))
    <3>1. Back(con).line = con.line /\ Back(con).baseline = con.baseline
      BY <1>1 DEF Back, ConsoleState
    <3> QED BY <1>1, <2>7, <3>1, BackTyped, CaretOnly
  <2>8. CASE MoveCaret(Tab(con))
    <3>1. Tab(con).line = con.line /\ Tab(con).baseline = con.baseline
      BY <1>1 DEF Tab, ConsoleState
    <3> QED BY <1>1, <2>8, <3>1, TabTyped, CaretOnly, ShapeAssumption
  <2> QED BY <2>1, <2>2, <2>3, <2>4, <2>5, <2>6, <2>7, <2>8 DEF Write
<1>4. con.baseline \in Int /\ WindowHeight \div 2 \in Int
  BY <1>1, Shape DEF ConsoleState
<1>5. CASE PageUp
  BY <1>2, <1>4, <1>5 DEF PageUp
<1>6. CASE PageDown
  BY <1>2, <1>4, <1>6 DEF PageDown
<1>7. CASE UNCHANGED vars
  BY <1>7 DEF vars, IInv, TypeOK, ScreenShowsWindow, Refresh
<1> QED BY <1>3, <1>5, <1>6, <1>7 DEF Next

LEMMA Invariance == Spec => []IInv
BY InitEstablishes, NextKeeps, PTL DEF Spec

(* No sequence of output and page keys brings window or caret's row out of *)
(* the buffer (console.cpp:61-72, 101-110).                                *)
THEOREM ConsoleTyping == Spec => []TypeOK
<1>1. IInv => TypeOK
  BY DEF IInv
<1> QED BY <1>1, Invariance, PTL

(* What Put writes to the video memory and what Refresh draws always make  *)
(* up the window of the buffer (consoleex.cpp:17-40).                      *)
THEOREM ScreenIsWindow == Spec => []ScreenShowsWindow
<1>1. IInv => ScreenShowsWindow
  BY DEF IInv
<1> QED BY <1>1, Invariance, PTL

-----------------------------------------------------------------------------
(* What a line feed does to the window, from which the two properties of   *)
(* single steps follow.                                                    *)

LEMMA LineFeedStays ==
  ASSUME NEW c \in ConsoleState, IsVisible(c, c.cy)
  PROVE  IsVisible(LineFeed(c), LineFeed(c).cy)
<1>1. c.cy \in Int /\ c.baseline \in Int /\ c.cy <= BufferHeight - 1
  BY Shape DEF ConsoleState, Row
<1>2. CASE c.cy < BufferHeight - 1
  <2> DEFINE d == [c EXCEPT !.cy = @ + 1]
  <2>1. d.cy = c.cy + 1 /\ d.baseline = c.baseline
    BY DEF ConsoleState
  <2>2. LineFeed(c) = Follow(d)
    BY <1>2 DEF LineFeed
  <2>3. CASE d.cy = d.baseline + WindowHeight
    <3>1. Follow(d) = [d EXCEPT !.baseline = @ + 1]
      BY <2>3 DEF Follow
    <3>2. Follow(d).cy = c.cy + 1 /\ Follow(d).baseline = c.baseline + 1
      BY <2>1, <3>1 DEF ConsoleState
    <3> QED BY <1>1, <2>1, <2>2, <2>3, <3>2, Shape DEF IsVisible
  <2>4. CASE d.cy # d.baseline + WindowHeight
    <3>1. Follow(d) = d
      BY <2>4 DEF Follow
    <3>2. LineFeed(c).cy = c.cy + 1 /\ LineFeed(c).baseline = c.baseline
      BY <2>1, <2>2, <3>1
    <3>3. c.cy + 1 # c.baseline + WindowHeight
      BY <2>1, <2>4
    <3> QED BY <1>1, <3>2, <3>3, Shape DEF IsVisible
  <2> QED BY <2>3, <2>4
<1>3. CASE ~(c.cy < BufferHeight - 1)
  <2> DEFINE d == RollUp(c)
  <2>1. d.cy = c.cy /\ d.baseline = c.baseline
    BY DEF RollUp, ConsoleState
  <2>2. ~(d.baseline < Lowest)
    BY <1>1, <1>3, <2>1, Shape DEF IsVisible, Lowest
  <2>3. LineFeed(c) = d
    BY <1>3, <2>2 DEF LineFeed, KeepInView
  <2> QED BY <2>1, <2>3 DEF IsVisible
<1> QED BY <1>2, <1>3

\* The reader: the window is neither at the top nor at the bottom.
LEMMA LineFeedSlides ==
  ASSUME NEW c \in ConsoleState,
         c.cy = BufferHeight - 1, 0 < c.baseline, c.baseline < Lowest
  PROVE  /\ LineFeed(c).cy = c.cy /\ LineFeed(c).baseline = c.baseline - 1
         /\ Refresh(LineFeed(c)) = Refresh(c)
<1> DEFINE d == RollUp(c)
           e == [d EXCEPT !.baseline = @ - 1]
<1>1. c.baseline \in Nat /\ c.line \in [Row -> Line]
  BY DEF ConsoleState
<1>2. d \in ConsoleState /\ d.cy = c.cy /\ d.baseline = c.baseline
  BY RollUpTyped DEF RollUp, ConsoleState
<1>3. LineFeed(c) = e
  <2>1. LineFeed(c) = KeepInView(d)
    BY Shape DEF LineFeed
  <2>2. 0 < d.baseline /\ d.baseline < Lowest
    BY <1>2
  <2> QED BY <2>1, <2>2 DEF KeepInView
<1>4. e.cy = c.cy /\ e.baseline = c.baseline - 1 /\ e.line = d.line
  BY <1>2 DEF ConsoleState
<1>5. ASSUME NEW y \in 0 .. WindowHeight - 1
      PROVE  d.line[c.baseline - 1 + y] = c.line[c.baseline + y]
  <2>1. /\ c.baseline - 1 + y \in Row /\ c.baseline - 1 + y # BufferHeight - 1
        /\ (c.baseline - 1 + y) + 1 = c.baseline + y
    BY <1>1, Shape DEF Row, Lowest
  <2>2. d.line = [r \in Row |-> IF r = BufferHeight - 1 THEN BlankLine
                                ELSE c.line[r + 1]]
    BY DEF RollUp, ConsoleState
  <2> QED BY <2>1, <2>2
<1> QED BY <1>3, <1>4, <1>5 DEF Refresh

LEMMA FollowsStep ==
  ASSUME IInv, NEW ch \in (Letters \cup Controls) \ {"BS"}, Write(ch),
         IsVisible(con, con.cy)
  PROVE  IsVisible(con', con'.cy)
<1>1. con \in ConsoleState
  BY DEF IInv, TypeOK
<1>2. ASSUME NEW c \in ConsoleState, IsVisible(c, c.cy)
      PROVE  IsVisible(NewLine(c), NewLine(c).cy)
  <2>1. [c EXCEPT !.cx = 0] \in ConsoleState
    BY DEF ConsoleState
  <2>2. IsVisible([c EXCEPT !.cx = 0], [c EXCEPT !.cx = 0].cy)
    BY <1>2 DEF IsVisible, ConsoleState
  <2> QED BY <2>1, <2>2, LineFeedStays DEF NewLine
<1>3. CASE ch \in Letters /\ WriteLetter(ch)
  <2>1. IsVisible(Broken(con), Broken(con).cy)
    BY <1>1, <1>2 DEF Broken
  <2>2. CASE PutFails(Broken(con))
    BY <2>2, <1>3 DEF WriteLetter
  <2>3. CASE ~PutFails(Broken(con))
    <3>1. Broken(con) \in ConsoleState
      BY <1>1, BrokenTyped
    <3>2. con' = Put(Broken(con), ch)
      BY <2>3, <1>3 DEF WriteLetter
    <3>3. con'.cy = Broken(con).cy /\ con'.baseline = Broken(con).baseline
      BY <3>1, <3>2 DEF Put, ConsoleState
    <3> QED BY <2>1, <3>3 DEF IsVisible
  <2> QED BY <2>2, <2>3
<1>4. CASE WriteLineFeed
  BY <1>1, <1>4, LineFeedStays DEF WriteLineFeed
<1>5. CASE WriteVerticalTab
  BY <1>1, <1>2, <1>5 DEF WriteVerticalTab
<1>6. CASE WriteFormFeed
  BY <1>6, Shape DEF WriteFormFeed, Cleared, IsVisible
<1>7. CASE MoveCaret([con EXCEPT !.cx = 0])
  BY <1>1, <1>7 DEF MoveCaret, IsVisible, ConsoleState
<1>8. CASE MoveCaret(Tab(con))
  BY <1>1, <1>8 DEF MoveCaret, IsVisible, Tab, ConsoleState
<1> QED BY <1>3, <1>4, <1>5, <1>6, <1>7, <1>8 DEF Write

(* Printing never moves the caret's row out of the window it was in        *)
(* (console.cpp:63-66, 69-71).                                             *)
THEOREM OutputStaysVisible == Spec => FollowsOutput
<1>1. IInv /\ [Next]_vars =>
        [\A ch \in (Letters \cup Controls) \ {"BS"} :
           Write(ch) /\ IsVisible(con, con.cy) => IsVisible(con', con'.cy)]_vars
  BY FollowsStep
<1> QED BY <1>1, Invariance, PTL DEF Spec, FollowsOutput

LEMMA ReaderStep ==
  ASSUME IInv, NEW ch \in Letters \cup {"LF", "VT"}, Write(ch),
         con.cy = BufferHeight - 1, 0 < con.baseline, con.baseline < Lowest
  PROVE  vram' = vram
<1>1. con \in ConsoleState /\ vram = Refresh(con)
  BY DEF IInv, TypeOK, ScreenShowsWindow
<1>2. /\ NewLine(con).cy = con.cy /\ NewLine(con).baseline = con.baseline - 1
      /\ Refresh(NewLine(con)) = Refresh(con)
  <2> DEFINE c == [con EXCEPT !.cx = 0]
  <2>1. /\ c \in ConsoleState /\ c.cy = con.cy /\ c.baseline = con.baseline
        /\ c.line = con.line
    BY <1>1 DEF ConsoleState
  <2>2. Refresh(c) = Refresh(con)
    BY <2>1 DEF Refresh
  <2> HIDE DEF c
  <2>3. /\ LineFeed(c).cy = c.cy /\ LineFeed(c).baseline = c.baseline - 1
        /\ Refresh(LineFeed(c)) = Refresh(c)
    BY <2>1, LineFeedSlides
  <2> QED BY <2>1, <2>2, <2>3 DEF NewLine, c
<1>3. CASE ch \in Letters /\ WriteLetter(ch)
  <2> DEFINE c == Broken(con)
             screen == IF c = con THEN vram ELSE Refresh(c)
  <2>1. /\ screen = vram /\ c.cy = con.cy
        /\ c.baseline = con.baseline \/ c.baseline = con.baseline - 1
    BY <1>1, <1>2 DEF Broken
  <2>2. ~IsVisible(c, c.cy)
    BY <1>1, <2>1, Shape DEF IsVisible, ConsoleState, Lowest
  <2>3. CASE PutFails(c)
    BY <2>3, <1>3 DEF WriteLetter
  <2>4. CASE ~PutFails(c)
    BY <2>1, <2>2, <2>4, <1>3 DEF WriteLetter, OnScreen
  <2> QED BY <2>3, <2>4
<1>4. CASE WriteLineFeed
  BY <1>1, <1>4, LineFeedSlides DEF WriteLineFeed
<1>5. CASE WriteVerticalTab
  BY <1>1, <1>2, <1>5 DEF WriteVerticalTab
<1>6. ch # "FF"
  BY ShapeAssumption DEF Controls
<1> QED BY <1>3, <1>4, <1>5, <1>6 DEF Write, MoveCaret

(* A window that was paged back shows the same lines whatever is printed   *)
(* below it (console.cpp:68-71).                                           *)
THEOREM ReaderUndisturbed == Spec => ReaderNotDisturbed
<1>1. IInv /\ [Next]_vars =>
        [\A ch \in Letters \cup {"LF", "VT"} :
           /\ Write(ch) /\ con.cy = BufferHeight - 1
           /\ 0 < con.baseline /\ con.baseline < Lowest
           => vram' = vram]_vars
  BY ReaderStep
<1> QED BY <1>1, Invariance, PTL DEF Spec, ReaderNotDisturbed
=============================================================================
