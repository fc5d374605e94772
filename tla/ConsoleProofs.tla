--------------------------- MODULE ConsoleProofs ---------------------------
(***************************************************************************)
(* No output is cut into, a call leaves the interrupt flag as it was, and  *)
(* what term_gets() has read stands before the cursor (OutputWhole). A tab,*)
(* or a carriage return, is echoed as more or less than a character, so    *)
(* that for the last part the keys are taken to be others (PlainKeys).     *)
(*                                                                         *)
(* The two terminals agree on what they show (TwinScreens), for the        *)
(* colours that both have (SharedColors), and the framebuffer shows what   *)
(* it commits (CommitShows), unless it commits page by page (Unpaged). All *)
(* of it for every screen, font, number of tasks and set of calls.         *)
(***************************************************************************)
EXTENDS Console, WellFoundedInduction, TLAPS

\* The characters that move the cursor.
Specials == {"bs", "cr", "nl", "tab"}
PlainKeys == Key \cap {"cr", "tab"} = {}

Glyphs == {e.c : e \in Elements}
Cells == [Place -> Glyphs \X Nat \X Nat]
Screens == [x : 0..W - 1, y : 0..H - 1, fg : Nat, bg : Nat, cells : Cells]
ScreenType == vga \in Screens
CallType ==
  /\ call \in [Task -> CallRecords \union {Nobody}]
  /\ intr \in [Task -> BOOLEAN] /\ want \in [Task -> BOOLEAN]
  /\ out_irq \in BOOLEAN /\ clean \in BOOLEAN
LineType == line \in LineRecords \union {Nobody} /\ todo \in {Echoed(c) : c \in Key} \union {<<>>}

\* A task in a call has the mutex, and keeps what it needs to restore the flag.
Guarded == \A t \in Task : call[t] # Nobody => mutex_out = t
Flag(t) == intr[t] \/ (call[t] # Nobody /\ call[t].irq)
FlagsKept == \A t \in Task : Flag(t) <=> want[t]

\* What is still due of the echo, and what stands before the cursor until then.
Pending == IF todo # <<>> THEN Puts(todo) ELSE IF call[line.task] = Nobody THEN <<>> ELSE call[line.task].left
Last(s) == s[Len(s)]
Due(v, s, r) ==
  \/ r = <<>> /\ Stands(v, s)
  \/ s # <<>> /\ Last(s) \notin Specials /\ r = <<Char(Last(s))>> /\ Stands(v, Shorter(s))
  \/ r = <<Char("bs"), Char(" "), Char("bs")>> /\ \E g \in Glyphs : Stands(v, Append(s, g))
  \/ r = <<Char(" "), Char("bs")>> /\ Stands(v, s)
  \/ r = <<Char("bs")>> /\ \E g \in Glyphs : Stands(v, Append(s, g))
EchoIdle == todo # <<>> => line # Nobody /\ call[line.task] = Nobody
EchoDue == line # Nobody /\ clean => todo = Echoed("nl") \/ Due(vga, line.s, Pending)

\* What holds whatever is typed, and with it what the echo brings together.
CallInv ==
  /\ ScreenType /\ CallType /\ LineType
  /\ Guarded /\ FlagsKept /\ ~torn
  /\ EchoIdle
ConsoleInv == CallInv /\ EchoDue
-----------------------------------------------------------------------------
(* The screen. A character that ends a row is drawn before the row wraps,  *)
(* so that the cursor may stand past the end for a moment.                 *)

WideScreens == [x : 0..W, y : 0..H - 1, fg : Nat, bg : Nat, cells : Cells]

(* Rows follow each other: the last place of a row stands before the first *)
(* one of the next.                                                        *)
LEMMA Rowwise ==
  ASSUME NEW y \in 0..H - 1
  PROVE  /\ W * H \in Nat /\ y * W \in Nat /\ y * W + W <= W * H
         /\ (y + 1) * W = y * W + W /\ (y > 0 => (y - 1) * W = y * W - W /\ y * W >= W)
         /\ (y + 1 = H => y * W + W = W * H)
<1>1. W \in Nat /\ H \in Nat /\ W > 0 /\ H > 0 BY ConsoleAssumption
<1>2. (y + 1) * W = y * W + W /\ y * W \in Nat /\ (y - 1) * W = y * W - W BY <1>1, SMTT(30)
<1>3. W * H = y * W + W + (H - 1 - y) * W BY <1>1, SMTT(30)
<1>4. (H - 1 - y) * W >= 0 BY <1>1, SMTT(30)
<1>5. y > 0 => (y - 1) * W >= 0 BY <1>1, SMTT(30)
<1>6. y + 1 = H => (H - 1 - y) * W = 0 BY <1>1, SMTT(30)
<1>7. W * H \in Nat BY <1>1, SMTT(30)
<1> QED BY <1>1, <1>2, <1>3, <1>4, <1>5, <1>6, <1>7, SMTT(30)

(* The cursor is a place of the screen (vgaterm_putc_stub()).              *)
LEMMA CursorPlaced ==
  ASSUME NEW v \in WideScreens
  PROVE  /\ Cursor(v) \in Nat /\ Cursor(v) <= W * H /\ W * H \in Nat
         /\ v.x < W => Cursor(v) \in Place
<1>0. PICK x, y : x = v.x /\ y = v.y OBVIOUS
<1>1. x \in 0..W /\ y \in 0..H - 1 BY <1>0 DEF WideScreens
<1>2. W \in Nat /\ W > 0 BY ConsoleAssumption
<1>3. W * H \in Nat /\ y * W \in Nat /\ y * W + W <= W * H BY <1>1, Rowwise
<1>4. PICK a, b : a = y * W /\ b = W * H OBVIOUS
<1>5. a + x \in Nat /\ a + x <= b /\ (x < W => a + x \in 0..b - 1) BY <1>1, <1>2, <1>3, <1>4
<1> QED BY <1>0, <1>3, <1>4, <1>5 DEF Cursor, Place

(* The blank that a row is cleared with is a cell.                         *)
LEMMA CellsKept ==
  /\ " " \in Glyphs
  /\ \A c \in Key : c \in Glyphs
  /\ \A g \in Glyphs, f \in Nat, b \in Nat : Cell(g, f, b) \in Glyphs \X Nat \X Nat /\ Cell(g, f, b)[1] = g
<1>1. Char(" ") \in Elements /\ \A c \in Key : Char(c) \in Elements
  <2>2. ASSUME NEW c \in Key \union {"bs", " ", "cr", "nl"}
        PROVE  Char(c) \in {Char(d) : d \in Key \union {"bs", " ", "cr", "nl"}}
    OBVIOUS
  <2>3. {Char(d) : d \in Key \union {"bs", " ", "cr", "nl"}} \subseteq Elements BY DEF Elements
  <2>4. \A c \in Key : c \in Key \union {"bs", " ", "cr", "nl"} OBVIOUS
  <2> QED BY <2>2, <2>3, <2>4
<1>2. \A c : Char(c).c = c BY DEF Char
<1> QED BY <1>1, <1>2 DEF Glyphs, Cell

(* A new row keeps what stands before the cursor (vgaterm_newline()).      *)
LEMMA NewRow ==
  ASSUME NEW v \in WideScreens
  PROVE  /\ vgaterm_newline(v) \in Screens
         /\ v.x = W => \A s : Len(s) \in Nat /\ DOMAIN s = 1..Len(s) /\ Stands(v, s) => Stands(vgaterm_newline(v), s)
<1>0. PICK x, y, fg, bg, cells : x = v.x /\ y = v.y /\ fg = v.fg /\ bg = v.bg /\ cells = v.cells OBVIOUS
<1>1. x \in 0..W /\ y \in 0..H - 1 /\ fg \in Nat /\ bg \in Nat /\ cells \in Cells BY <1>0 DEF WideScreens
<1>2. W \in Nat /\ W > 0 /\ H \in Nat /\ H > 0 BY ConsoleAssumption
<1>3. v = [x |-> x, y |-> y, fg |-> fg, bg |-> bg, cells |-> cells] BY <1>0 DEF WideScreens
<1>4. PICK a, b : a = y * W /\ b = W * H OBVIOUS
<1>5. /\ a \in Nat /\ b \in Nat /\ a + W <= b /\ (y + 1 = H => a + W = b)
      /\ (y + 1) * W = a + W
  BY <1>1, <1>4, Rowwise
<1>6. Cursor(v) = a + x BY <1>0, <1>4 DEF Cursor
<1>7. Place = 0..b - 1 BY <1>4 DEF Place
<1>8. CASE y + 1 = H
  <2>1. PICK moved : moved = Scrolled(cells, Cell(" ", fg, bg)) OBVIOUS
  <2>2. vgaterm_newline(v) = [x |-> 0, y |-> H - 1, fg |-> fg, bg |-> bg, cells |-> moved]
    BY <1>3, <1>8, <2>1 DEF vgaterm_newline, VgaBlank
  <2>3. moved \in Cells BY <1>1, <2>1, CellsKept DEF Scrolled, Cells
  <2>4. vgaterm_newline(v) \in Screens BY <1>1, <1>2, <2>2, <2>3 DEF Screens
  <2>5. (H - 1) * W = a BY <1>1, <1>2, <1>4, <1>8
  <2>6. Cursor(vgaterm_newline(v)) = a BY <1>5, <2>2, <2>5 DEF Cursor
  <2>7. ASSUME x = W, NEW s, Len(s) \in Nat, DOMAIN s = 1..Len(s), Stands(v, s), NEW i \in DOMAIN s,
               a - Len(s) + i - 1 \in Place
        PROVE  moved[a - Len(s) + i - 1][1] = s[i]
    <3>1. PICK n : n = Len(s) OBVIOUS
    <3>2. n \in Nat /\ i \in 1..n BY <2>7, <3>1
    <3>3. PICK p : p = a - n + i - 1 OBVIOUS
    <3>4. p \in Place BY <2>7, <3>1, <3>3
    <3>5. a \in Nat /\ b \in Nat /\ a + W = b /\ x = W /\ p \in 0..b - 1 BY <1>5, <1>7, <1>8, <2>7, <3>4
    <3>6. a + x - n + i - 1 = p + W /\ p + W \in 0..b - 1 BY <1>2, <3>2, <3>3, <3>5
    <3>7. PICK k : k = Cursor(v) - Len(s) + i - 1 OBVIOUS
    <3>8. k = a + x - n + i - 1
      <4>1. PICK m : m = a + x OBVIOUS
      <4>2. k = m - n + i - 1 BY <1>6, <3>1, <3>7, <4>1
      <4>3. m \in Nat BY <1>2, <3>5, <4>1
      <4> QED BY <1>2, <3>2, <3>5, <4>1, <4>2, <4>3
    <3>9. k \in Place => v.cells[k][1] = s[i] BY <2>7, <3>7 DEF Stands
    <3>10. k = p + W /\ k \in Place BY <1>7, <3>8, <3>6
    <3>11. v.cells[k][1] = s[i] BY <3>9, <3>10
    <3>12. cells[p + W][1] = s[i] BY <1>0, <3>10, <3>11
    <3>13. moved[p] = cells[p + W] BY <2>1, <3>4, <3>10 DEF Scrolled
    <3> QED BY <3>1, <3>3, <3>12, <3>13
  <2>8. vgaterm_newline(v).cells = moved BY <2>2
  <2> QED BY <1>0, <2>4, <2>6, <2>7, <2>8 DEF Stands
<1>9. CASE y + 1 # H
  <2>1. vgaterm_newline(v) = [x |-> 0, y |-> y + 1, fg |-> fg, bg |-> bg, cells |-> cells]
    BY <1>3, <1>9 DEF vgaterm_newline
  <2>2. vgaterm_newline(v) \in Screens BY <1>1, <1>2, <1>9, <2>1 DEF Screens
  <2>3. Cursor(vgaterm_newline(v)) = a + W BY <1>2, <1>5, <2>1 DEF Cursor
  <2>4. vgaterm_newline(v).cells = v.cells BY <1>0, <2>1
  <2>5. x = W => Cursor(vgaterm_newline(v)) = Cursor(v) BY <1>6, <2>3
  <2> QED BY <1>0, <2>2, <2>4, <2>5 DEF Stands
<1> QED BY <1>8, <1>9

(* What a sequence with one more element is.                               *)
LEMMA Appended ==
  ASSUME NEW S, NEW s \in Seq(S), NEW g
  PROVE  /\ Len(s) \in Nat /\ DOMAIN s = 1..Len(s)
         /\ Len(Append(s, g)) = Len(s) + 1 /\ DOMAIN Append(s, g) = 1..Len(s) + 1
         /\ \A i \in 1..Len(s) : Append(s, g)[i] = s[i]
         /\ Append(s, g)[Len(s) + 1] = g
         /\ Append(s, g) # <<>> /\ Shorter(Append(s, g)) = s
<1>1. PICK T : T = S \union {g} OBVIOUS
<1>2. s \in Seq(T) /\ g \in T BY <1>1
<1>3. /\ Len(s) \in Nat /\ DOMAIN s = 1..Len(s)
      /\ Len(Append(s, g)) = Len(s) + 1 /\ DOMAIN Append(s, g) = 1..Len(s) + 1
      /\ \A i \in 1..Len(s) : Append(s, g)[i] = s[i]
      /\ Append(s, g)[Len(s) + 1] = g
  BY <1>2
<1>4. Append(s, g) # <<>> BY <1>3
<1>5. SubSeq(Append(s, g), 1, Len(s)) = s BY <1>2, <1>3
<1>6. Len(Append(s, g)) - 1 = Len(s) BY <1>3
<1>7. Shorter(Append(s, g)) = s BY <1>4, <1>5, <1>6 DEF Shorter
<1> QED BY <1>3, <1>4, <1>7

(* A character stands behind what stood before the cursor                  *)
(* (vgaterm_putc_stub()).                                                  *)
LEMMA CharDrawn ==
  ASSUME NEW v \in Screens, NEW c \in Glyphs, NEW u, u = VgaFill(v, v.x + 1, Cell(c, v.fg, v.bg))
  PROVE  /\ u \in WideScreens
         /\ \A S : \A s \in Seq(S) : Stands(v, s) => Stands(u, Append(s, c))
<1>0. PICK x, y, fg, bg, cells : x = v.x /\ y = v.y /\ fg = v.fg /\ bg = v.bg /\ cells = v.cells OBVIOUS
<1>1. x \in 0..W - 1 /\ y \in 0..H - 1 /\ fg \in Nat /\ bg \in Nat /\ cells \in Cells BY <1>0 DEF Screens
<1>2. W \in Nat /\ W > 0 BY ConsoleAssumption
<1>3. v = [x |-> x, y |-> y, fg |-> fg, bg |-> bg, cells |-> cells] BY <1>0 DEF Screens
<1>4. PICK a, q : a = y * W /\ q = Cell(c, fg, bg) OBVIOUS
<1>5. a \in Nat BY <1>1, <1>4, Rowwise
<1>6. PICK C : C = Cursor(v) OBVIOUS
<1>7. C = a + x /\ C \in Nat /\ C \in Place
  <2>1. C = a + x BY <1>0, <1>4, <1>6 DEF Cursor
  <2>2. v \in WideScreens /\ v.x < W BY <1>0, <1>1, <1>2, <1>3 DEF WideScreens
  <2> QED BY <1>6, <2>1, <2>2, CursorPlaced
<1>8. PICK drawn : drawn = [p \in Place |-> IF p \in a + x..a + (x + 1) - 1 THEN q ELSE cells[p]] OBVIOUS
<1>9. u = [x |-> x + 1, y |-> y, fg |-> fg, bg |-> bg, cells |-> drawn] BY <1>3, <1>4, <1>8 DEF VgaFill
<1>10. q \in Glyphs \X Nat \X Nat /\ q[1] = c BY <1>1, <1>4, CellsKept
<1>11. drawn \in Cells BY <1>1, <1>8, <1>10 DEF Cells
<1>12. u \in WideScreens BY <1>1, <1>2, <1>9, <1>11 DEF WideScreens
<1>13. Cursor(u) = C + 1
  <2>1. Cursor(u) = a + (x + 1) BY <1>4, <1>9 DEF Cursor
  <2> QED BY <1>1, <1>5, <1>7, <2>1
<1>14. drawn[C] = q /\ \A p \in Place : p < C => drawn[p] = cells[p]
  <2>1. a + x..a + (x + 1) - 1 = {C} BY <1>1, <1>5, <1>7
  <2>2. \A p \in Place : drawn[p] = IF p \in {C} THEN q ELSE cells[p] BY <1>8, <2>1
  <2> QED BY <1>7, <2>2 DEF Place
<1>15. ASSUME NEW S, NEW s \in Seq(S), Stands(v, s) PROVE Stands(u, Append(s, c))
  <2>1. PICK n, t : n = Len(s) /\ t = Append(s, c) OBVIOUS
  <2>2. /\ n \in Nat /\ DOMAIN s = 1..n /\ Len(t) = n + 1 /\ DOMAIN t = 1..n + 1
        /\ \A i \in 1..n : t[i] = s[i]
        /\ t[n + 1] = c
    BY <2>1, Appended
  <2>3. ASSUME NEW i \in 1..n + 1, NEW p \in Place, p = Cursor(u) - Len(t) + i - 1 PROVE drawn[p][1] = t[i]
    <3>1. p = (C + 1) - (n + 1) + i - 1 BY <1>13, <2>2, <2>3
    <3>2. C \in Nat /\ n \in Nat /\ i \in Nat BY <1>7, <2>2
    <3>3. p = C + i - n - 1 /\ p \in Int BY <3>1, <3>2
    <3>4. CASE i = n + 1
      <4>1. p = C BY <1>7, <2>2, <3>3, <3>4
      <4> QED BY <1>10, <1>14, <2>2, <3>4, <4>1
    <3>5. CASE i # n + 1
      <4>1. i \in 1..n /\ p < C BY <1>7, <2>2, <3>3, <3>5
      <4>2. PICK k : k = Cursor(v) - Len(s) + i - 1 OBVIOUS
      <4>3. k = C - n + i - 1 BY <1>6, <2>1, <4>2
      <4>4. k = p BY <1>7, <2>2, <3>3, <4>1, <4>3
      <4>5. v.cells[p][1] = s[i] BY <1>15, <2>2, <4>1, <4>2, <4>4 DEF Stands
      <4> QED BY <1>0, <1>14, <2>2, <4>1, <4>5
    <3> QED BY <3>4, <3>5
  <2>4. u.cells = drawn BY <1>9
  <2>5. \A i \in DOMAIN t : \A p \in Place : p = Cursor(u) - Len(t) + i - 1 => u.cells[p][1] = t[i] BY <2>2, <2>3, <2>4
  <2>6. Stands(u, t) BY <2>5 DEF Stands
  <2> QED BY <2>1, <2>6
<1> QED BY <1>12, <1>15

(* A backspace takes back what stood last before the cursor, if it is      *)
(* still on the screen.                                                    *)
LEMMA CharTaken ==
  ASSUME NEW v \in Screens
  PROVE  /\ VgaBack(v) \in Screens
         /\ \A S : \A s \in Seq(S) : \A g : Stands(v, Append(s, g)) => Stands(VgaBack(v), s)
<1>0. PICK x, y, fg, bg, cells : x = v.x /\ y = v.y /\ fg = v.fg /\ bg = v.bg /\ cells = v.cells OBVIOUS
<1>1. x \in 0..W - 1 /\ y \in 0..H - 1 /\ fg \in Nat /\ bg \in Nat /\ cells \in Cells BY <1>0 DEF Screens
<1>2. W \in Nat /\ W > 0 /\ H \in Nat BY ConsoleAssumption
<1>3. v = [x |-> x, y |-> y, fg |-> fg, bg |-> bg, cells |-> cells] BY <1>0 DEF Screens
<1>4. PICK a, C, u : a = y * W /\ C = Cursor(v) /\ u = VgaBack(v) OBVIOUS
<1>5. a \in Nat /\ (y > 0 => (y - 1) * W = a - W /\ a >= W) /\ (y = 0 => a = 0) BY <1>1, <1>2, <1>4, Rowwise
<1>6. C = a + x BY <1>0, <1>4 DEF Cursor
<1>7. CASE x = 0 /\ y = 0
  <2>1. u = v BY <1>0, <1>4, <1>7 DEF VgaBack
  <2>2. C = 0 BY <1>5, <1>6, <1>7
  <2>3. ASSUME NEW S, NEW s \in Seq(S), NEW i \in DOMAIN s PROVE Cursor(u) - Len(s) + i - 1 \notin Place
    <3>1. PICK n : n = Len(s) OBVIOUS
    <3>2. n \in Nat /\ i \in 1..n BY <2>3, <3>1
    <3>3. Cursor(u) - Len(s) + i - 1 = 0 - n + i - 1 BY <1>4, <2>1, <2>2, <3>1
    <3>4. \A p \in Place : p \in Int /\ p >= 0
      <4>1. W * H \in Nat BY <1>1, Rowwise
      <4> QED BY <4>1 DEF Place
    <3>5. PICK k : k = 0 - n + i - 1 OBVIOUS
    <3>6. k < 0 BY <3>2, <3>5
    <3> QED BY <3>3, <3>4, <3>5, <3>6
  <2> QED BY <1>4, <2>1, <2>3 DEF Stands
<1>8. CASE ~(x = 0 /\ y = 0)
  <2>1. u \in Screens /\ Cursor(u) = C - 1 /\ u.cells = v.cells
    <3>1. CASE x > 0
      <4>1. u = [x |-> x - 1, y |-> y, fg |-> fg, bg |-> bg, cells |-> cells] BY <1>3, <1>4, <3>1 DEF VgaBack
      <4>2. u \in Screens BY <1>1, <1>2, <3>1, <4>1 DEF Screens
      <4>3. Cursor(u) = a + (x - 1) BY <1>4, <4>1 DEF Cursor
      <4>4. a + (x - 1) = C - 1 BY <1>1, <1>2, <1>5, <1>6
      <4>5. u.cells = v.cells BY <1>0, <4>1
      <4> QED BY <4>2, <4>3, <4>4, <4>5
    <3>2. CASE x = 0
      <4>1. y > 0 BY <1>1, <1>8, <3>2
      <4>2. u = [x |-> W - 1, y |-> y - 1, fg |-> fg, bg |-> bg, cells |-> cells]
        <5>1. u = [v EXCEPT !.x = W - 1, !.y = y - 1] BY <1>0, <1>1, <1>4, <3>2, <4>1 DEF VgaBack
        <5> QED BY <1>3, <5>1
      <4>3. u \in Screens BY <1>1, <1>2, <4>1, <4>2 DEF Screens
      <4>4. Cursor(u) = a - W + (W - 1) BY <1>5, <4>1, <4>2 DEF Cursor
      <4>5. Cursor(u) = C - 1 BY <1>2, <1>5, <1>6, <3>2, <4>4
      <4> QED BY <1>0, <4>2, <4>3, <4>5
    <3> QED BY <1>1, <3>1, <3>2
  <2>2. C \in Nat BY <1>1, <1>2, <1>5, <1>6
  <2>3. ASSUME NEW S, NEW s \in Seq(S), NEW g, Stands(v, Append(s, g)) PROVE Stands(u, s)
    <3>1. PICK n, t : n = Len(s) /\ t = Append(s, g) OBVIOUS
    <3>2. /\ n \in Nat /\ DOMAIN s = 1..n /\ Len(t) = n + 1 /\ DOMAIN t = 1..n + 1
          /\ \A i \in 1..n : t[i] = s[i]
      BY <3>1, Appended
    <3>3. ASSUME NEW i \in 1..n, NEW p \in Place, p = Cursor(u) - Len(s) + i - 1 PROVE u.cells[p][1] = s[i]
      <4>1. PICK k : k = Cursor(v) - Len(t) + i - 1 OBVIOUS
      <4>2. k = C - (n + 1) + i - 1 BY <1>4, <3>2, <4>1
      <4>3. p = (C - 1) - n + i - 1 BY <2>1, <3>1, <3>3
      <4>4. k = p BY <2>2, <3>2, <4>2, <4>3
      <4>5. i \in DOMAIN t /\ t[i] = s[i] BY <3>2
      <4>6. v.cells[p][1] = t[i] BY <2>3, <3>1, <4>1, <4>4, <4>5 DEF Stands
      <4> QED BY <2>1, <4>5, <4>6
    <3>4. \A i \in DOMAIN s : \A p \in Place : p = Cursor(u) - Len(s) + i - 1 => u.cells[p][1] = s[i] BY <3>2, <3>3
    <3> QED BY <3>4 DEF Stands
  <2> QED BY <1>4, <2>1, <2>3
<1> QED BY <1>7, <1>8

(* A set of numbers has a least one, so that a tab ends somewhere on its   *)
(* row (vgaterm_putc_stub()).                                              *)
LEMMA TabEnds ==
  ASSUME NEW x \in 0..W - 1
  PROVE  TabEnd(x) \in 1..W /\ TabEnd(x) \in TabStops(x) /\ \A s \in TabStops(x) : TabEnd(x) <= s
<1>1. W \in Nat /\ W > 0 BY ConsoleAssumption
<1>2. PICK S : S = TabStops(x) OBVIOUS
<1>3. S \subseteq Nat /\ S \subseteq 1..W /\ W \in S BY <1>1, <1>2 DEF TabStops
<1>4. \E s \in S : \A other \in S : s <= other
  <2> DEFINE R == {r \in Nat \X Nat : r[1] < r[2]}
  <2>1. IsWellFoundedOn(R, Nat) BY NatLessThanWellFounded DEF OpToRel
  <2>2. \A i, j \in Nat : <<j, i>> \in R <=> j < i OBVIOUS
  <2> HIDE DEF R
  <2>3. PICK s \in S : \A other \in S : ~(<<other, s>> \in R) BY <1>3, <2>1, WFMin
  <2>4. \A other \in S : ~(other < s) BY <1>3, <2>2, <2>3
  <2> QED BY <1>3, <2>3, <2>4
<1>5. PICK end : end = (CHOOSE s \in S : \A other \in S : s <= other) OBVIOUS
<1>6. end \in S /\ \A other \in S : end <= other BY <1>4, <1>5
<1>7. TabEnd(x) = end BY <1>2, <1>5 DEF TabEnd
<1> QED BY <1>2, <1>3, <1>6, <1>7

(* What is filled on a row stays on it (vgaterm_putc_stub()).              *)
LEMMA FillsRow ==
  ASSUME NEW v \in Screens, NEW to \in 1..W, NEW cell \in Glyphs \X Nat \X Nat
  PROVE  VgaFill(v, to, cell) \in WideScreens
<1>1. PICK cells : cells = [p \in Place |-> IF p \in v.y * W + v.x..v.y * W + to - 1 THEN cell ELSE v.cells[p]] OBVIOUS
<1>2. cells \in Cells BY <1>1 DEF Screens, Cells
<1>3. VgaFill(v, to, cell) = [v EXCEPT !.x = to, !.cells = cells] BY <1>1 DEF VgaFill, Screens
<1>4. W \in Nat BY ConsoleAssumption
<1>5. PICK u : u = VgaFill(v, to, cell) OBVIOUS
<1>6. v = [x |-> v.x, y |-> v.y, fg |-> v.fg, bg |-> v.bg, cells |-> v.cells] BY DEF Screens
<1>7. u = [x |-> to, y |-> v.y, fg |-> v.fg, bg |-> v.bg, cells |-> cells] BY <1>3, <1>5, <1>6
<1>8. to \in 0..W /\ v.y \in 0..H - 1 /\ v.fg \in Nat /\ v.bg \in Nat BY <1>4 DEF Screens
<1> QED BY <1>2, <1>5, <1>7, <1>8 DEF WideScreens

(* The cursor leaves the end of a row at once.                             *)
LEMMA Wraps ==
  ASSUME NEW v \in WideScreens
  PROVE  VgaWrap(v) \in Screens
<1>1. W \in Nat BY ConsoleAssumption
<1>2. CASE v.x = W BY <1>2, NewRow DEF VgaWrap
<1>3. CASE v.x # W
  <2>1. v.x \in 0..W - 1 BY <1>1, <1>3 DEF WideScreens
  <2>2. v \in Screens BY <2>1 DEF WideScreens, Screens
  <2> QED BY <1>3, <2>2 DEF VgaWrap
<1> QED BY <1>2, <1>3

(* The colours of the VGA are indexes (vgaterm_setfg_idx()).               *)
LEMMA IndexMapped ==
  ASSUME NEW i \in 0..15
  PROVE  IdxMap(i) \in Nat
<1>1. i + 1 \in 1..16 OBVIOUS
<1>2. \A j \in 1..16 : vgaterm_idxmap[j] \in Nat BY DEF vgaterm_idxmap
<1> QED BY <1>1, <1>2 DEF IdxMap

(* What a call consists of, from the assumption on the operations.         *)
LEMMA ElementKinds ==
  ASSUME NEW e \in Elements
  PROVE  /\ e.kind \in {"char", "clear", "xy", "fg", "bg"} /\ e.n \in Nat /\ e.m \in Nat
         /\ e.kind = "xy" => e.n < W /\ e.m < H
         /\ e.c \in Glyphs
BY ConsoleAssumption DEF Glyphs

(* A character keeps the screen one (vgaterm_putc_stub()).                 *)
LEMMA CharKept ==
  ASSUME NEW v \in Screens, NEW c \in Glyphs
  PROVE  vgaterm_putc_stub(v, c) \in Screens
<1>0. W \in Nat /\ W > 0 /\ H \in Nat BY ConsoleAssumption
<1>1. v \in WideScreens /\ v.x \in 0..W - 1 /\ v.fg \in Nat /\ v.bg \in Nat BY <1>0 DEF Screens, WideScreens
<1>2. VgaBlank(v) \in Glyphs \X Nat \X Nat /\ Cell(c, v.fg, v.bg) \in Glyphs \X Nat \X Nat
  BY <1>1, CellsKept DEF VgaBlank
<1>3. v.x + 1 \in 1..W BY <1>0, <1>1
<1>4. CASE c = "bs" BY <1>4, CharTaken DEF vgaterm_putc_stub
<1>5. CASE c = "cr"
  <2>1. vgaterm_putc_stub(v, c) = [v EXCEPT !.x = 0] BY <1>5 DEF vgaterm_putc_stub
  <2> QED BY <1>0, <2>1 DEF Screens
<1>6. CASE c = "nl" BY <1>1, <1>6, NewRow DEF vgaterm_putc_stub
<1>7. CASE c = "tab"
  <2>1. vgaterm_putc_stub(v, c) = VgaWrap(VgaFill(v, TabEnd(v.x), VgaBlank(v))) BY <1>7 DEF vgaterm_putc_stub
  <2>2. TabEnd(v.x) \in 1..W BY <1>1, TabEnds
  <2>3. VgaFill(v, TabEnd(v.x), VgaBlank(v)) \in WideScreens BY <1>2, <2>2, FillsRow
  <2> QED BY <2>1, <2>3, Wraps
<1>8. CASE c \notin Specials
  <2>1. vgaterm_putc_stub(v, c) = VgaWrap(VgaFill(v, v.x + 1, Cell(c, v.fg, v.bg))) BY <1>8 DEF vgaterm_putc_stub, Specials
  <2>2. VgaFill(v, v.x + 1, Cell(c, v.fg, v.bg)) \in WideScreens BY <1>2, <1>3, FillsRow
  <2> QED BY <2>1, <2>2, Wraps
<1> QED BY <1>4, <1>5, <1>6, <1>7, <1>8 DEF Specials

(* So does anything else that a terminal is asked for (terminal.c).        *)
LEMMA ScreenKept ==
  ASSUME NEW v \in Screens, NEW e \in Elements
  PROVE  OnVga(v, e) \in Screens
<1>0. W \in Nat /\ W > 0 /\ H \in Nat /\ H > 0 BY ConsoleAssumption
<1>1. /\ e.kind \in {"char", "clear", "xy", "fg", "bg"} /\ e.n \in Nat /\ e.m \in Nat
      /\ e.kind = "xy" => e.n < W /\ e.m < H
      /\ e.c \in Glyphs
  BY ElementKinds
<1>2. CASE e.kind = "char"
  <2>1. OnVga(v, e) = vgaterm_putc_stub(v, e.c) BY <1>2 DEF OnVga
  <2> QED BY <1>1, <2>1, CharKept
<1>3. CASE e.kind = "clear"
  <2>1. OnVga(v, e) = vgaterm_clear(v) BY <1>3 DEF OnVga
  <2>2. VgaBlank(v) \in Glyphs \X Nat \X Nat BY CellsKept DEF VgaBlank, Screens
  <2>3. [p \in Place |-> VgaBlank(v)] \in Cells BY <2>2 DEF Cells
  <2>4. v = [x |-> v.x, y |-> v.y, fg |-> v.fg, bg |-> v.bg, cells |-> v.cells] BY DEF Screens
  <2>5. PICK blank : blank = [p \in Place |-> VgaBlank(v)] OBVIOUS
  <2>6. OnVga(v, e) = [x |-> 0, y |-> 0, fg |-> v.fg, bg |-> v.bg, cells |-> blank]
    BY <2>1, <2>4, <2>5 DEF vgaterm_clear
  <2>7. v.fg \in Nat /\ v.bg \in Nat /\ 0 \in 0..W - 1 /\ 0 \in 0..H - 1 BY <1>0 DEF Screens
  <2> QED BY <2>3, <2>5, <2>6, <2>7 DEF Screens
<1>4. CASE e.kind = "xy"
  <2>1. OnVga(v, e) = vgaterm_set_xy(v, e.n, e.m) BY <1>4 DEF OnVga
  <2>2. e.n \in 0..W - 1 /\ e.m \in 0..H - 1 BY <1>0, <1>1, <1>4
  <2> QED BY <2>1, <2>2 DEF vgaterm_set_xy, Screens
<1>5. CASE e.kind = "fg"
  <2>1. OnVga(v, e) = vgaterm_setfg_idx(v, e.n) BY <1>5 DEF OnVga
  <2>2. e.n < 16 => IdxMap(e.n) \in Nat BY <1>1, IndexMapped
  <2> QED BY <1>1, <2>1, <2>2 DEF vgaterm_setfg_idx, Screens
<1>6. CASE e.kind = "bg"
  <2>1. OnVga(v, e) = vgaterm_setbg_idx(v, e.n) BY <1>6 DEF OnVga
  <2>2. e.n < 8 => IdxMap(e.n) \in Nat BY <1>1, IndexMapped
  <2>3. e.n < 8 => IdxMap(e.n) % 8 \in Nat BY <2>2
  <2> QED BY <1>1, <2>1, <2>3 DEF vgaterm_setbg_idx, Screens
<1> QED BY <1>1, <1>2, <1>3, <1>4, <1>5, <1>6

(* The echo of a character, and of a backspace.                            *)
LEMMA CharEchoed ==
  ASSUME NEW v \in Screens, NEW c \in Glyphs \ Specials, NEW S, NEW s \in Seq(S), Stands(v, s)
  PROVE  Stands(OnVga(v, Char(c)), Append(s, c))
<1>1. PICK u, t : u = VgaFill(v, v.x + 1, Cell(c, v.fg, v.bg)) /\ t = Append(s, c) OBVIOUS
<1>2. u \in WideScreens /\ Stands(u, t) BY <1>1, CharDrawn
<1>3. OnVga(v, Char(c)) = VgaWrap(u)
  <2>1. vgaterm_putc_stub(v, c) = VgaWrap(u) BY <1>1 DEF vgaterm_putc_stub, Specials
  <2>2. Char(c).kind = "char" /\ Char(c).c = c BY DEF Char
  <2> QED BY <2>1, <2>2 DEF OnVga
<1>4. Len(t) \in Nat /\ DOMAIN t = 1..Len(t)
  <2>1. Len(t) = Len(s) + 1 /\ DOMAIN t = 1..Len(s) + 1 /\ Len(s) \in Nat BY <1>1, Appended
  <2> QED BY <2>1
<1>5. Stands(VgaWrap(u), t)
  <2>1. CASE u.x = W
    <3>1. VgaWrap(u) = vgaterm_newline(u) BY <2>1 DEF VgaWrap
    <3> QED BY <1>2, <1>4, <2>1, <3>1, NewRow
  <2>2. CASE u.x # W BY <1>2, <2>2 DEF VgaWrap
  <2> QED BY <2>1, <2>2
<1> QED BY <1>1, <1>3, <1>5

LEMMA BackEchoed ==
  ASSUME NEW v \in Screens, NEW S, NEW s \in Seq(S), NEW g, Stands(v, Append(s, g))
  PROVE  Stands(OnVga(v, Char("bs")), s)
<1>1. OnVga(v, Char("bs")) = VgaBack(v)
  <2>1. Char("bs").kind = "char" /\ Char("bs").c = "bs" BY DEF Char
  <2> QED BY <2>1 DEF OnVga, vgaterm_putc_stub
<1> QED BY <1>1, CharTaken

-----------------------------------------------------------------------------
(* The echo.                                                               *)

(* A sequence is what is left when its last element is taken, and that     *)
(* element.                                                                *)
LEMMA Undone ==
  ASSUME NEW S, NEW s \in Seq(S), s # <<>>
  PROVE  Last(s) \in S /\ Shorter(s) \in Seq(S) /\ Append(Shorter(s), Last(s)) = s
<1>1. Len(s) \in Nat /\ Len(s) > 0 /\ DOMAIN s = 1..Len(s) OBVIOUS
<1>2. PICK n, h : n = Len(s) - 1 /\ h = SubSeq(s, 1, n) OBVIOUS
<1>3. n \in Nat /\ Len(s) = n + 1 BY <1>1, <1>2
<1>4. h \in Seq(S) /\ Len(h) = n /\ \A i \in 1..n : h[i] = s[i] BY <1>2, <1>3
<1>5. Shorter(s) = h BY <1>2 DEF Shorter
<1>6. Last(s) \in S /\ Last(s) = s[n + 1] BY <1>1, <1>3 DEF Last
<1>7. PICK t : t = Append(h, Last(s)) OBVIOUS
<1>8. /\ t \in Seq(S) /\ Len(t) = n + 1 /\ t[n + 1] = Last(s)
      /\ \A i \in 1..n : t[i] = h[i]
  BY <1>4, <1>6, <1>7
<1>9. \A i \in 1..n + 1 : t[i] = s[i]
  <2>1. \A i \in 1..n + 1 : i = n + 1 \/ i \in 1..n BY <1>3
  <2> QED BY <1>4, <1>6, <1>8, <2>1
<1>10. t = s BY <1>3, <1>8, <1>9
<1> QED BY <1>4, <1>5, <1>6, <1>7, <1>10

(* The echo, character by character, is of at most three.                  *)
LEMMA Tuples ==
  ASSUME NEW a, NEW b, NEW c
  PROVE  /\ Head(<<a>>) = a /\ Tail(<<a>>) = <<>>
         /\ Head(<<a, b>>) = a /\ Tail(<<a, b>>) = <<b>>
         /\ Head(<<a, b, c>>) = a /\ Tail(<<a, b, c>>) = <<b, c>>
         /\ \A S : a \in S /\ b \in S /\ c \in S => <<a, b>> \in Seq(S) /\ <<a, b, c>> \in Seq(S)
<1>1. Head(<<a>>) = a /\ Tail(<<a>>) = <<>> OBVIOUS
<1>2. Head(<<a, b>>) = a /\ Head(<<a, b, c>>) = a OBVIOUS
<1>3. Tail(<<a, b>>) = <<b>> OBVIOUS
<1>4. Tail(<<a, b, c>>) = <<b, c>> OBVIOUS
<1>5. ASSUME NEW S, a \in S, b \in S, c \in S PROVE <<a, b>> \in Seq(S) /\ <<a, b, c>> \in Seq(S)
  <2>1. <<a, b>> \in Seq(S) BY <1>5
  <2>2. <<a, b, c>> \in Seq(S) BY <1>5
  <2> QED BY <2>1, <2>2
<1> QED BY <1>1, <1>2, <1>3, <1>4, <1>5

(* A string is put one character after the other (term_puts()).            *)
LEMMA TuplesPut ==
  ASSUME NEW a, NEW b, NEW c
  PROVE  /\ Puts(<<a, b>>) = <<Char(a), Char(b)>>
         /\ Puts(<<a, b, c>>) = <<Char(a), Char(b), Char(c)>>
<1>1. [i \in DOMAIN <<a, b>> |-> Char(<<a, b>>[i])] = <<Char(a), Char(b)>> OBVIOUS
<1>2. [i \in DOMAIN <<a, b, c>> |-> Char(<<a, b, c>>[i])] = <<Char(a), Char(b), Char(c)>> OBVIOUS
<1> QED BY <1>1, <1>2 DEF Puts

(* What term_gets() prints for each kind of key.                           *)
LEMMA EchoedCalls ==
  /\ Echoed("nl") = <<"cr", "nl">>
  /\ Puts(Echoed("nl")) \in Seq(Elements)
  /\ Puts(Echoed("bs")) = <<Char("bs"), Char(" "), Char("bs")>> /\ Puts(Echoed("bs")) \in Seq(Elements)
  /\ \A c \in Key \ {"nl", "bs"} : Puts(Echoed(c)) = <<Char(c)>> /\ Puts(Echoed(c)) \in Seq(Elements)
  /\ \A c : Echoed(c) # <<>>
<1>1. \A c \in Key \union {"bs", " ", "cr", "nl"} : Char(c) \in Elements
  <2>1. ASSUME NEW c \in Key \union {"bs", " ", "cr", "nl"}
        PROVE  Char(c) \in {Char(d) : d \in Key \union {"bs", " ", "cr", "nl"}}
    OBVIOUS
  <2> QED BY <2>1 DEF Elements
<1>2. Echoed("nl") = <<"cr", "nl">> /\ Echoed("bs") = <<"bs", " ", "bs">> BY DEF Echoed
<1>3. Puts(Echoed("nl")) = <<Char("cr"), Char("nl")>> BY <1>2, TuplesPut
<1>4. Puts(Echoed("bs")) = <<Char("bs"), Char(" "), Char("bs")>> BY <1>2, TuplesPut
<1>5. \A c \in Key \ {"nl", "bs"} : Puts(Echoed(c)) = <<Char(c)>>
  <2>1. ASSUME NEW c \in Key \ {"nl", "bs"} PROVE Puts(Echoed(c)) = <<Char(c)>>
    <3>1. Echoed(c) = <<c>> BY DEF Echoed
    <3> QED BY <3>1 DEF Puts
  <2> QED BY <2>1
<1>6. \A c : Echoed(c) # <<>> BY DEF Echoed
<1>7. Char("cr") \in Elements /\ Char("nl") \in Elements /\ Char("bs") \in Elements /\ Char(" ") \in Elements
  BY <1>1
<1>8. \A c \in Key : Char(c) \in Elements BY <1>1
<1>9. <<Char("cr"), Char("nl")>> \in Seq(Elements) BY <1>7, Tuples
<1>10. <<Char("bs"), Char(" "), Char("bs")>> \in Seq(Elements) BY <1>7, Tuples
<1>11. \A c \in Key : <<Char(c)>> \in Seq(Elements) BY <1>8
<1> QED BY <1>2, <1>3, <1>4, <1>5, <1>6, <1>9, <1>10, <1>11

(* Each character of the echo brings what is read and what stands before   *)
(* the cursor together by one (term_gets()).                               *)
LEMMA DueStep ==
  ASSUME NEW v \in Screens, NEW s \in Seq(Key), NEW r, r # <<>>, Due(v, s, r)
  PROVE  Due(OnVga(v, Head(r)), s, Tail(r))
<1>0. \A c \in Key : c \in Glyphs BY CellsKept
<1>1. " " \in Glyphs \ Specials BY CellsKept DEF Specials
<1>2. CASE s # <<>> /\ Last(s) \notin Specials /\ r = <<Char(Last(s))>> /\ Stands(v, Shorter(s))
  <2>1. Last(s) \in Key /\ Shorter(s) \in Seq(Key) /\ Append(Shorter(s), Last(s)) = s BY <1>2, Undone
  <2>2. Last(s) \in Glyphs \ Specials BY <1>0, <1>2, <2>1
  <2>3. Stands(OnVga(v, Char(Last(s))), s) BY <1>2, <2>1, <2>2, CharEchoed
  <2>4. Head(r) = Char(Last(s)) /\ Tail(r) = <<>> BY <1>2
  <2> QED BY <2>3, <2>4 DEF Due
<1>3. CASE r = <<Char("bs"), Char(" "), Char("bs")>> /\ \E g \in Glyphs : Stands(v, Append(s, g))
  <2>1. Stands(OnVga(v, Char("bs")), s) BY <1>3, BackEchoed
  <2>2. Head(r) = Char("bs") /\ Tail(r) = <<Char(" "), Char("bs")>>
    <3>1. ASSUME NEW x, NEW y, NEW z PROVE Head(<<x, y, z>>) = x /\ Tail(<<x, y, z>>) = <<y, z>> OBVIOUS
    <3>2. r = <<Char("bs"), Char(" "), Char("bs")>> BY <1>3
    <3>3. PICK x, y : x = Char("bs") /\ y = Char(" ") OBVIOUS
    <3>4. r = <<x, y, x>> BY <3>2, <3>3
    <3> QED BY <3>1, <3>3, <3>4, Zenon
  <2> QED BY <2>1, <2>2 DEF Due
<1>4. CASE r = <<Char(" "), Char("bs")>> /\ Stands(v, s)
  <2>1. Stands(OnVga(v, Char(" ")), Append(s, " ")) BY <1>1, <1>4, CharEchoed
  <2>2. Head(r) = Char(" ") /\ Tail(r) = <<Char("bs")>> BY <1>4, Tuples
  <2> QED BY <1>1, <2>1, <2>2 DEF Due
<1>5. CASE r = <<Char("bs")>> /\ \E g \in Glyphs : Stands(v, Append(s, g))
  <2>1. Stands(OnVga(v, Char("bs")), s) BY <1>5, BackEchoed
  <2>2. Head(r) = Char("bs") /\ Tail(r) = <<>> BY <1>5
  <2> QED BY <2>1, <2>2 DEF Due
<1> QED BY <1>2, <1>3, <1>4, <1>5 DEF Due

(* With nothing due, what has been read stands before the cursor.          *)
LEMMA NothingDue ==
  ASSUME NEW v, NEW s
  PROVE  Due(v, s, <<>>) <=> Stands(v, s)
BY DEF Due

-----------------------------------------------------------------------------
(* The steps.                                                              *)

(* A call that starts takes the mutex, and remembers the flag              *)
(* (term_outguard_start()).                                                *)
LEMMA CallStarted ==
  ASSUME CallType, Guarded, FlagsKept, NEW t \in Task, call[t] = Nobody,
         NEW elems \in Seq(Elements), term_outguard_start(t, elems), UNCHANGED <<out_irq, want, clean>>
  PROVE  /\ CallType' /\ Guarded' /\ FlagsKept'
         /\ call'[t] # Nobody /\ call'[t].left = elems
         /\ \A o \in Task : o # t => call'[o] = call[o]
<1>1. PICK r : r = [left |-> elems, irq |-> ~out_irq /\ intr[t], begun |-> FALSE] OBVIOUS
<1>2. intr[t] \in BOOLEAN /\ out_irq \in BOOLEAN BY DEF CallType
<1>3. (~out_irq /\ intr[t]) \in BOOLEAN OBVIOUS
<1>4. r \in CallRecords /\ r.left = elems /\ (r.irq <=> ~out_irq /\ intr[t]) BY <1>1, <1>3 DEF CallRecords
<1>5. r # Nobody BY <1>4, ConsoleAssumption
<1>6. call' = [call EXCEPT ![t] = r] /\ mutex_out = Nobody /\ mutex_out' = t BY <1>1 DEF term_outguard_start
<1>7. intr' = IF out_irq THEN intr ELSE [intr EXCEPT ![t] = FALSE] BY DEF term_outguard_start
<1>8. call' \in [Task -> CallRecords \union {Nobody}] BY <1>4, <1>6 DEF CallType
<1>9. call'[t] = r /\ \A o \in Task : o # t => call'[o] = call[o] BY <1>6 DEF CallType
<1>10. intr' \in [Task -> BOOLEAN] BY <1>7 DEF CallType
<1>11. CallType' BY <1>8, <1>10 DEF CallType
<1>13. ASSUME NEW o \in Task, o # t, call[o] # Nobody PROVE FALSE
  <2>1. mutex_out = o BY <1>13 DEF Guarded
  <2> QED BY <1>6, <2>1, ConsoleAssumption
<1>14. Guarded' BY <1>6, <1>9, <1>13 DEF Guarded
<1>15. FlagsKept'
  <2>1. ASSUME NEW o \in Task PROVE (intr'[o] \/ (call'[o] # Nobody /\ call'[o].irq)) <=> want[o]
    <3>1. (intr[o] \/ (call[o] # Nobody /\ call[o].irq)) <=> want[o] BY DEF FlagsKept, Flag
    <3>2. CASE o # t
      <4>1. call'[o] = call[o] BY <1>9, <3>2
      <4>2. intr'[o] = intr[o] BY <1>7, <3>2 DEF CallType
      <4> QED BY <3>1, <4>1, <4>2
    <3>3. CASE o = t
      <4>1. intr[t] <=> want[t] BY <3>1, <3>3
      <4>2. intr'[t] = IF out_irq THEN intr[t] ELSE FALSE BY <1>7 DEF CallType
      <4>3. intr'[t] <=> out_irq /\ intr[t] BY <1>2, <4>2
      <4>4. call'[t] # Nobody /\ (call'[t].irq <=> ~out_irq /\ intr[t]) BY <1>4, <1>5, <1>9
      <4> QED BY <3>3, <4>1, <4>3, <4>4
    <3> QED BY <3>2, <3>3
  <2> QED BY <2>1 DEF FlagsKept, Flag
<1> QED BY <1>4, <1>5, <1>9, <1>11, <1>14, <1>15

(* Another call of a task that does not read leaves the echo that is due.  *)
LEMMA CallKept ==
  ASSUME CallInv, NEW t \in Task, Call(t)
  PROVE  CallInv' /\ (EchoDue => EchoDue')
<1> USE DEF CallInv
<1>1. PICK op \in Operation : term_outguard_start(t, op) BY DEF Call
<1>2. op \in Seq(Elements) BY ConsoleAssumption
<1>3. call[t] = Nobody /\ ~Reading(t) BY DEF Call, Idle
<1>4. UNCHANGED <<vga, line, todo, torn, clean, want, out_irq>> BY DEF Call, screenRest
<1>5. CallType' /\ Guarded' /\ FlagsKept' /\ \A o \in Task : o # t => call'[o] = call[o]
  BY <1>1, <1>2, <1>3, <1>4, CallStarted
<1>6. line # Nobody => line.task \in Task /\ line.task # t BY <1>3 DEF LineType, LineRecords, Reading
<1>7. line # Nobody => call'[line.task] = call[line.task] BY <1>5, <1>6
<1>8. ScreenType' /\ LineType' /\ ~torn' BY <1>4 DEF ScreenType, LineType
<1>9. EchoIdle' BY <1>4, <1>7 DEF EchoIdle
<1>10. ASSUME EchoDue PROVE EchoDue'
  <2>1. SUFFICES ASSUME line # Nobody, clean, todo # Echoed("nl") PROVE Due(vga, line.s, Pending')
    BY <1>4 DEF EchoDue
  <2>2. Pending' = Pending BY <1>4, <1>7, <2>1 DEF Pending
  <2> QED BY <1>10, <2>1, <2>2 DEF EchoDue
<1> QED BY <1>5, <1>8, <1>9, <1>10

(* An element of a call: whoever has the mutex is alone in the terminal,   *)
(* and a reader's own echo is the only output that keeps its line clean.   *)
LEMMA PutKept ==
  ASSUME CallInv, NEW t \in Task, Put(t)
  PROVE  CallInv' /\ (EchoDue => EchoDue')
<1> USE DEF CallInv
<1>1. PICK r : r = call[t] OBVIOUS
<1>2. r # Nobody /\ r.left # <<>> BY <1>1 DEF Put
<1>3. r \in CallRecords BY <1>1, <1>2 DEF CallType
<1>4. PICK left : left = r.left OBVIOUS
<1>5. left \in Seq(Elements) /\ left # <<>> /\ Head(left) \in Elements /\ Tail(left) \in Seq(Elements)
  BY <1>2, <1>3, <1>4 DEF CallRecords
<1>6. PICK d : d = [left |-> Tail(left), irq |-> r.irq, begun |-> TRUE] OBVIOUS
<1>7. d \in CallRecords /\ d.left = Tail(left) /\ d.irq = r.irq BY <1>3, <1>5, <1>6 DEF CallRecords
<1>8. call' = [call EXCEPT ![t] = d]
  <2>1. PICK L, q, b, F : L = Tail(left) /\ q = r.irq /\ b = r.begun /\ F = call OBVIOUS
  <2>2. r = [left |-> left, irq |-> q, begun |-> b] BY <1>3, <1>4, <2>1 DEF CallRecords
  <2>3. d = [left |-> L, irq |-> q, begun |-> TRUE] BY <1>6, <2>1
  <2>4. F \in [Task -> CallRecords \union {Nobody}] /\ F[t] = r BY <1>1, <2>1 DEF CallType
  <2>5. [F EXCEPT ![t].left = L, ![t].begun = TRUE] = [F EXCEPT ![t] = d]
    <3>1. PICK e : e = [left |-> L, irq |-> q, begun |-> b] OBVIOUS
    <3>2. [r EXCEPT !.left = L] = e BY <2>2, <3>1
    <3>3. [e EXCEPT !.begun = TRUE] = d
      <4>1. PICK yes : yes = TRUE OBVIOUS
      <4>2. [e EXCEPT !.begun = yes] = [left |-> L, irq |-> q, begun |-> yes] BY <3>1
      <4> QED BY <2>3, <4>1, <4>2, Zenon
    <3>4. PICK F1 : F1 = [F EXCEPT ![t] = e] OBVIOUS
    <3>5. F1[t] = e /\ DOMAIN F1 = Task BY <2>4, <3>4
    <3>6. [F EXCEPT ![t].left = L] = F1 BY <2>4, <3>2, <3>4
    <3>7. [F1 EXCEPT ![t].begun = TRUE] = [F1 EXCEPT ![t] = d] BY <3>3, <3>5
    <3>8. [F1 EXCEPT ![t] = d] = [F EXCEPT ![t] = d] BY <2>4, <3>4
    <3>9. [F EXCEPT ![t].left = L, ![t].begun = TRUE] = [F1 EXCEPT ![t].begun = TRUE] BY <3>6
    <3> QED BY <3>7, <3>8, <3>9
  <2>6. call' = [F EXCEPT ![t].left = Tail(F[t].left), ![t].begun = TRUE] BY <2>1 DEF Put
  <2> QED BY <1>4, <2>1, <2>4, <2>5, <2>6
<1>9. call'[t] = d /\ d # Nobody /\ \A o \in Task : o # t => call'[o] = call[o]
  BY <1>7, <1>8, ConsoleAssumption DEF CallType
<1>10. UNCHANGED <<line, todo, intr, want, mutex_out, out_irq>> BY DEF Put, screenRest
<1>11. vga' = OnVga(vga, Head(left)) BY <1>1, <1>4 DEF Put
<1>12. ScreenType' BY <1>5, <1>11, ScreenKept DEF ScreenType
<1>13. CallType'
  <2>1. call' \in [Task -> CallRecords \union {Nobody}] BY <1>7, <1>8 DEF CallType
  <2>2. clean' \in BOOLEAN BY DEF Put
  <2> QED BY <1>10, <2>1, <2>2 DEF CallType
<1>14. Guarded' BY <1>1, <1>2, <1>9, <1>10 DEF Guarded
<1>15. FlagsKept'
  <2>1. ASSUME NEW o \in Task PROVE Flag(o)' <=> want[o]
    <3>1. Flag(o) <=> want[o] BY DEF FlagsKept
    <3>2. CASE o = t BY <1>1, <1>2, <1>7, <1>9, <1>10, <3>1, <3>2 DEF Flag
    <3>3. CASE o # t BY <1>9, <1>10, <3>1, <3>3 DEF Flag
    <3> QED BY <3>2, <3>3
  <2> QED BY <1>10, <2>1 DEF FlagsKept
<1>16. ~torn'
  <2>1. \A o \in Task \ {t} : call[o] = Nobody BY <1>1, <1>2 DEF Guarded
  <2>2. ~torn OBVIOUS
  <2>3. torn' <=> (torn \/ \E o \in Task \ {t} : call[o] # Nobody /\ call[o].begun /\ call[o].left # <<>>) BY DEF Put
  <2> QED BY <2>1, <2>2, <2>3
<1>17. todo # <<>> => line # Nobody /\ line.task # t /\ line.task \in Task
  BY <1>1, <1>2 DEF EchoIdle, LineType, LineRecords
<1>18. EchoIdle' BY <1>9, <1>10, <1>17 DEF EchoIdle
<1>19. ASSUME EchoDue PROVE EchoDue'
  <2>1. SUFFICES ASSUME line # Nobody, clean' PROVE Due(vga', line.s, Pending')
    BY <1>10 DEF EchoDue
  <2>2. clean /\ line.task = t BY <2>1 DEF Put, Reading
  <2>3. todo = <<>> BY <1>17, <2>2
  <2>4. Pending = left BY <1>1, <1>2, <1>4, <2>2, <2>3 DEF Pending
  <2>5. Pending' = Tail(left) BY <1>7, <1>9, <1>10, <2>2, <2>3 DEF Pending
  <2>6. Due(vga, line.s, left) BY <1>19, <2>1, <2>2, <2>3, <2>4, EchoedCalls DEF EchoDue
  <2>7. line.s \in Seq(Key) BY <2>1 DEF LineType, LineRecords
  <2>8. Due(OnVga(vga, Head(left)), line.s, Tail(left)) BY <1>5, <2>6, <2>7, DueStep DEF ScreenType
  <2> QED BY <1>11, <2>5, <2>8
<1>20. LineType' BY <1>10 DEF LineType
<1> QED BY <1>12, <1>13, <1>14, <1>15, <1>16, <1>18, <1>19, <1>20

(* The end of a call restores the flag (term_outguard_end()).              *)
LEMMA ReturnKept ==
  ASSUME CallInv, NEW t \in Task, Return(t)
  PROVE  CallInv' /\ (EchoDue => EchoDue')
<1> USE DEF CallInv
<1>1. call[t] # Nobody /\ call[t].left = <<>> /\ mutex_out = t BY DEF Return, Guarded
<1>2. /\ mutex_out' = Nobody /\ call' = [call EXCEPT ![t] = Nobody]
      /\ intr' = [intr EXCEPT ![t] = @ \/ call[t].irq]
  BY DEF Return, term_outguard_end
<1>3. UNCHANGED <<vga, line, todo, torn, clean, want, out_irq>> BY DEF Return, screenRest
<1>4. call'[t] = Nobody /\ \A o \in Task : o # t => call'[o] = call[o] BY <1>2 DEF CallType
<1>5. /\ intr'[t] <=> (intr[t] \/ call[t].irq)
      /\ \A o \in Task : o # t => intr'[o] = intr[o]
  BY <1>2 DEF CallType
<1>6. CallType'
  <2>1. call' \in [Task -> CallRecords \union {Nobody}] BY <1>2 DEF CallType
  <2>2. intr' \in [Task -> BOOLEAN]
    <3>1. (intr[t] \/ call[t].irq) \in BOOLEAN OBVIOUS
    <3> QED BY <1>2, <3>1 DEF CallType
  <2> QED BY <1>3, <2>1, <2>2 DEF CallType
<1>7. Guarded'
  <2>1. \A o \in Task : call'[o] = Nobody BY <1>1, <1>4 DEF Guarded
  <2> QED BY <2>1 DEF Guarded
<1>8. FlagsKept'
  <2>1. ASSUME NEW o \in Task PROVE Flag(o)' <=> want[o]
    <3>1. Flag(o) <=> want[o] BY DEF FlagsKept
    <3>2. CASE o = t BY <1>1, <1>4, <1>5, <3>1, <3>2 DEF Flag
    <3>3. CASE o # t BY <1>4, <1>5, <3>1, <3>3 DEF Flag
    <3> QED BY <3>2, <3>3
  <2> QED BY <1>3, <2>1 DEF FlagsKept
<1>9. ScreenType' /\ LineType' /\ ~torn' BY <1>3 DEF ScreenType, LineType
<1>10. line # Nobody => line.task \in Task BY DEF LineType, LineRecords
<1>11. EchoIdle' BY <1>3, <1>4, <1>10 DEF EchoIdle
<1>12. ASSUME EchoDue PROVE EchoDue'
  <2>1. SUFFICES ASSUME line # Nobody, clean, todo # Echoed("nl") PROVE Due(vga, line.s, Pending')
    BY <1>3 DEF EchoDue
  <2>2. Pending' = Pending
    <3>1. CASE line.task = t
      <4>1. todo = <<>> BY <1>1, <3>1 DEF EchoIdle
      <4> QED BY <1>1, <1>3, <1>4, <3>1, <4>1 DEF Pending
    <3>2. CASE line.task # t
      <4>1. call'[line.task] = call[line.task] BY <1>4, <1>10, <2>1, <3>2
      <4> QED BY <1>3, <4>1 DEF Pending
    <3> QED BY <3>1, <3>2
  <2> QED BY <1>12, <2>1, <2>2 DEF EchoDue
<1> QED BY <1>6, <1>7, <1>8, <1>9, <1>11, <1>12

(* A line starts empty (term_gets()).                                      *)
LEMMA GetsKept ==
  ASSUME CallInv, NEW t \in Task, Gets(t)
  PROVE  CallInv' /\ (EchoDue => EchoDue')
<1> USE DEF CallInv
<1>1. PICK r : r = [task |-> t, s |-> <<>>, keys |-> 0] OBVIOUS
<1>2. line' = r /\ call[t] = Nobody /\ line = Nobody BY <1>1 DEF Gets, Idle
<1>3. <<>> \in Seq(Key) OBVIOUS
<1>4. r \in LineRecords /\ r.task = t /\ r.s = <<>> BY <1>1, <1>3 DEF LineRecords
<1>5. r # Nobody BY <1>4, ConsoleAssumption
<1>6. UNCHANGED <<vga, call, intr, todo, torn, want, out_irq, mutex_out>> /\ clean' = TRUE BY DEF Gets, screenRest
<1>7. todo = <<>> BY <1>2 DEF EchoIdle
<1>8. ScreenType' /\ LineType' /\ ~torn' BY <1>2, <1>4, <1>6 DEF ScreenType, LineType
<1>9. CallType' BY <1>6 DEF CallType
<1>10. Guarded' BY <1>6 DEF Guarded
<1>11. FlagsKept' BY <1>6 DEF FlagsKept, Flag
<1>12. EchoIdle' BY <1>6, <1>7 DEF EchoIdle
<1>13. EchoDue'
  <2>1. Pending' = <<>> BY <1>2, <1>4, <1>6, <1>7 DEF Pending
  <2>2. Stands(vga, <<>>)
    <3>1. \A s : DOMAIN s = {} => Stands(vga, s) BY DEF Stands
    <3>2. DOMAIN <<>> = {} OBVIOUS
    <3> QED BY <3>1, <3>2
  <2>3. Due(vga, <<>>, <<>>) BY <2>2, NothingDue
  <2>4. Due(vga', line'.s, Pending') BY <1>2, <1>4, <1>6, <2>1, <2>3
  <2> QED BY <2>4 DEF EchoDue
<1> QED BY <1>8, <1>9, <1>10, <1>11, <1>12, <1>13

(* A key makes its echo due (term_gets()).                                 *)
LEMMA TypeKeyKept ==
  ASSUME CallInv, NEW t \in Task, TypeKey(t)
  PROVE  CallInv' /\ (PlainKeys /\ EchoDue => EchoDue')
<1> USE DEF CallInv
<1>1. PICK c \in Key :
       /\ todo' = Echoed(c)
       /\ clean' = (clean /\ (c = "bs" => line.s # <<>>))
       /\ line' = [line EXCEPT !.keys = IF c = "nl" THEN MAX_KEYS ELSE @ + 1,
                               !.s = CASE c = "nl" -> @ [] c = "bs" -> Shorter(@) [] OTHER -> Append(@, c)]
  BY DEF TypeKey
<1>2. line # Nobody /\ line.task = t /\ call[t] = Nobody /\ todo = <<>> BY DEF TypeKey, Idle, Reading
<1>3. line \in LineRecords BY <1>2 DEF LineType
<1>4. PICK s, u, k : /\ s = line.s /\ k = (IF c = "nl" THEN MAX_KEYS ELSE line.keys + 1)
                     /\ u = (CASE c = "nl" -> line.s [] c = "bs" -> Shorter(line.s) [] OTHER -> Append(line.s, c))
  OBVIOUS
<1>5. line' = [task |-> t, s |-> u, keys |-> k]
  <2>1. line' = [line EXCEPT !.keys = k, !.s = u] BY <1>1, <1>4
  <2> QED BY <1>2, <1>3, <2>1 DEF LineRecords
<1>6. s \in Seq(Key) /\ k \in Nat BY <1>3, <1>4, ConsoleAssumption DEF LineRecords
<1>7. u \in Seq(Key)
  <2>1. CASE c = "nl" BY <1>4, <1>6, <2>1
  <2>2. CASE c = "bs"
    <3>1. u = Shorter(s) BY <1>4, <2>2
    <3>2. s # <<>> => Shorter(s) \in Seq(Key) BY <1>6, Undone
    <3>3. s = <<>> => Shorter(s) = s BY DEF Shorter
    <3> QED BY <1>6, <3>1, <3>2, <3>3
  <2>3. CASE c # "nl" /\ c # "bs" BY <1>1, <1>4, <1>6, <2>3
  <2> QED BY <2>1, <2>2, <2>3
<1>8. line' \in LineRecords /\ line'.task = t /\ line'.s = u BY <1>5, <1>6, <1>7 DEF LineRecords
<1>9. line' # Nobody BY <1>8, ConsoleAssumption
<1>10. UNCHANGED <<vga, call, intr, torn, want, out_irq, mutex_out>> BY DEF TypeKey, screenRest
<1>11. ScreenType' /\ LineType' /\ ~torn'
  <2>1. todo' \in {Echoed(d) : d \in Key} BY <1>1
  <2> QED BY <1>8, <1>10, <2>1 DEF ScreenType, LineType
<1>12. CallType'
  <2>1. clean' \in BOOLEAN BY <1>1
  <2> QED BY <1>10, <2>1 DEF CallType
<1>13. Guarded' BY <1>10 DEF Guarded
<1>14. FlagsKept' BY <1>10 DEF FlagsKept, Flag
<1>15. EchoIdle' BY <1>2, <1>8, <1>9, <1>10 DEF EchoIdle
<1>16. ASSUME PlainKeys, EchoDue PROVE EchoDue'
  <2>1. SUFFICES ASSUME clean', c # "nl" PROVE Due(vga, u, Pending')
    BY <1>1, <1>8, <1>10 DEF EchoDue
  <2>2. clean /\ (c = "bs" => s # <<>>) BY <1>1, <1>4, <2>1
  <2>3. Pending' = Puts(Echoed(c)) BY <1>1, EchoedCalls DEF Pending
  <2>4. Stands(vga, s)
    <3>1. Pending = <<>> BY <1>2 DEF Pending
    <3>2. todo # Echoed("nl") BY <1>2, EchoedCalls
    <3>3. Due(vga, line.s, <<>>) BY <1>2, <1>16, <2>2, <3>1, <3>2 DEF EchoDue
    <3> QED BY <1>4, <3>3, NothingDue
  <2>5. CASE c = "bs"
    <3>1. s # <<>> /\ u = Shorter(s) BY <1>4, <2>2, <2>5
    <3>2. Last(s) \in Key /\ Append(u, Last(s)) = s BY <1>6, <3>1, Undone
    <3>3. Last(s) \in Glyphs BY <3>2, CellsKept
    <3>4. Pending' = <<Char("bs"), Char(" "), Char("bs")>> BY <2>3, <2>5, EchoedCalls
    <3>5. \E g \in Glyphs : Stands(vga, Append(u, g)) BY <2>4, <3>2, <3>3
    <3> QED BY <3>4, <3>5 DEF Due
  <2>6. CASE c # "bs"
    <3>1. u = Append(s, c) BY <1>4, <2>1, <2>6
    <3>2. u # <<>> /\ Shorter(u) = s BY <1>6, <3>1, Appended
    <3>3. Last(u) = c
      <4>1. Len(u) = Len(s) + 1 /\ u[Len(s) + 1] = c BY <1>6, <3>1, Appended
      <4> QED BY <4>1 DEF Last
    <3>4. c \notin Specials BY <1>16, <2>1, <2>6 DEF PlainKeys, Specials
    <3>5. Pending' = <<Char(c)>> BY <2>1, <2>3, <2>6, EchoedCalls
    <3> QED BY <2>4, <3>2, <3>3, <3>4, <3>5 DEF Due
  <2> QED BY <2>5, <2>6
<1> QED BY <1>11, <1>12, <1>13, <1>14, <1>15, <1>16

(* The echo becomes a call (term_gets()).                                  *)
LEMMA EchoKept ==
  ASSUME CallInv, NEW t \in Task, Echo(t)
  PROVE  CallInv' /\ (EchoDue => EchoDue')
<1> USE DEF CallInv
<1>1. PICK elems : elems = Puts(todo) OBVIOUS
<1>2. line # Nobody /\ line.task = t /\ call[t] = Nobody /\ todo # <<>> /\ todo' = <<>>
  BY DEF Echo, Idle, Reading
<1>3. PICK c \in Key : todo = Echoed(c) BY <1>2 DEF LineType
<1>4. elems \in Seq(Elements)
  <2>1. CASE c = "nl" BY <1>1, <1>3, <2>1, EchoedCalls
  <2>2. CASE c = "bs" BY <1>1, <1>3, <2>2, EchoedCalls
  <2>3. CASE c # "nl" /\ c # "bs" BY <1>1, <1>3, <2>3, EchoedCalls
  <2> QED BY <2>1, <2>2, <2>3
<1>5. UNCHANGED <<vga, torn, clean, want, out_irq>> BY DEF Echo, screenRest
<1>6. term_outguard_start(t, elems) BY <1>1 DEF Echo
<1>7. /\ CallType' /\ Guarded' /\ FlagsKept'
      /\ call'[t] # Nobody /\ call'[t].left = elems
  BY <1>2, <1>4, <1>5, <1>6, CallStarted
<1>8. line' = IF todo = Echoed("nl") THEN Nobody ELSE line BY DEF Echo
<1>9. ScreenType' /\ LineType' /\ ~torn' BY <1>2, <1>5, <1>8 DEF ScreenType, LineType
<1>10. EchoIdle' BY <1>2 DEF EchoIdle
<1>11. ASSUME EchoDue PROVE EchoDue'
  <2>1. SUFFICES ASSUME todo # Echoed("nl"), clean PROVE Due(vga, line.s, Pending')
    BY <1>5, <1>8 DEF EchoDue
  <2>2. Pending = elems BY <1>1, <1>2 DEF Pending
  <2>3. Pending' = elems BY <1>2, <1>7, <1>8, <2>1 DEF Pending
  <2> QED BY <1>2, <1>11, <2>1, <2>2, <2>3 DEF EchoDue
<1> QED BY <1>7, <1>9, <1>10, <1>11

(* A task sets its own flag (intr_enable(), intr_disable()).               *)
LEMMA SetIntrKept ==
  ASSUME CallInv, NEW t \in Task, SetIntr(t)
  PROVE  CallInv' /\ (EchoDue => EchoDue')
<1> USE DEF CallInv
<1>1. call[t] = Nobody /\ want' = [want EXCEPT ![t] = ~@] /\ intr' = [intr EXCEPT ![t] = ~@] BY DEF SetIntr, Idle
<1>2. UNCHANGED <<vga, call, line, todo, torn, clean, out_irq, mutex_out>> BY DEF SetIntr, screenRest
<1>3. (~intr[t]) \in BOOLEAN /\ (~want[t]) \in BOOLEAN OBVIOUS
<1>4. intr' \in [Task -> BOOLEAN] /\ want' \in [Task -> BOOLEAN] BY <1>1, <1>3 DEF CallType
<1>5. /\ (intr'[t] <=> ~intr[t]) /\ (want'[t] <=> ~want[t])
      /\ \A o \in Task : o # t => intr'[o] = intr[o] /\ want'[o] = want[o]
  BY <1>1 DEF CallType
<1>6. CallType' BY <1>2, <1>4 DEF CallType
<1>7. FlagsKept'
  <2>1. ASSUME NEW o \in Task PROVE Flag(o)' <=> want'[o]
    <3>1. Flag(o) <=> want[o] BY DEF FlagsKept
    <3>2. CASE o = t BY <1>1, <1>2, <1>5, <3>1, <3>2 DEF Flag
    <3>3. CASE o # t BY <1>2, <1>5, <3>1, <3>3 DEF Flag
    <3> QED BY <3>2, <3>3
  <2> QED BY <2>1 DEF FlagsKept
<1>8. ScreenType' /\ LineType' /\ Guarded' /\ ~torn' BY <1>2 DEF ScreenType, LineType, Guarded
<1>9. EchoIdle' BY <1>2 DEF EchoIdle
<1>10. EchoDue => EchoDue' BY <1>2 DEF EchoDue, Pending
<1> QED BY <1>6, <1>7, <1>8, <1>9, <1>10

(* The timer, and the framebuffer it commits, change nothing of this.      *)
LEMMA IdleKept ==
  ASSUME CallInv, UNCHANGED <<vga, intr, want, call, line, todo, torn, clean, out_irq, mutex_out>>
  PROVE  CallInv' /\ (EchoDue => EchoDue')
<1> USE DEF CallInv
<1>1. ScreenType' /\ LineType' /\ Guarded' /\ ~torn' BY DEF ScreenType, LineType, Guarded
<1>2. CallType' BY DEF CallType
<1>3. FlagsKept' BY DEF FlagsKept, Flag
<1>4. EchoIdle' BY DEF EchoIdle
<1>5. EchoDue => EchoDue' BY DEF EchoDue, Pending
<1> QED BY <1>1, <1>2, <1>3, <1>4, <1>5

(* The terminal as term_init() leaves it.                                  *)
LEMMA StartsWhole ==
  ASSUME ConsoleInit
  PROVE  ConsoleInv
<1>0. W \in Nat /\ W > 0 /\ H \in Nat /\ H > 0 BY ConsoleAssumption
<1>1. /\ vga = [x |-> 0, y |-> 0, fg |-> 7, bg |-> 0, cells |-> [p \in Place |-> Cell(" ", 7, 0)]]
      /\ intr = [t \in Task |-> TRUE] /\ want = [t \in Task |-> TRUE] /\ out_irq \in BOOLEAN
      /\ call = [t \in Task |-> Nobody] /\ line = Nobody /\ todo = <<>> /\ torn = FALSE /\ clean = TRUE
  BY DEF ConsoleInit, ConsoleStart
<1>2. ScreenType
  <2>1. PICK cells : cells = [p \in Place |-> Cell(" ", 7, 0)] OBVIOUS
  <2>2. cells \in Cells BY <2>1, CellsKept DEF Cells
  <2>3. vga = [x |-> 0, y |-> 0, fg |-> 7, bg |-> 0, cells |-> cells] BY <1>1, <2>1
  <2> QED BY <1>0, <2>2, <2>3 DEF ScreenType, Screens
<1>3. CallType BY <1>1 DEF CallType
<1>4. LineType /\ Guarded /\ EchoIdle /\ EchoDue /\ ~torn BY <1>1 DEF LineType, Guarded, EchoIdle, EchoDue
<1>5. FlagsKept BY <1>1 DEF FlagsKept, Flag
<1> QED BY <1>2, <1>3, <1>4, <1>5 DEF ConsoleInv, CallInv

(* Every step keeps the invariant.                                         *)
LEMMA StepsKept ==
  ASSUME CallInv, [ConsoleNext]_consoleVars
  PROVE  CallInv' /\ (PlainKeys /\ EchoDue => EchoDue')
<1>1. CASE UNCHANGED consoleVars BY <1>1, IdleKept DEF consoleVars
<1>2. CASE timer_handler BY <1>2, IdleKept DEF timer_handler
<1>3. ASSUME NEW t \in Task, Call(t) PROVE CallInv' /\ (EchoDue => EchoDue') BY <1>3, CallKept
<1>4. ASSUME NEW t \in Task, Put(t) PROVE CallInv' /\ (EchoDue => EchoDue') BY <1>4, PutKept
<1>5. ASSUME NEW t \in Task, Return(t) PROVE CallInv' /\ (EchoDue => EchoDue') BY <1>5, ReturnKept
<1>6. ASSUME NEW t \in Task, Gets(t) PROVE CallInv' /\ (EchoDue => EchoDue') BY <1>6, GetsKept
<1>7. ASSUME NEW t \in Task, TypeKey(t) PROVE CallInv' /\ (PlainKeys /\ EchoDue => EchoDue') BY <1>7, TypeKeyKept
<1>8. ASSUME NEW t \in Task, Echo(t) PROVE CallInv' /\ (EchoDue => EchoDue') BY <1>8, EchoKept
<1>9. ASSUME NEW t \in Task, SetIntr(t) PROVE CallInv' /\ (EchoDue => EchoDue') BY <1>9, SetIntrKept
<1> QED BY <1>1, <1>2, <1>3, <1>4, <1>5, <1>6, <1>7, <1>8, <1>9 DEF ConsoleNext

LEMMA StepsWhole ==
  ASSUME ConsoleInv, PlainKeys, [ConsoleNext]_consoleVars
  PROVE  ConsoleInv'
BY StepsKept DEF ConsoleInv

(* The invariant says that output is whole.                                *)
LEMMA CallsThen ==
  ASSUME CallInv
  PROVE  CallsWhole
<1> USE DEF CallInv
<1>1. ASSUME NEW t \in Task, call[t] = Nobody PROVE intr[t] = want[t]
  <2>1. intr[t] <=> want[t] BY <1>1 DEF FlagsKept, Flag
  <2>2. intr[t] \in BOOLEAN /\ want[t] \in BOOLEAN BY DEF CallType
  <2> QED BY <2>1, <2>2
<1> QED BY <1>1 DEF CallsWhole

LEMMA WholeThen ==
  ASSUME ConsoleInv
  PROVE  OutputWhole
<1>1. CallsWhole BY CallsThen DEF ConsoleInv
<1>2. LineEchoed
  <2>1. SUFFICES ASSUME line # Nobody, todo = <<>>, clean, call[line.task] = Nobody PROVE Stands(vga, line.s)
    BY DEF LineEchoed
  <2>2. Pending = <<>> /\ todo # Echoed("nl") BY <2>1, EchoedCalls DEF Pending
  <2>3. Due(vga, line.s, <<>>) BY <2>1, <2>2 DEF EchoDue, ConsoleInv
  <2> QED BY <2>3, NothingDue
<1> QED BY <1>1, <1>2 DEF OutputWhole

(* Whatever is typed, no task's output is cut into by another's, and a     *)
(* call leaves the interrupt flag as it found it (term_outguard_start(),   *)
(* term_outguard_end()).                                                   *)
THEOREM CallsWholeHolds == ConsoleSpec => []CallsWhole
<1>1. ConsoleInit => CallInv BY StartsWhole DEF ConsoleInv
<1>2. CallInv /\ [ConsoleNext]_consoleVars => CallInv' BY StepsKept
<1>3. CallInv => CallsWhole BY CallsThen
<1> QED BY <1>1, <1>2, <1>3, PTL DEF ConsoleSpec

(* Whoever prints, and whatever, the calls of others are not cut into, the *)
(* interrupt flag is as its owner left it, and what term_gets() has read   *)
(* stands before the cursor as far as it is on the screen, on a screen of  *)
(* any size (term_outguard_start(), term_outguard_end(), term_gets(),      *)
(* vgaterm_putc_stub()).                                                   *)
THEOREM OutputWholeHolds ==
  ASSUME PlainKeys
  PROVE  ConsoleSpec => []OutputWhole
<1>1. ConsoleInit => ConsoleInv BY StartsWhole
<1>2. ConsoleInv /\ [ConsoleNext]_consoleVars => ConsoleInv' BY StepsWhole
<1>3. ConsoleInv => OutputWhole BY WholeThen
<1> QED BY <1>1, <1>2, <1>3, PTL DEF ConsoleSpec

-----------------------------------------------------------------------------
(* The framebuffer. What is drawn on are cells of a character and the two  *)
(* colours; as on the other screen, the cursor may stand past the end of a *)
(* row until it wraps.                                                     *)
Shades == {Palette[i] : i \in Nat}
FbCells == [Place -> Glyphs \X Shades \X Shades]
WideBuffers ==
  [x : 0..W, y : 0..H - 1, fg : Shades, bg : Shades, front : FbCells, back : FbCells,
   dirty : SUBSET Rows, flip_all : BOOLEAN, committed : BOOLEAN, hung : BOOLEAN]
Buffers == {f \in WideBuffers : f.x < W}
Shown(f) == fbmode.back /\ (fbmode.direct \/ f.committed) => f.front = f.back
SameCells(f, g) == g.front = f.front /\ g.back = f.back /\ g.committed = f.committed
SameCursor(f, g) == g.x = f.x /\ g.y = f.y
SameColors(f, g) == g.fg = f.fg /\ g.bg = f.bg

(* Moving the cursor, or taking another colour, changes no cell. *)
LEMMA CursorSet ==
  ASSUME NEW f \in WideBuffers, NEW x \in 0..W, NEW y \in 0..H - 1, NEW g, g = [f EXCEPT !.x = x, !.y = y]
  PROVE  g \in WideBuffers /\ g.x = x /\ g.y = y /\ SameColors(f, g) /\ SameCells(f, g)
BY DEF WideBuffers, SameColors, SameCells

LEMMA ColumnSet ==
  ASSUME NEW f \in WideBuffers, NEW x \in 0..W, NEW g, g = [f EXCEPT !.x = x]
  PROVE  g \in WideBuffers /\ g.x = x /\ g.y = f.y /\ SameColors(f, g) /\ SameCells(f, g)
BY DEF WideBuffers, SameColors, SameCells

LEMMA ColorSet ==
  ASSUME NEW f \in WideBuffers, NEW c \in Shades, NEW g
  PROVE  /\ g = [f EXCEPT !.fg = c] => g \in WideBuffers /\ g.fg = c /\ g.bg = f.bg /\ SameCursor(f, g) /\ SameCells(f, g)
         /\ g = [f EXCEPT !.bg = c] => g \in WideBuffers /\ g.fg = f.fg /\ g.bg = c /\ SameCursor(f, g) /\ SameCells(f, g)
BY DEF WideBuffers, SameCursor, SameCells

LEMMA SameShown ==
  ASSUME NEW f, NEW g, SameCells(f, g)
  PROVE  Source(g) = Source(f) /\ (Shown(f) => Shown(g))
BY DEF SameCells, Source, Shown

LEMMA FrontSet ==
  ASSUME NEW f \in WideBuffers, NEW cells \in FbCells, NEW g, g = [f EXCEPT !.front = cells]
  PROVE  /\ g \in WideBuffers /\ SameCursor(f, g) /\ SameColors(f, g)
         /\ g.front = cells /\ g.back = f.back
BY DEF WideBuffers, SameCursor, SameColors

LEMMA MarkSet ==
  ASSUME NEW f \in WideBuffers, NEW b \in BOOLEAN, NEW g,
         \/ \E rows \in SUBSET Rows : g = [f EXCEPT !.dirty = rows]
         \/ g = [f EXCEPT !.flip_all = b] \/ g = [f EXCEPT !.hung = b]
  PROVE  g \in WideBuffers /\ SameCursor(f, g) /\ SameColors(f, g) /\ SameCells(f, g)
<1>1. CASE \E rows \in SUBSET Rows : g = [f EXCEPT !.dirty = rows]
  BY <1>1 DEF WideBuffers, SameCursor, SameColors, SameCells
<1>2. CASE g = [f EXCEPT !.flip_all = b] BY <1>2 DEF WideBuffers, SameCursor, SameColors, SameCells
<1>3. CASE g = [f EXCEPT !.hung = b] BY <1>3 DEF WideBuffers, SameCursor, SameColors, SameCells
<1> QED BY <1>1, <1>2, <1>3

(* What is drawn is what the terminal draws on next, and is shown unless   *)
(* it waits for the commit (fbuf.c).                                       *)
LEMMA DrawIs ==
  ASSUME NEW f \in WideBuffers, NEW cells \in FbCells, NEW rows \in SUBSET Rows, NEW g, g = Draw(f, cells, rows)
  PROVE  g \in WideBuffers /\ SameCursor(f, g) /\ SameColors(f, g) /\ Source(g) = cells /\ Shown(g)
<1>2. PICK u : u = ToBack(f, cells, rows) OBVIOUS
<1>3. g = ToFront(u, cells) BY <1>2 DEF Draw
<1>4. fbmode.back => u = [f EXCEPT !.back = cells, !.dirty = @ \union rows, !.committed = FALSE] BY <1>2, Zenon DEF ToBack
<1>5. ~fbmode.back => u = f BY <1>2, Zenon DEF ToBack
<1>6. /\ u \in WideBuffers /\ SameCursor(f, u) /\ SameColors(f, u)
      /\ fbmode.back => u.back = cells /\ ~u.committed
  <2>1. CASE fbmode.back
    <3>1. PICK no, all : no = FALSE /\ all = f.dirty \union rows OBVIOUS
    <3>4. f.dirty \in SUBSET Rows BY DEF WideBuffers
    <3>2. all \in SUBSET Rows BY <3>1, <3>4
    <3>3. u = [f EXCEPT !.back = cells, !.dirty = all, !.committed = no] BY <1>4, <2>1, <3>1, Zenon
    <3>5. u.committed = no /\ u.back = cells /\ SameCursor(f, u) /\ SameColors(f, u)
      BY <3>3 DEF WideBuffers, SameCursor, SameColors
    <3>6. no \in BOOLEAN BY <3>1, Zenon
    <3>7. u \in WideBuffers BY <3>2, <3>3, <3>6 DEF WideBuffers
    <3> QED BY <3>1, <3>5, <3>7, Zenon
  <2>2. CASE ~fbmode.back BY <2>2, <1>5 DEF SameCursor, SameColors
  <2> QED BY <2>1, <2>2
<1>7. /\ fbmode.direct \/ ~fbmode.back => g = [u EXCEPT !.front = cells]
      /\ ~(fbmode.direct \/ ~fbmode.back) => g = u
  BY <1>3, Zenon DEF ToFront
<1>8. CASE fbmode.direct \/ ~fbmode.back
  <2>1. g = [u EXCEPT !.front = cells] BY <1>7, <1>8, Zenon
  <2>2. g \in WideBuffers /\ SameCursor(u, g) /\ SameColors(u, g) /\ g.front = cells /\ g.back = u.back
    BY <1>6, <2>1, FrontSet
  <2> QED BY <1>6, <2>2 DEF SameCursor, SameColors, Source, Shown
<1>9. CASE ~(fbmode.direct \/ ~fbmode.back)
  <2>1. g = u /\ fbmode.back /\ ~fbmode.direct BY <1>7, <1>9
  <2>2. ~u.committed BY <1>6, <2>1
  <2> QED BY <1>6, <2>1, <2>2 DEF Source, Shown
<1> QED BY <1>8, <1>9

(* What a terminal draws on is made of cells. *)
LEMMA SourceCells ==
  ASSUME NEW f \in WideBuffers
  PROVE  /\ Source(f) \in FbCells /\ f.fg \in Shades /\ f.bg \in Shades /\ f.x \in 0..W /\ f.y \in 0..H - 1
         /\ \A c \in Glyphs : Drawn(c, f.fg, f.bg) \in Glyphs \X Shades \X Shades
         /\ Cell(" ", f.bg, f.bg) \in Glyphs \X Shades \X Shades
<1>1. f.front \in FbCells /\ f.back \in FbCells /\ f.fg \in Shades /\ f.bg \in Shades /\ f.x \in 0..W /\ f.y \in 0..H - 1
  BY DEF WideBuffers
<1>2. " " \in Glyphs BY CellsKept
<1>3. \A c \in Glyphs, p \in Shades, q \in Shades : Cell(c, p, q) \in Glyphs \X Shades \X Shades BY DEF Cell
<1>4. \A c \in Glyphs : Drawn(c, f.fg, f.bg) \in Glyphs \X Shades \X Shades BY <1>1, <1>3 DEF Drawn
<1> QED BY <1>1, <1>2, <1>3, <1>4 DEF Source

(* The rows move up by one, and the whole buffer is due (fbuf_scroll_up()). *)
LEMMA ScrollIs ==
  ASSUME NEW f \in WideBuffers, NEW g, g = fbuf_scroll_up(f, f.bg)
  PROVE  /\ g \in WideBuffers /\ SameCursor(f, g) /\ SameColors(f, g)
         /\ Source(g) = Scrolled(Source(f), Cell(" ", f.bg, f.bg)) /\ Shown(g)
<1>1. PICK cells : cells = Scrolled(Source(f), Cell(" ", f.bg, f.bg)) OBVIOUS
<1>2. cells \in FbCells
  <2>1. PICK from, blank : from = Source(f) /\ blank = Cell(" ", f.bg, f.bg) OBVIOUS
  <2>2. from \in [Place -> Glyphs \X Shades \X Shades] /\ blank \in Glyphs \X Shades \X Shades
    BY <2>1, SourceCells DEF FbCells
  <2>3. cells = [p \in Place |-> IF p + W \in Place THEN from[p + W] ELSE blank] BY <1>1, <2>1 DEF Scrolled
  <2> QED BY <2>2, <2>3 DEF FbCells
<1>3. PICK m : m = Draw(f, cells, Rows) OBVIOUS
<1>4. m \in WideBuffers /\ SameCursor(f, m) /\ SameColors(f, m) /\ Source(m) = cells /\ Shown(m)
  <2>1. Rows \in SUBSET Rows OBVIOUS
  <2> QED BY <1>2, <1>3, <2>1, DrawIs
<1>5. g = IF fbmode.back THEN [m EXCEPT !.flip_all = TRUE] ELSE m BY <1>1, <1>3 DEF fbuf_scroll_up
<1>6. CASE fbmode.back
  <2>1. PICK yes : yes = TRUE OBVIOUS
  <2>2. g = [m EXCEPT !.flip_all = yes] BY <1>5, <1>6, <2>1, Zenon
  <2>3. yes \in BOOLEAN BY <2>1, Zenon
  <2>4. g \in WideBuffers BY <1>4, <2>2, <2>3 DEF WideBuffers
  <2>5. SameCursor(m, g) /\ SameColors(m, g) /\ SameCells(m, g)
    BY <1>4, <2>2 DEF WideBuffers, SameCursor, SameColors, SameCells
  <2> QED BY <1>1, <1>4, <2>4, <2>5, SameShown DEF SameCursor, SameColors
<1>7. CASE ~fbmode.back
  <2>1. g = m BY <1>5, <1>7, Zenon
  <2> QED BY <1>1, <1>4, <2>1
<1> QED BY <1>6, <1>7

(* A new row (fbterm_newline()). *)
LEMMA FbNewRow ==
  ASSUME NEW f \in WideBuffers, NEW g, g = fbterm_newline(f)
  PROVE  /\ g \in Buffers /\ SameColors(f, g) /\ g.x = 0
         /\ g.y = IF f.y + 1 = H THEN H - 1 ELSE f.y + 1
         /\ Source(g) = IF f.y + 1 = H THEN Scrolled(Source(f), Cell(" ", f.bg, f.bg)) ELSE Source(f)
         /\ Shown(f) => Shown(g)
<1>0. W \in Nat /\ W > 0 /\ H \in Nat /\ H > 0 BY ConsoleAssumption
<1>1. W \in Nat /\ W > 0 /\ H \in Nat /\ H > 0 /\ f.y \in 0..H - 1 BY <1>0, SourceCells
<1>2. CASE f.y + 1 = H
  <2>1. PICK u : u = [f EXCEPT !.x = 0] OBVIOUS
  <2>2. u \in WideBuffers /\ u.x = 0 /\ u.y = f.y /\ SameColors(f, u) /\ SameCells(f, u)
    <3>1. 0 \in 0..W BY <1>1
    <3> QED BY <2>1, <3>1, ColumnSet
  <2>3. g = fbuf_scroll_up(u, u.bg) BY <1>2, <2>1, <2>2 DEF fbterm_newline, SameColors
  <2>4. /\ g \in WideBuffers /\ SameCursor(u, g) /\ SameColors(u, g)
        /\ Source(g) = Scrolled(Source(u), Cell(" ", u.bg, u.bg)) /\ Shown(g)
    BY <2>2, <2>3, ScrollIs
  <2>5. Source(u) = Source(f) BY <2>2, SameShown
  <2>6. f.y = H - 1 BY <1>1, <1>2
  <2> QED BY <1>1, <1>2, <2>2, <2>4, <2>5, <2>6 DEF Buffers, SameColors, SameCursor
<1>3. CASE f.y + 1 # H
  <2>1. g = [f EXCEPT !.x = 0, !.y = @ + 1] BY <1>3 DEF fbterm_newline
  <2>2. PICK y : y = f.y + 1 OBVIOUS
  <2>3. y \in 0..H - 1 /\ g = [f EXCEPT !.x = 0, !.y = y] BY <1>1, <1>3, <2>1, <2>2
  <2>4. g \in WideBuffers /\ g.x = 0 /\ g.y = y /\ SameColors(f, g) /\ SameCells(f, g)
    <3>1. 0 \in 0..W BY <1>1
    <3> QED BY <2>3, <3>1, CursorSet
  <2> QED BY <1>1, <1>3, <2>2, <2>4, SameShown DEF Buffers
<1> QED BY <1>2, <1>3

(* A character is drawn where the cursor stands (fbuf_putc_stub()). *)
LEMMA FbCharIs ==
  ASSUME NEW f \in Buffers, NEW c \in Glyphs, NEW g, g = FbChar(f, c)
  PROVE  /\ g \in WideBuffers /\ SameColors(f, g) /\ g.x = f.x + 1 /\ g.y = f.y
         /\ f.y * W + f.x \in Place
         /\ Source(g) = [Source(f) EXCEPT ![f.y * W + f.x] = Drawn(c, f.fg, f.bg)]
         /\ Shown(f) => Shown(g)
<1>1. f \in WideBuffers /\ f.x < W BY DEF Buffers
<1>0. W \in Nat /\ W > 0 /\ H \in Nat BY ConsoleAssumption
<1>2. W \in Nat /\ W > 0 /\ H \in Nat /\ f.x \in 0..W /\ f.y \in 0..H - 1 BY <1>0, <1>1, SourceCells
<1>3. PICK p : p = f.y * W + f.x OBVIOUS
<1>4. p \in Place
  <2>1. PICK x, y : x = f.x /\ y = f.y OBVIOUS
  <2>2. W * H \in Nat /\ y * W \in Nat /\ y * W + W <= W * H BY <1>2, <2>1, Rowwise
  <2>3. PICK a, b : a = y * W /\ b = W * H OBVIOUS
  <2>4. a + x \in 0..b - 1 BY <1>1, <1>2, <2>1, <2>2, <2>3
  <2> QED BY <1>3, <2>1, <2>3, <2>4 DEF Place
<1>5. PICK cell, from : cell = Drawn(c, f.fg, f.bg) /\ from = Source(f) OBVIOUS
<1>6. PICK cells : cells = [from EXCEPT ![p] = cell] OBVIOUS
<1>7. cells \in FbCells BY <1>1, <1>5, <1>6, SourceCells DEF FbCells
<1>8. PICK u : u = Draw(f, cells, {Row(p)}) OBVIOUS
<1>9. {Row(p)} \in SUBSET Rows BY <1>4 DEF Rows
<1>10. u \in WideBuffers /\ SameCursor(f, u) /\ SameColors(f, u) /\ Source(u) = cells /\ Shown(u)
  BY <1>1, <1>7, <1>8, <1>9, DrawIs
<1>11. u = fbuf_putc_stub(f, p, cell) BY <1>4, <1>5, <1>6, <1>8 DEF fbuf_putc_stub
<1>12. PICK x : x = f.x + 1 OBVIOUS
<1>13. x \in 0..W /\ g = [u EXCEPT !.x = x]
  <2>1. g = [u EXCEPT !.x = @ + 1] BY <1>3, <1>5, <1>11 DEF FbChar
  <2> QED BY <1>1, <1>2, <1>10, <1>12, <2>1 DEF SameCursor
<1>14. g \in WideBuffers /\ g.x = x /\ g.y = u.y /\ SameColors(u, g) /\ SameCells(u, g)
  BY <1>10, <1>13, ColumnSet
<1>15. Source(g) = cells /\ Shown(g) BY <1>10, <1>14, SameShown
<1> QED BY <1>3, <1>4, <1>5, <1>6, <1>10, <1>12, <1>14, <1>15 DEF SameCursor, SameColors

-----------------------------------------------------------------------------
(* Where a row ends for the one and for the other. *)
LEMMA RoomLeft ==
  ASSUME NEW x \in 0..W
  PROVE  /\ Room(x) \in Nat /\ FONT_W \in Nat
         /\ Room(x) < FONT_W <=> x = W
<1>0. W \in Nat /\ W > 0 BY ConsoleAssumption
<1>1. FONT_W \in Nat /\ FONT_W > 0 /\ RIM \in 0..FONT_W - 1 /\ WORD \in Nat /\ W * FONT_W + RIM < WORD
  BY ScreenAssumption DEF Width
<1>2. PICK d : d = W - x OBVIOUS
<1>3. d \in Nat /\ (d = 0 <=> x = W) BY <1>0, <1>2
<1>4. d * FONT_W \in Nat /\ (d > 0 => d * FONT_W >= FONT_W) /\ (d = 0 => d * FONT_W = 0) BY <1>1, <1>3, SMTT(30)
<1>5. W * FONT_W \in Nat /\ x * FONT_W \in Nat BY <1>0, <1>1, SMTT(30)
<1>6. W * FONT_W - x * FONT_W = d * FONT_W BY <1>0, <1>1, <1>2, SMTT(30)
<1>7. PICK a, b, m : a = W * FONT_W /\ b = x * FONT_W /\ m = d * FONT_W OBVIOUS
<1>8. (a + RIM) - b = m + RIM /\ m + RIM \in 0..WORD - 1 BY <1>1, <1>4, <1>5, <1>6, <1>7
<1>9. Room(x) = (m + RIM) % WORD
  <2>1. Room(x) = ((W * FONT_W + RIM) - x * FONT_W) % WORD BY DEF Room, Width
  <2>2. Room(x) = ((a + RIM) - b) % WORD BY <1>7, <2>1
  <2> QED BY <1>8, <2>2
<1>10. Room(x) = m + RIM BY <1>1, <1>8, <1>9
<1>11. m \in Nat /\ (d > 0 => m >= FONT_W) /\ (d = 0 => m = 0) BY <1>4, <1>7
<1> QED BY <1>1, <1>3, <1>10, <1>11

LEMMA Quotient ==
  ASSUME NEW k \in Nat, NEW r \in Nat, NEW n \in Nat, r < n
  PROVE  (k * n + r) \div n = k
OBVIOUS

LEMMA ColumnsFit == Width \div FONT_W = W
<1>0. W \in Nat BY ConsoleAssumption
<1>1. FONT_W \in Nat /\ RIM \in Nat /\ RIM < FONT_W BY ScreenAssumption
<1> QED BY <1>0, <1>1, Quotient DEF Width

(* The text terminal's order of the colours is its own inverse             *)
(* (vgaterm_idxmap).                                                       *)
LEMMA IdxTwice ==
  ASSUME NEW i \in 0..15
  PROVE  /\ IdxMap(i) \in 0..15 /\ IdxMap(IdxMap(i)) = i
         /\ i < 8 => IdxMap(i) < 8
<1>1. i + 1 \in 1..16 OBVIOUS
<1>2. \A j \in 1..16 : vgaterm_idxmap[j] \in 0..15 /\ vgaterm_idxmap[vgaterm_idxmap[j] + 1] = j - 1
                            /\ (j < 9 => vgaterm_idxmap[j] < 8)
  BY DEF vgaterm_idxmap
<1>3. PICK k : k = vgaterm_idxmap[i + 1] OBVIOUS
<1> QED BY <1>1, <1>2, <1>3 DEF IdxMap

LEMMA IndexFound ==
  ASSUME NEW i \in 0..15
  PROVE  Indexed(Palette[i]) = i
<1>1. PICK S : S = {j \in DOMAIN Palette : Palette[j] = Palette[i]} OBVIOUS
<1>2. S \subseteq Nat /\ i \in S BY <1>1, ScreenAssumption
<1>3. \A j \in S : i <= j
  <2>1. SUFFICES ASSUME NEW j \in S, j < i PROVE FALSE BY <1>2
  <2>2. j \in 0..15 BY <1>2, <2>1
  <2> QED BY <1>1, <2>1, <2>2, ScreenAssumption
<1>4. \A k \in S : (\A j \in S : k <= j) => k = i BY <1>2, <1>3
<1>5. (CHOOSE k \in S : \A j \in S : k <= j) = i BY <1>2, <1>3, <1>4
<1> QED BY <1>1, <1>5 DEF Indexed

(* A blank on the same ground looks the same, in whatever colour.          *)
LEMMA LooksAlike ==
  ASSUME NEW p \in Nat, NEW q \in Nat, NEW bg, bg = Palette[IdxMap(q)]
  PROVE  VgaLook(Cell(" ", p, q)) = FbLook(Cell(" ", bg, bg))
BY DEF VgaLook, FbLook, Look, Cell

Alike(v, f) == \A p \in Place : VgaLook(v.cells[p]) = FbLook(Source(f)[p])
Twin(v, f) ==
  /\ v.fg \in 0..15 /\ v.bg \in 0..15
  /\ f.x = v.x /\ f.y = v.y /\ f.fg = Palette[IdxMap(v.fg)] /\ f.bg = Palette[IdxMap(v.bg)]
  /\ Alike(v, f)

(* A character drawn at both cursors, and a blank for a tab, looks the same *)
(* (vgaterm_putc_stub(), fbterm_putc_stub()).                              *)
LEMMA TwinDraw ==
  ASSUME NEW v \in WideScreens, NEW f \in Buffers, Twin(v, f), NEW c \in Glyphs,
         NEW u, u.x = v.x + 1, u.y = v.y, u.fg = v.fg, u.bg = v.bg,
         \A p \in Place : u.cells[p] = IF p = v.y * W + v.x THEN Cell(c, v.fg, v.bg) ELSE v.cells[p],
         NEW g, g = FbChar(f, c)
  PROVE  g \in WideBuffers /\ Twin(u, g)
<1>1. /\ g \in WideBuffers /\ SameColors(f, g) /\ g.x = f.x + 1 /\ g.y = f.y
      /\ f.y * W + f.x \in Place
      /\ Source(g) = [Source(f) EXCEPT ![f.y * W + f.x] = Drawn(c, f.fg, f.bg)]
  BY FbCharIs
<1>2. PICK q : q = f.y * W + f.x OBVIOUS
<1>3. q = v.y * W + v.x BY <1>2 DEF Twin
<1>4. PICK from, cell : from = Source(f) /\ cell = Drawn(c, f.fg, f.bg) OBVIOUS
<1>5. from \in [Place -> Glyphs \X Shades \X Shades]
  <2>1. f \in WideBuffers BY DEF Buffers
  <2> QED BY <1>4, <2>1, SourceCells DEF FbCells
<1>6. Source(g)[q] = cell /\ \A p \in Place : p # q => Source(g)[p] = from[p]
  <2>1. q \in Place /\ Source(g) = [from EXCEPT ![q] = cell] BY <1>1, <1>2, <1>4
  <2>2. PICK to : to = Source(g) OBVIOUS
  <2>3. to = [from EXCEPT ![q] = cell] BY <2>1, <2>2
  <2>4. to[q] = cell /\ \A p \in Place : p # q => to[p] = from[p] BY <1>5, <2>1, <2>3
  <2> QED BY <2>2, <2>4
<1>7. VgaLook(Cell(c, v.fg, v.bg)) = FbLook(cell)
  <2>1. PICK i, j, fg, bg : i = v.fg /\ j = v.bg /\ fg = f.fg /\ bg = f.bg OBVIOUS
  <2>2. i \in Nat /\ j \in Nat /\ fg = Palette[IdxMap(i)] /\ bg = Palette[IdxMap(j)] BY <2>1 DEF Twin
  <2>3. VgaLook(Cell(c, i, j)) = FbLook(Drawn(c, fg, bg)) BY <2>2 DEF VgaLook, FbLook, Look, Cell, Drawn
  <2> QED BY <1>4, <2>1, <2>3
<1>8. ASSUME NEW p \in Place PROVE VgaLook(u.cells[p]) = FbLook(Source(g)[p])
  <2>1. CASE p = q BY <1>3, <1>6, <1>7, <2>1
  <2>2. CASE p # q
    <3>1. u.cells[p] = v.cells[p] /\ Source(g)[p] = from[p] BY <1>3, <1>6, <2>2
    <3>2. VgaLook(v.cells[p]) = FbLook(from[p]) BY <1>4 DEF Twin, Alike
    <3> QED BY <3>1, <3>2
  <2> QED BY <2>1, <2>2
<1>9. Alike(u, g) BY <1>8 DEF Alike
<1> QED BY <1>1, <1>9 DEF Twin, SameColors

(* The rows of both move up at once (vgaterm_newline(), fbterm_newline()). *)
LEMMA TwinNewRow ==
  ASSUME NEW v \in WideScreens, NEW f \in WideBuffers, Twin(v, f),
         NEW u, u = vgaterm_newline(v), NEW g, g = fbterm_newline(f)
  PROVE  u \in Screens /\ g \in Buffers /\ Twin(u, g)
<1>1. /\ g \in Buffers /\ SameColors(f, g) /\ g.x = 0
      /\ g.y = IF f.y + 1 = H THEN H - 1 ELSE f.y + 1
      /\ Source(g) = IF f.y + 1 = H THEN Scrolled(Source(f), Cell(" ", f.bg, f.bg)) ELSE Source(f)
  BY FbNewRow
<1>2. u \in Screens BY NewRow
<1>3. CASE v.y + 1 = H
  <2>1. PICK blank, cells : blank = VgaBlank(v) /\ cells = Scrolled(v.cells, blank) OBVIOUS
  <2>2. u = [v EXCEPT !.x = 0, !.y = H - 1, !.cells = cells] BY <1>3, <2>1 DEF vgaterm_newline
  <2>3. u.x = 0 /\ u.y = H - 1 /\ u.fg = v.fg /\ u.bg = v.bg /\ u.cells = cells BY <2>2 DEF WideScreens
  <2>4. VgaLook(blank) = FbLook(Cell(" ", f.bg, f.bg))
    <3>1. PICK i, j, fg, bg : i = v.fg /\ j = v.bg /\ fg = f.fg /\ bg = f.bg OBVIOUS
    <3>2. i \in Nat /\ j \in Nat /\ fg = Palette[IdxMap(i)] /\ bg = Palette[IdxMap(j)] BY <3>1 DEF Twin
    <3>3. VgaLook(Cell(" ", i, j)) = FbLook(Cell(" ", bg, bg)) BY <3>2, LooksAlike
    <3> QED BY <2>1, <3>1, <3>3 DEF VgaBlank
  <2>5. Source(g) = Scrolled(Source(f), Cell(" ", f.bg, f.bg)) BY <1>1, <1>3 DEF Twin
  <2>6. ASSUME NEW p \in Place PROVE VgaLook(cells[p]) = FbLook(Source(g)[p])
    <3>1. cells[p] = IF p + W \in Place THEN v.cells[p + W] ELSE blank BY <2>1 DEF Scrolled
    <3>2. Source(g)[p] = IF p + W \in Place THEN Source(f)[p + W] ELSE Cell(" ", f.bg, f.bg)
      BY <2>5 DEF Scrolled
    <3>3. p + W \in Place => VgaLook(v.cells[p + W]) = FbLook(Source(f)[p + W]) BY DEF Twin, Alike
    <3> QED BY <2>4, <3>1, <3>2, <3>3
  <2>7. Alike(u, g) BY <2>3, <2>6 DEF Alike
  <2> QED BY <1>1, <1>2, <1>3, <2>3, <2>7 DEF Twin, SameColors
<1>4. CASE v.y + 1 # H
  <2>1. u = [v EXCEPT !.x = 0, !.y = @ + 1] BY <1>4 DEF vgaterm_newline
  <2>2. u.x = 0 /\ u.y = v.y + 1 /\ u.fg = v.fg /\ u.bg = v.bg /\ u.cells = v.cells BY <2>1 DEF WideScreens
  <2>3. Source(g) = Source(f) /\ g.y = f.y + 1 BY <1>1, <1>4 DEF Twin
  <2>4. Alike(u, g) BY <2>2, <2>3 DEF Alike, Twin
  <2> QED BY <1>1, <1>2, <2>2, <2>3, <2>4 DEF Twin, SameColors
<1> QED BY <1>3, <1>4

(* Both find the end of the row at once, the one by its column, the other  *)
(* by the pixels that are left.                                            *)
LEMMA TwinWrap ==
  ASSUME NEW v \in WideScreens, NEW f \in WideBuffers, Twin(v, f),
         NEW u, u = VgaWrap(v), NEW g, g = FbWrap(f)
  PROVE  u \in Screens /\ g \in Buffers /\ Twin(u, g)
<1>0. W \in Nat BY ConsoleAssumption
<1>1. PICK x : x = f.x OBVIOUS
<1>2. x \in 0..W /\ v.x = x BY <1>1, SourceCells DEF Twin
<1>3. Room(x) < FONT_W <=> x = W BY <1>2, RoomLeft
<1>4. CASE x = W
  <2>1. u = vgaterm_newline(v) BY <1>2, <1>4 DEF VgaWrap
  <2>2. g = fbterm_newline(f) BY <1>1, <1>3, <1>4 DEF FbWrap
  <2> QED BY <2>1, <2>2, TwinNewRow
<1>5. CASE x # W
  <2>1. u = v BY <1>2, <1>5 DEF VgaWrap
  <2>2. g = f BY <1>1, <1>3, <1>5 DEF FbWrap
  <2>3. u \in Screens BY Wraps
  <2>4. x < W BY <1>0, <1>2, <1>5
  <2> QED BY <1>1, <2>1, <2>2, <2>3, <2>4 DEF Buffers
<1> QED BY <1>4, <1>5

(* What a cell of a filled row holds (vgaterm_putc_stub()).                *)
LEMMA FillIs ==
  ASSUME NEW v \in Screens, NEW to \in 1..W, NEW cell, NEW u, u = VgaFill(v, to, cell)
  PROVE  /\ u.x = to /\ u.y = v.y /\ u.fg = v.fg /\ u.bg = v.bg
         /\ \A p \in Place : u.cells[p] = IF p \in v.y * W + v.x..v.y * W + to - 1 THEN cell ELSE v.cells[p]
<1>1. PICK cells : cells = [p \in Place |-> IF p \in v.y * W + v.x..v.y * W + to - 1 THEN cell ELSE v.cells[p]] OBVIOUS
<1>2. u = [v EXCEPT !.x = to, !.cells = cells] BY <1>1 DEF VgaFill, Screens
<1>3. u.x = to /\ u.y = v.y /\ u.fg = v.fg /\ u.bg = v.bg /\ u.cells = cells BY <1>2 DEF Screens
<1> QED BY <1>1, <1>3

(* Of four columns that follow each other one is a stop.                   *)
LEMMA TabNear ==
  ASSUME NEW x \in 0..W - 1
  PROVE  /\ TabEnd(x) \in x + 1..x + HTAB_LENGTH
         /\ \A s \in x + 1..TabEnd(x) : (s < W /\ s % HTAB_LENGTH # 0) <=> s # TabEnd(x)
<1>0. W \in Nat BY ConsoleAssumption
<1>1. PICK end : end = TabEnd(x) OBVIOUS
<1>2. /\ end \in 1..W /\ end > x /\ (end % 4 = 0 \/ end = W)
      /\ \A s \in 1..W : s > x /\ (s % 4 = 0 \/ s = W) => end <= s
  BY <1>1, TabEnds DEF TabStops, HTAB_LENGTH
<1>3. PICK n \in x + 1..x + 4 : n % 4 = 0
  <2>1. PICK q, r : q = x \div 4 /\ r = x % 4 OBVIOUS
  <2>2. x = 4 * q + r /\ q \in Nat /\ r \in 0..3 BY <1>0, <2>1
  <2>3. PICK n : n = 4 * (q + 1) OBVIOUS
  <2>4. n \in x + 1..x + 4 /\ n % 4 = 0 BY <1>0, <2>2, <2>3
  <2> QED BY <2>4
<1>4. end <= x + 4
  <2>1. CASE n <= W
    <3>1. n \in 1..W /\ n > x BY <1>0, <1>3, <2>1
    <3>2. end <= n BY <1>2, <1>3, <3>1
    <3> QED BY <1>0, <1>2, <1>3, <3>2
  <2>2. CASE n > W BY <1>0, <1>2, <1>3, <2>2
  <2> QED BY <1>0, <1>3, <2>1, <2>2
<1>5. ASSUME NEW s \in x + 1..end PROVE (s < W /\ s % 4 # 0) <=> s # end
  <2>1. s \in 1..W /\ s > x BY <1>0, <1>2, <1>5
  <2>2. CASE s = end BY <1>0, <1>2, <2>2
  <2>3. CASE s # end
    <3>1. s < end BY <1>0, <1>2, <1>5, <2>3
    <3>2. ~(end <= s) BY <1>2, <2>1, <3>1
    <3>3. ~(s % 4 = 0 \/ s = W) BY <1>2, <2>1, <3>2
    <3> QED BY <1>0, <2>1, <2>3, <3>3
  <2> QED BY <2>2, <2>3
<1> QED BY <1>0, <1>1, <1>2, <1>4, <1>5 DEF HTAB_LENGTH

(* Where the next blank of a tab ends.                                     *)
TabNext(x, s) == IF s = TabEnd(x) THEN s ELSE s + 1

(* A blank more, up to the stop and not past it, on the one row as on the  *)
(* other (fbterm_putc_stub()).                                             *)
LEMMA TwinTabOn ==
  ASSUME NEW v \in Screens, NEW s \in v.x + 1..TabEnd(v.x), NEW f \in WideBuffers,
         Twin(VgaFill(v, s, VgaBlank(v)), f)
  PROVE  /\ TabNext(v.x, s) \in v.x + 1..TabEnd(v.x) /\ TabOn(f) \in WideBuffers
         /\ Twin(VgaFill(v, TabNext(v.x, s), VgaBlank(v)), TabOn(f))
<1> PICK u, g, n : u = VgaFill(v, s, VgaBlank(v)) /\ g = TabOn(f) /\ n = TabNext(v.x, s) OBVIOUS
<1>0. W \in Nat /\ W > 0 BY ConsoleAssumption
<1>1. PICK x, end, a, blank : x = v.x /\ end = TabEnd(x) /\ a = v.y * W /\ blank = VgaBlank(v) OBVIOUS
<1>2. /\ x \in 0..W - 1 /\ v.y \in 0..H - 1 /\ v.fg \in Nat /\ v.bg \in Nat
      /\ s \in x + 1..end
  BY <1>1 DEF Screens
<1>3. a \in Nat
  <2>1. PICK y : y = v.y OBVIOUS
  <2>2. y \in 0..H - 1 BY <1>2, <2>1
  <2>3. y * W \in Nat BY <2>2, Rowwise
  <2> QED BY <1>1, <2>1, <2>3
<1>4. end \in 1..W BY <1>1, <1>2, TabEnds
<1>5. (s < W /\ s % HTAB_LENGTH # 0) <=> s # end BY <1>1, <1>2, TabNear
<1>6. blank \in Glyphs \X Nat \X Nat /\ blank = Cell(" ", v.fg, v.bg) BY <1>1, <1>2, CellsKept DEF VgaBlank
<1>7. s \in 1..W BY <1>0, <1>2, <1>4
<1>8. u = VgaFill(v, s, blank) BY <1>1
<1>9. /\ u.x = s /\ u.y = v.y /\ u.fg = v.fg /\ u.bg = v.bg
      /\ \A p \in Place : u.cells[p] = IF p \in v.y * W + v.x..v.y * W + s - 1 THEN blank ELSE v.cells[p]
  BY <1>7, <1>8, FillIs
<1>10. u \in WideScreens BY <1>6, <1>7, <1>8, FillsRow
<1>11. f.x = s BY <1>9 DEF Twin
<1>12. MoreTab(f) <=> s # end
  <2>1. s \in 0..W BY <1>0, <1>7
  <2>2. Room(s) \in Nat /\ FONT_W \in Nat /\ (Room(s) < FONT_W <=> s = W) BY <2>1, RoomLeft
  <2>3. Room(s) >= FONT_W <=> s < W BY <1>0, <1>7, <2>2
  <2> QED BY <1>5, <1>11, <2>3 DEF MoreTab
<1>13. CASE s = end
  <2>1. n = s /\ g = f BY <1>1, <1>12, <1>13 DEF TabOn, TabNext
  <2> QED BY <1>1, <2>1
<1>14. CASE s # end
  <2>1. n = s + 1 /\ g = FbChar(f, " ") BY <1>1, <1>12, <1>14 DEF TabOn, TabNext
  <2>2. f \in Buffers BY <1>5, <1>11, <1>14 DEF Buffers
  <2>3. n \in x + 1..end /\ n \in 1..W
    <3>1. x \in Nat /\ s \in Nat /\ end \in Nat /\ x < s /\ s < end /\ end <= W BY <1>0, <1>2, <1>4, <1>14
    <3>2. n = s + 1 BY <2>1
    <3>3. x + 1 <= n /\ n <= end /\ 1 <= n /\ n <= W /\ n \in Nat BY <1>0, <3>1, <3>2
    <3> QED BY <1>0, <3>1, <3>3
  <2>4. PICK w : w = VgaFill(v, n, blank) OBVIOUS
  <2>5. /\ w.x = n /\ w.y = v.y /\ w.fg = v.fg /\ w.bg = v.bg
        /\ \A p \in Place : w.cells[p] = IF p \in v.y * W + v.x..v.y * W + n - 1 THEN blank ELSE v.cells[p]
    BY <2>3, <2>4, FillIs
  <2>6. ASSUME NEW p \in Place PROVE w.cells[p] = IF p = u.y * W + u.x THEN Cell(" ", u.fg, u.bg) ELSE u.cells[p]
    <3>1. w.cells[p] = IF p \in a + x..a + n - 1 THEN blank ELSE v.cells[p] BY <1>1, <2>5
    <3>2. u.cells[p] = IF p \in a + x..a + s - 1 THEN blank ELSE v.cells[p] BY <1>1, <1>9
    <3>3. u.y * W + u.x = a + s BY <1>1, <1>9
    <3>4. p \in Int
      <4>1. 0 \in 0..H - 1 BY <1>2, ConsoleAssumption
      <4>2. W * H \in Nat BY <4>1, Rowwise
      <4> QED BY <4>2 DEF Place
    <3>5. p \in a + x..a + n - 1 <=> (p = a + s \/ p \in a + x..a + s - 1)
      <4>1. x \in Nat /\ s \in Nat /\ x < s BY <1>0, <1>2, <1>7
      <4>2. n = s + 1 BY <2>1
      <4>3. PICK lo, hi, top : lo = a + x /\ hi = a + s - 1 /\ top = a + n - 1 OBVIOUS
      <4>4. lo \in Nat /\ hi \in Nat /\ top = hi + 1 /\ a + s = hi + 1 /\ lo <= hi BY <1>3, <4>1, <4>2, <4>3
      <4> QED BY <3>4, <4>3, <4>4
    <3>6. p = a + s => w.cells[p] = blank BY <3>1, <3>5
    <3>7. p # a + s => w.cells[p] = u.cells[p] BY <3>1, <3>2, <3>5
    <3> QED BY <1>6, <1>9, <3>3, <3>6, <3>7
  <2>7. w.x = u.x + 1 /\ w.y = u.y /\ w.fg = u.fg /\ w.bg = u.bg BY <1>9, <2>1, <2>5
  <2>8. " " \in Glyphs BY CellsKept
  <2>9. g \in WideBuffers /\ Twin(w, g) BY <1>10, <2>1, <2>2, <2>6, <2>7, <2>8, TwinDraw
  <2> QED BY <1>1, <2>3, <2>4, <2>9
<1> QED BY <1>13, <1>14

LEMMA TwinNext ==
  ASSUME NEW v \in Screens, NEW f \in Buffers, Twin(v, f), NEW c \in Glyphs,
         NEW u, u = VgaFill(v, v.x + 1, Cell(c, v.fg, v.bg)), NEW g, g = FbChar(f, c)
  PROVE  u \in WideScreens /\ g \in WideBuffers /\ Twin(u, g)
<1>0. W \in Nat /\ W > 0 /\ H \in Nat /\ H > 0 BY ConsoleAssumption
<1>1. PICK x, y, to, cell : x = v.x /\ y = v.y /\ to = v.x + 1 /\ cell = Cell(c, v.fg, v.bg) OBVIOUS
<1>2. x \in 0..W - 1 /\ y \in 0..H - 1 /\ v.fg \in Nat /\ v.bg \in Nat BY <1>1 DEF Screens
<1>3. to \in 1..W /\ cell \in Glyphs \X Nat \X Nat /\ v \in WideScreens
  <2>1. to \in 1..W BY <1>0, <1>1, <1>2
  <2>2. cell \in Glyphs \X Nat \X Nat BY <1>1, <1>2, CellsKept
  <2>3. v.x \in 0..W BY <1>0, <1>1, <1>2
  <2> QED BY <2>1, <2>2, <2>3 DEF Screens, WideScreens
<1>4. u = VgaFill(v, to, cell) BY <1>1
<1>5. u \in WideScreens BY <1>3, <1>4, FillsRow
<1>6. /\ u.x = to /\ u.y = v.y /\ u.fg = v.fg /\ u.bg = v.bg
      /\ \A p \in Place : u.cells[p] = IF p \in v.y * W + v.x..v.y * W + to - 1 THEN cell ELSE v.cells[p]
  BY <1>3, <1>4, FillIs
<1>7. PICK a : a = y * W OBVIOUS
<1>8. a \in Nat /\ W * H \in Nat BY <1>2, <1>7, Rowwise
<1>9. ASSUME NEW p \in Place PROVE u.cells[p] = IF p = v.y * W + v.x THEN Cell(c, v.fg, v.bg) ELSE v.cells[p]
  <2>1. u.cells[p] = IF p \in a + x..a + to - 1 THEN cell ELSE v.cells[p] BY <1>1, <1>6, <1>7
  <2>2. p \in Int BY <1>8 DEF Place
  <2>3. x \in Nat /\ to = x + 1 BY <1>0, <1>1, <1>2
  <2>4. p \in a + x..a + to - 1 <=> p = a + x BY <1>8, <2>2, <2>3
  <2> QED BY <1>1, <1>7, <2>1, <2>4
<1>10. u.x = v.x + 1 BY <1>1, <1>6
<1>11. g \in WideBuffers /\ Twin(u, g) BY <1>3, <1>6, <1>9, <1>10, TwinDraw
<1> QED BY <1>5, <1>11

(* The one terminal fills up to the stop, the other goes there blank by    *)
(* blank.                                                                  *)
LEMMA TwinTab ==
  ASSUME NEW v \in Screens, NEW f \in Buffers, Twin(v, f)
  PROVE  /\ VgaFill(v, TabEnd(v.x), VgaBlank(v)) \in WideScreens /\ fbterm_tab(f) \in WideBuffers
         /\ Twin(VgaFill(v, TabEnd(v.x), VgaBlank(v)), fbterm_tab(f))
<1>0. W \in Nat /\ W > 0 BY ConsoleAssumption
<1>1. PICK x, end, blank : x = v.x /\ end = TabEnd(v.x) /\ blank = VgaBlank(v) OBVIOUS
<1>2. x \in 0..W - 1 /\ v.fg \in Nat /\ v.bg \in Nat BY <1>1 DEF Screens
<1>3. end \in 1..W /\ end \in x + 1..x + 4
  <2>1. TabEnd(x) \in 1..W BY <1>2, TabEnds
  <2>2. TabEnd(x) \in x + 1..x + HTAB_LENGTH BY <1>2, TabNear
  <2> QED BY <1>1, <2>1, <2>2 DEF HTAB_LENGTH
<1>4. PICK f1, f2, f3, f4 : f1 = FbChar(f, " ") /\ f2 = TabOn(f1) /\ f3 = TabOn(f2) /\ f4 = TabOn(f3) OBVIOUS
<1>5. fbterm_tab(f) = f4 BY <1>4 DEF fbterm_tab
<1>6. PICK s1, s2, s3, s4 : s1 = x + 1 /\ s2 = TabNext(x, s1) /\ s3 = TabNext(x, s2) /\ s4 = TabNext(x, s3) OBVIOUS
<1>7. " " \in Glyphs BY CellsKept
<1>8. f1 \in WideBuffers /\ Twin(VgaFill(v, s1, blank), f1)
  <2>1. blank = Cell(" ", v.fg, v.bg) BY <1>1 DEF VgaBlank
  <2>2. PICK u : u = VgaFill(v, v.x + 1, Cell(" ", v.fg, v.bg)) OBVIOUS
  <2>3. f1 \in WideBuffers /\ Twin(u, f1) BY <1>4, <1>7, <2>2, TwinNext
  <2>4. u = VgaFill(v, s1, blank) BY <1>1, <1>6, <2>1, <2>2
  <2> QED BY <2>3, <2>4
<1>9. s1 \in x + 1..end BY <1>0, <1>2, <1>3, <1>6
<1>10. s2 \in x + 1..end /\ f2 \in WideBuffers /\ Twin(VgaFill(v, s2, blank), f2)
  BY <1>1, <1>4, <1>6, <1>8, <1>9, TwinTabOn
<1>11. s3 \in x + 1..end /\ f3 \in WideBuffers /\ Twin(VgaFill(v, s3, blank), f3)
  BY <1>1, <1>4, <1>6, <1>10, TwinTabOn
<1>12. f4 \in WideBuffers /\ Twin(VgaFill(v, s4, blank), f4)
  BY <1>1, <1>4, <1>6, <1>11, TwinTabOn
<1>13. s4 = end BY <1>0, <1>1, <1>2, <1>3, <1>6 DEF TabNext
<1>14. VgaFill(v, end, blank) \in WideScreens
  <2>1. blank \in Glyphs \X Nat \X Nat BY <1>1, <1>2, CellsKept DEF VgaBlank
  <2> QED BY <1>3, <2>1, FillsRow
<1> QED BY <1>1, <1>5, <1>12, <1>13, <1>14

(* A character back, over the start of a row too (fbterm_putc_stub()).     *)
LEMMA FbBackIs ==
  ASSUME NEW f \in Buffers
  PROVE  /\ FbBack(f) \in Buffers /\ SameColors(f, FbBack(f)) /\ SameCells(f, FbBack(f))
         /\ f.x > 0 => FbBack(f).x = f.x - 1 /\ FbBack(f).y = f.y
         /\ f.x = 0 /\ f.y > 0 => FbBack(f).x = W - 1 /\ FbBack(f).y = f.y - 1
         /\ f.x = 0 /\ f.y = 0 => FbBack(f) = f
<1>0. W \in Nat /\ W > 0 /\ H \in Nat BY ConsoleAssumption
<1>1. PICK x, y, g : x = f.x /\ y = f.y /\ g = FbBack(f) OBVIOUS
<1>2. f \in WideBuffers /\ x < W BY <1>1 DEF Buffers
<1>3. x \in 0..W /\ y \in 0..H - 1 BY <1>1, <1>2, SourceCells
<1>5. CASE x > 0
  <2>1. PICK l : l = x - 1 OBVIOUS
  <2>3. g = [f EXCEPT !.x = l] BY <1>1, <1>5, <2>1 DEF FbBack
  <2>4. l \in 0..W /\ l < W BY <1>0, <1>2, <1>3, <1>5, <2>1
  <2>5. g \in WideBuffers /\ g.x = l /\ g.y = f.y /\ SameColors(f, g) /\ SameCells(f, g) BY <1>2, <2>3, <2>4, ColumnSet
  <2> QED BY <1>1, <1>5, <2>1, <2>4, <2>5 DEF Buffers
<1>6. CASE x = 0 /\ y > 0
  <2>1. PICK l, m, c : l = W - 1 /\ m = y - 1 /\ c = Width \div FONT_W OBVIOUS
  <2>2. g = [f EXCEPT !.x = c - 1, !.y = @ - 1] BY <1>1, <1>6, <2>1 DEF FbBack
  <2>3. c = W BY <2>1, ColumnsFit
  <2>4. g = [f EXCEPT !.x = l, !.y = m] BY <1>1, <2>1, <2>2, <2>3
  <2>5. l \in 0..W /\ l < W /\ m \in 0..H - 1 BY <1>0, <1>3, <1>6, <2>1
  <2>6. g \in WideBuffers /\ g.x = l /\ g.y = m /\ SameColors(f, g) /\ SameCells(f, g)
    BY <1>2, <2>4, <2>5 DEF WideBuffers, SameColors, SameCells
  <2> QED BY <1>1, <1>6, <2>1, <2>5, <2>6 DEF Buffers
<1>7. CASE x = 0 /\ y = 0
  <2>1. g = f BY <1>1, <1>7 DEF FbBack
  <2> QED BY <1>1, <1>7, <2>1 DEF SameCells, SameColors
<1> QED BY <1>3, <1>5, <1>6, <1>7

LEMMA TwinBack ==
  ASSUME NEW v \in Screens, NEW f \in Buffers, Twin(v, f)
  PROVE  VgaBack(v) \in Screens /\ FbBack(f) \in Buffers /\ Twin(VgaBack(v), FbBack(f))
<1>0. W \in Nat BY ConsoleAssumption
<1>1. PICK x, y, u, g : x = f.x /\ y = f.y /\ u = VgaBack(v) /\ g = FbBack(f) OBVIOUS
<1>2. u \in Screens BY <1>1, CharTaken
<1>3. /\ g \in Buffers /\ SameColors(f, g) /\ SameCells(f, g)
      /\ x > 0 => g.x = x - 1 /\ g.y = y
      /\ x = 0 /\ y > 0 => g.x = W - 1 /\ g.y = y - 1
      /\ x = 0 /\ y = 0 => g = f
  BY <1>1, FbBackIs
<1>4. v.x = x /\ v.y = y BY <1>1 DEF Twin
<1>5. x \in 0..W /\ y \in 0..H - 1
  <2>1. f \in WideBuffers BY DEF Buffers
  <2> QED BY <1>1, <2>1, SourceCells
<1>6. Source(g) = Source(f) BY <1>3, SameShown
<1>7. CASE x > 0
  <2>1. u = [v EXCEPT !.x = x - 1] BY <1>1, <1>4, <1>7 DEF VgaBack
  <2>2. u.x = x - 1 /\ u.y = v.y /\ u.fg = v.fg /\ u.bg = v.bg /\ u.cells = v.cells BY <2>1 DEF Screens
  <2> QED BY <1>1, <1>2, <1>3, <1>4, <1>6, <1>7, <2>2 DEF Twin, Alike, SameColors
<1>8. CASE x = 0 /\ y > 0
  <2>1. u = [v EXCEPT !.x = W - 1, !.y = y - 1] BY <1>1, <1>4, <1>8 DEF VgaBack
  <2>2. u.x = W - 1 /\ u.y = y - 1 /\ u.fg = v.fg /\ u.bg = v.bg /\ u.cells = v.cells BY <2>1 DEF Screens
  <2> QED BY <1>1, <1>2, <1>3, <1>6, <1>8, <2>2 DEF Twin, Alike, SameColors
<1>9. CASE x = 0 /\ y = 0
  <2>1. u = v BY <1>1, <1>4, <1>9 DEF VgaBack
  <2> QED BY <1>1, <1>2, <1>3, <1>9, <2>1
<1>10. H \in Nat BY ConsoleAssumption
<1> QED BY <1>0, <1>5, <1>7, <1>8, <1>9, <1>10

(* A cleared screen is of one colour (fbterm_clear()).                     *)
LEMMA FbClearIs ==
  ASSUME NEW f \in Buffers, NEW g, g = fbterm_clear(f)
  PROVE  /\ g \in Buffers /\ SameColors(f, g) /\ g.x = 0 /\ g.y = 0 /\ Shown(g)
         /\ Source(g) = [p \in Place |-> Cell(" ", f.bg, f.bg)]
<1>0. W \in Nat /\ W > 0 /\ H \in Nat /\ H > 0 BY ConsoleAssumption
<1>1. f \in WideBuffers BY DEF Buffers
<1>2. PICK u : u = [f EXCEPT !.x = 0, !.y = 0] OBVIOUS
<1>3. u \in WideBuffers /\ u.x = 0 /\ u.y = 0 /\ SameColors(f, u)
  <2>1. 0 \in 0..W /\ 0 \in 0..H - 1 BY <1>0
  <2> QED BY <1>1, <1>2, <2>1 DEF WideBuffers, SameColors, SameCells
<1>4. PICK bg, cells : bg = f.bg /\ cells = [p \in Place |-> Cell(" ", bg, bg)] OBVIOUS
<1>5. cells \in FbCells
  <2>1. Cell(" ", bg, bg) \in Glyphs \X Shades \X Shades BY <1>1, <1>4, SourceCells
  <2> QED BY <1>4, <2>1 DEF FbCells
<1>6. g = Draw(u, cells, Rows) BY <1>2, <1>4 DEF fbterm_clear, fbuf_fill
<1>7. Rows \in SUBSET Rows OBVIOUS
<1>8. g \in WideBuffers /\ SameCursor(u, g) /\ SameColors(u, g) /\ Source(g) = cells /\ Shown(g)
  BY <1>3, <1>5, <1>6, <1>7, DrawIs
<1> QED BY <1>0, <1>3, <1>4, <1>8 DEF Buffers, SameCursor, SameColors

(* A blank of a tab, and all of them, end within the row or at its end.    *)
LEMMA TabOnIs ==
  ASSUME NEW f \in WideBuffers
  PROVE  TabOn(f) \in WideBuffers /\ (Shown(f) => Shown(TabOn(f)))
<1>0. W \in Nat BY ConsoleAssumption
<1>1. CASE MoreTab(f)
  <2>1. PICK x : x = f.x OBVIOUS
  <2>2. x \in 0..W BY <2>1, SourceCells
  <2>3. Room(x) \in Nat /\ FONT_W \in Nat /\ (Room(x) < FONT_W <=> x = W) BY <2>2, RoomLeft
  <2>4. x # W BY <1>1, <2>1, <2>3 DEF MoreTab
  <2>5. f \in Buffers BY <1>0, <2>1, <2>2, <2>4 DEF Buffers
  <2>6. " " \in Glyphs BY CellsKept
  <2>7. TabOn(f) = FbChar(f, " ") BY <1>1 DEF TabOn
  <2> QED BY <2>5, <2>6, <2>7, FbCharIs
<1>2. CASE ~MoreTab(f) BY <1>2 DEF TabOn
<1> QED BY <1>1, <1>2

LEMMA FbTabIs ==
  ASSUME NEW f \in Buffers
  PROVE  fbterm_tab(f) \in WideBuffers /\ (Shown(f) => Shown(fbterm_tab(f)))
<1>1. PICK f1, f2, f3 : f1 = FbChar(f, " ") /\ f2 = TabOn(f1) /\ f3 = TabOn(f2) OBVIOUS
<1>2. " " \in Glyphs BY CellsKept
<1>3. f1 \in WideBuffers /\ (Shown(f) => Shown(f1)) BY <1>1, <1>2, FbCharIs
<1>4. f2 \in WideBuffers /\ (Shown(f1) => Shown(f2)) BY <1>1, <1>3, TabOnIs
<1>5. f3 \in WideBuffers /\ (Shown(f2) => Shown(f3)) BY <1>1, <1>4, TabOnIs
<1>6. TabOn(f3) \in WideBuffers /\ (Shown(f3) => Shown(TabOn(f3))) BY <1>5, TabOnIs
<1>7. fbterm_tab(f) = TabOn(f3) BY <1>1 DEF fbterm_tab
<1> QED BY <1>3, <1>4, <1>5, <1>6, <1>7

LEMMA FbWrapIs ==
  ASSUME NEW f \in WideBuffers
  PROVE  FbWrap(f) \in Buffers /\ (Shown(f) => Shown(FbWrap(f)))
<1>0. W \in Nat BY ConsoleAssumption
<1>1. PICK x : x = f.x OBVIOUS
<1>2. x \in 0..W BY <1>1, SourceCells
<1>3. Room(x) < FONT_W <=> x = W BY <1>2, RoomLeft
<1>4. CASE x = W
  <2>1. FbWrap(f) = fbterm_newline(f) BY <1>1, <1>3, <1>4 DEF FbWrap
  <2> QED BY <2>1, FbNewRow
<1>5. CASE x # W
  <2>1. FbWrap(f) = f BY <1>1, <1>3, <1>5 DEF FbWrap
  <2>2. x < W BY <1>0, <1>2, <1>5
  <2> QED BY <1>1, <2>1, <2>2 DEF Buffers
<1> QED BY <1>4, <1>5

(* Whatever is put leaves buffers that show what they did                  *)
(* (fbterm_putc_stub(), terminal.c).                                       *)
LEMMA FbStep ==
  ASSUME NEW f \in Buffers, NEW e \in Elements
  PROVE  OnFb(f, e) \in Buffers /\ (Shown(f) => Shown(OnFb(f, e)))
<1>0. W \in Nat /\ W > 0 /\ H \in Nat /\ H > 0 BY ConsoleAssumption
<1>1. /\ e.kind \in {"char", "clear", "xy", "fg", "bg"} /\ e.n \in Nat /\ e.m \in Nat
      /\ e.kind = "xy" => e.n < W /\ e.m < H
      /\ e.c \in Glyphs
  BY ElementKinds
<1>2. f \in WideBuffers /\ f.x < W BY DEF Buffers
<1>3. PICK g : g = OnFb(f, e) OBVIOUS
<1>4. CASE e.kind = "char"
  <2>1. PICK c : c = e.c OBVIOUS
  <2>2. g = fbterm_putc_stub(f, c) /\ c \in Glyphs BY <1>1, <1>3, <1>4, <2>1 DEF OnFb
  <2>3. CASE c = "bs"
    <3>1. g = FbBack(f) BY <2>2, <2>3 DEF fbterm_putc_stub
    <3>2. g \in Buffers /\ SameCells(f, g) BY <3>1, FbBackIs
    <3> QED BY <1>3, <3>2, SameShown
  <2>4. CASE c = "cr"
    <3>1. g = [f EXCEPT !.x = 0] BY <2>2, <2>4 DEF fbterm_putc_stub
    <3>2. 0 \in 0..W BY <1>0
    <3>3. g \in WideBuffers /\ g.x = 0 /\ SameCells(f, g) BY <1>2, <3>1, <3>2, ColumnSet
    <3> QED BY <1>0, <1>3, <3>3, SameShown DEF Buffers
  <2>5. CASE c = "nl"
    <3>1. g = fbterm_newline(f) BY <2>2, <2>5 DEF fbterm_putc_stub
    <3> QED BY <1>2, <1>3, <3>1, FbNewRow
  <2>6. CASE c = "tab"
    <3>1. g = FbWrap(fbterm_tab(f)) BY <2>2, <2>6 DEF fbterm_putc_stub
    <3>2. PICK u : u = fbterm_tab(f) OBVIOUS
    <3>3. u \in WideBuffers /\ (Shown(f) => Shown(u)) BY <3>2, FbTabIs
    <3>4. FbWrap(u) \in Buffers /\ (Shown(u) => Shown(FbWrap(u))) BY <3>3, FbWrapIs
    <3> QED BY <1>3, <3>1, <3>2, <3>3, <3>4
  <2>7. CASE c \notin Specials
    <3>1. g = FbWrap(FbChar(f, c)) BY <2>2, <2>7 DEF fbterm_putc_stub, Specials
    <3>2. PICK u : u = FbChar(f, c) OBVIOUS
    <3>3. u \in WideBuffers /\ (Shown(f) => Shown(u)) BY <2>2, <3>2, FbCharIs
    <3>4. FbWrap(u) \in Buffers /\ (Shown(u) => Shown(FbWrap(u))) BY <3>3, FbWrapIs
    <3> QED BY <1>3, <3>1, <3>2, <3>3, <3>4
  <2> QED BY <2>3, <2>4, <2>5, <2>6, <2>7 DEF Specials
<1>5. CASE e.kind = "clear"
  <2>1. g = fbterm_clear(f) BY <1>3, <1>5 DEF OnFb
  <2> QED BY <1>3, <2>1, FbClearIs
<1>6. CASE e.kind = "xy"
  <2>1. PICK x, y : x = e.n /\ y = e.m OBVIOUS
  <2>2. g = [f EXCEPT !.x = x, !.y = y] BY <1>3, <1>6, <2>1 DEF OnFb, fbterm_set_xy
  <2>3. x \in 0..W /\ x < W /\ y \in 0..H - 1 BY <1>0, <1>1, <1>6, <2>1
  <2>4. g \in WideBuffers /\ g.x = x /\ SameCells(f, g) BY <1>2, <2>2, <2>3 DEF WideBuffers, SameColors, SameCells
  <2> QED BY <1>3, <2>3, <2>4, SameShown DEF Buffers
<1>7. CASE e.kind \in {"fg", "bg"}
  <2>1. PICK c : c = Palette[e.n] OBVIOUS
  <2>2. c \in Shades BY <1>1, <2>1 DEF Shades
  <2>3. g = [f EXCEPT !.fg = c] \/ g = [f EXCEPT !.bg = c] BY <1>3, <1>7, <2>1 DEF OnFb
  <2>4. g \in WideBuffers /\ SameCursor(f, g) /\ SameCells(f, g)
    <3>1. CASE g = [f EXCEPT !.fg = c] BY <1>2, <2>2, <3>1, ColorSet
    <3>2. CASE g = [f EXCEPT !.bg = c] BY <1>2, <2>2, <3>2, ColorSet
    <3> QED BY <2>3, <3>1, <3>2
  <2> QED BY <1>2, <1>3, <2>4, SameShown DEF Buffers, SameCursor
<1> QED BY <1>1, <1>4, <1>5, <1>6, <1>7

(* A character, or what moves the cursor, on both                          *)
(* (vgaterm_putc_stub(), fbterm_putc_stub()).                              *)
LEMMA TwinChar ==
  ASSUME NEW v \in Screens, NEW f \in Buffers, Twin(v, f), NEW c \in Glyphs
  PROVE  Twin(vgaterm_putc_stub(v, c), fbterm_putc_stub(f, c))
<1>0. W \in Nat /\ W > 0 BY ConsoleAssumption
<1>1. f \in WideBuffers /\ v \in WideScreens
  <2>1. v.x \in 0..W BY <1>0 DEF Screens
  <2> QED BY <2>1 DEF Buffers, Screens, WideScreens
<1>2. PICK u, g : u = vgaterm_putc_stub(v, c) /\ g = fbterm_putc_stub(f, c) OBVIOUS
<1>3. CASE c = "bs"
  <2>1. u = VgaBack(v) /\ g = FbBack(f) BY <1>2, <1>3 DEF vgaterm_putc_stub, fbterm_putc_stub
  <2> QED BY <1>2, <2>1, TwinBack
<1>4. CASE c = "cr"
  <2>1. u = [v EXCEPT !.x = 0] /\ g = [f EXCEPT !.x = 0] BY <1>2, <1>4 DEF vgaterm_putc_stub, fbterm_putc_stub
  <2>2. 0 \in 0..W BY <1>0
  <2>3. g.x = 0 /\ g.y = f.y /\ SameColors(f, g) /\ SameCells(f, g) BY <1>1, <2>1, <2>2, ColumnSet
  <2>4. Source(g) = Source(f) BY <2>3, SameShown
  <2>5. u.x = 0 /\ u.y = v.y /\ u.fg = v.fg /\ u.bg = v.bg /\ u.cells = v.cells BY <2>1 DEF Screens
  <2> QED BY <1>2, <2>3, <2>4, <2>5 DEF Twin, Alike, SameColors
<1>5. CASE c = "nl"
  <2>1. u = vgaterm_newline(v) /\ g = fbterm_newline(f) BY <1>2, <1>5 DEF vgaterm_putc_stub, fbterm_putc_stub
  <2> QED BY <1>1, <1>2, <2>1, TwinNewRow
<1>6. CASE c = "tab"
  <2>1. u = VgaWrap(VgaFill(v, TabEnd(v.x), VgaBlank(v))) /\ g = FbWrap(fbterm_tab(f))
    BY <1>2, <1>6 DEF vgaterm_putc_stub, fbterm_putc_stub
  <2>2. PICK w, h : w = VgaFill(v, TabEnd(v.x), VgaBlank(v)) /\ h = fbterm_tab(f) OBVIOUS
  <2>3. w \in WideScreens /\ h \in WideBuffers /\ Twin(w, h) BY <2>2, TwinTab
  <2> QED BY <1>2, <2>1, <2>2, <2>3, TwinWrap
<1>7. CASE c \notin Specials
  <2>1. u = VgaWrap(VgaFill(v, v.x + 1, Cell(c, v.fg, v.bg))) /\ g = FbWrap(FbChar(f, c))
    BY <1>2, <1>7 DEF vgaterm_putc_stub, fbterm_putc_stub, Specials
  <2>2. PICK w, h : w = VgaFill(v, v.x + 1, Cell(c, v.fg, v.bg)) /\ h = FbChar(f, c) OBVIOUS
  <2>3. w \in WideScreens /\ h \in WideBuffers /\ Twin(w, h) BY <2>2, TwinNext
  <2> QED BY <1>2, <2>1, <2>2, <2>3, TwinWrap
<1> QED BY <1>3, <1>4, <1>5, <1>6, <1>7 DEF Specials

\* The colours that both terminals have: the background of a text terminal is
\* one of the first eight.
SharedColors == \A e \in Elements : (e.kind = "fg" => e.n < 16) /\ (e.kind = "bg" => e.n < 8)

(* Anything else that both terminals are asked for (terminal.c).           *)
LEMMA TwinStep ==
  ASSUME SharedColors, NEW v \in Screens, NEW f \in Buffers, Twin(v, f), NEW e \in Elements
  PROVE  Twin(OnVga(v, e), OnFb(f, e))
<1>0. W \in Nat /\ W > 0 /\ H \in Nat BY ConsoleAssumption
<1>1. /\ e.kind \in {"char", "clear", "xy", "fg", "bg"} /\ e.n \in Nat /\ e.m \in Nat
      /\ e.kind = "xy" => e.n < W /\ e.m < H
      /\ e.c \in Glyphs
  BY ElementKinds
<1>2. f \in WideBuffers BY DEF Buffers
<1>3. PICK u, g : u = OnVga(v, e) /\ g = OnFb(f, e) OBVIOUS
<1>4. CASE e.kind = "char"
  <2>1. u = vgaterm_putc_stub(v, e.c) /\ g = fbterm_putc_stub(f, e.c) BY <1>3, <1>4 DEF OnVga, OnFb
  <2> QED BY <1>1, <1>3, <2>1, TwinChar
<1>5. CASE e.kind = "clear"
  <2>1. u = vgaterm_clear(v) /\ g = fbterm_clear(f) BY <1>3, <1>5 DEF OnVga, OnFb
  <2>2. PICK blank, cells : blank = VgaBlank(v) /\ cells = [p \in Place |-> blank] OBVIOUS
  <2>3. u = [v EXCEPT !.x = 0, !.y = 0, !.cells = cells] BY <2>1, <2>2 DEF vgaterm_clear
  <2>4. u.x = 0 /\ u.y = 0 /\ u.fg = v.fg /\ u.bg = v.bg /\ u.cells = cells BY <2>3 DEF Screens
  <2>5. /\ SameColors(f, g) /\ g.x = 0 /\ g.y = 0
        /\ Source(g) = [p \in Place |-> Cell(" ", f.bg, f.bg)]
    BY <2>1, FbClearIs
  <2>6. VgaLook(blank) = FbLook(Cell(" ", f.bg, f.bg))
    <3>1. PICK i, j, bg : i = v.fg /\ j = v.bg /\ bg = f.bg OBVIOUS
    <3>2. i \in Nat /\ j \in Nat /\ bg = Palette[IdxMap(j)] BY <3>1 DEF Twin
    <3>3. VgaLook(Cell(" ", i, j)) = FbLook(Cell(" ", bg, bg)) BY <3>2, LooksAlike
    <3> QED BY <2>2, <3>1, <3>3 DEF VgaBlank
  <2>7. Alike(u, g) BY <2>2, <2>4, <2>5, <2>6 DEF Alike
  <2> QED BY <1>3, <2>4, <2>5, <2>7 DEF Twin, SameColors
<1>6. CASE e.kind = "xy"
  <2>1. PICK x, y : x = e.n /\ y = e.m OBVIOUS
  <2>2. g = [f EXCEPT !.x = x, !.y = y] BY <1>3, <1>6, <2>1 DEF OnFb, fbterm_set_xy
  <2>3. u = [v EXCEPT !.x = x, !.y = y] BY <1>3, <1>6, <2>1 DEF OnVga, vgaterm_set_xy
  <2>4. g.x = x /\ g.y = y /\ SameColors(f, g) /\ SameCells(f, g) BY <1>2, <2>2 DEF WideBuffers, SameColors, SameCells
  <2>5. Source(g) = Source(f) BY <2>4, SameShown
  <2>6. u.x = x /\ u.y = y /\ u.fg = v.fg /\ u.bg = v.bg /\ u.cells = v.cells BY <2>3 DEF Screens
  <2> QED BY <1>3, <2>4, <2>5, <2>6 DEF Twin, Alike, SameColors
<1>7. CASE e.kind = "fg"
  <2>1. PICK i, c : i = e.n /\ c = Palette[e.n] OBVIOUS
  <2>2. i \in 0..15 /\ c \in Shades BY <1>1, <1>7, <2>1 DEF SharedColors, Shades
  <2>3. PICK k : k = IdxMap(i) OBVIOUS
  <2>4. k \in 0..15 /\ IdxMap(k) = i BY <2>2, <2>3, IdxTwice
  <2>5. u = [v EXCEPT !.fg = k] BY <1>3, <1>7, <2>1, <2>2, <2>3 DEF OnVga, vgaterm_setfg_idx
  <2>6. g = [f EXCEPT !.fg = c] BY <1>3, <1>7, <2>1 DEF OnFb
  <2>7. g.fg = c /\ g.bg = f.bg /\ SameCursor(f, g) /\ SameCells(f, g) BY <1>2, <2>2, <2>6, ColorSet
  <2>8. u.x = v.x /\ u.y = v.y /\ u.fg = k /\ u.bg = v.bg /\ u.cells = v.cells BY <2>5 DEF Screens
  <2>9. Source(g) = Source(f) BY <2>7, SameShown
  <2> QED BY <1>3, <2>1, <2>4, <2>7, <2>8, <2>9 DEF Twin, Alike, SameCursor
<1>8. CASE e.kind = "bg"
  <2>1. PICK i, c : i = e.n /\ c = Palette[e.n] OBVIOUS
  <2>2. i \in 0..7 /\ c \in Shades BY <1>1, <1>8, <2>1 DEF SharedColors, Shades
  <2>3. PICK k : k = IdxMap(i) OBVIOUS
  <2>4. k \in 0..7 /\ IdxMap(k) = i
    <3>1. i \in 0..15 /\ i < 8 BY <2>2
    <3>2. IdxMap(i) \in 0..15 /\ IdxMap(IdxMap(i)) = i /\ IdxMap(i) < 8 BY <3>1, IdxTwice
    <3> QED BY <2>3, <3>2
  <2>5. u = [v EXCEPT !.bg = k]
    <3>1. k % 8 = k BY <2>4
    <3>2. u = [v EXCEPT !.bg = k % 8] BY <1>3, <1>8, <2>1, <2>2, <2>3 DEF OnVga, vgaterm_setbg_idx
    <3> QED BY <3>1, <3>2
  <2>6. g = [f EXCEPT !.bg = c] BY <1>3, <1>8, <2>1 DEF OnFb
  <2>7. g.fg = f.fg /\ g.bg = c /\ SameCursor(f, g) /\ SameCells(f, g) BY <1>2, <2>2, <2>6, ColorSet
  <2>8. u.x = v.x /\ u.y = v.y /\ u.fg = v.fg /\ u.bg = k /\ u.cells = v.cells BY <2>5 DEF Screens
  <2>9. Source(g) = Source(f) BY <2>7, SameShown
  <2>10. k \in 0..15 BY <2>4
  <2> QED BY <1>3, <2>1, <2>4, <2>7, <2>8, <2>9, <2>10 DEF Twin, Alike, SameCursor
<1> QED BY <1>1, <1>4, <1>5, <1>6, <1>7, <1>8

-----------------------------------------------------------------------------
(* The commit. What is drawn on is not changed by it, by whatever way the  *)
(* driver commits (fbuf_commit()).                                         *)
SameBack(f, g) == g.back = f.back /\ SameCursor(f, g) /\ SameColors(f, g)

LEMMA FlippedIs ==
  ASSUME NEW f \in WideBuffers, NEW g, g = Flipped(f)
  PROVE  g \in WideBuffers /\ SameBack(f, g) /\ (fbmode.flip => g.front = f.back)
<1>1. f.back \in FbCells /\ f.front \in FbCells /\ f.dirty \in SUBSET Rows BY DEF WideBuffers
<1>2. PICK shown : shown = [f EXCEPT !.front = f.back] OBVIOUS
<1>3. shown \in WideBuffers /\ SameBack(f, shown) /\ shown.front = f.back
  <2>1. PICK cells : cells = f.back OBVIOUS
  <2>2. shown = [f EXCEPT !.front = cells] /\ cells \in FbCells BY <1>1, <1>2, <2>1
  <2> QED BY <2>1, <2>2, FrontSet DEF SameBack
<1>4. CASE fbmode.flip
  <2>1. g = shown BY <1>2, <1>4, Zenon DEF Flipped
  <2> QED BY <1>3, <2>1
<1>5. CASE ~fbmode.flip /\ f.flip_all
  <2>1. PICK no : no = FALSE OBVIOUS
  <2>2. PICK u : u = [shown EXCEPT !.flip_all = no] OBVIOUS
  <2>3. no \in BOOLEAN BY <2>1, Zenon
  <2>4. u \in WideBuffers /\ SameBack(shown, u) BY <1>3, <2>2, <2>3 DEF WideBuffers, SameBack, SameCursor, SameColors
  <2>5. [f EXCEPT !.front = f.back, !.flip_all = FALSE] = u BY <1>2, <2>1, <2>2, Zenon
  <2>6. g = vmm_set_dirty(u, Rows) BY <1>5, <2>5, Zenon DEF Flipped
  <2>7. PICK rows : rows = u.dirty \ Rows OBVIOUS
  <2>8. g = [u EXCEPT !.dirty = rows] /\ rows \in SUBSET Rows
    <3>1. g = [u EXCEPT !.dirty = rows] BY <2>6, <2>7 DEF vmm_set_dirty
    <3>2. u.dirty \in SUBSET Rows BY <2>4 DEF WideBuffers
    <3> QED BY <2>7, <3>1, <3>2
  <2>9. g \in WideBuffers /\ SameBack(u, g) BY <2>4, <2>8 DEF WideBuffers, SameBack, SameCursor, SameColors
  <2> QED BY <1>3, <1>5, <2>4, <2>9 DEF SameBack, SameCursor, SameColors
<1>6. CASE ~fbmode.flip /\ ~f.flip_all
  <2>1. g = PageLoop(f) BY <1>6, Zenon DEF Flipped
  <2>2. CASE vmm_get_dirty(f, FirstRow)
    <3>1. PICK rows, cells : /\ rows = f.dirty \ {FirstRow}
                             /\ cells = [p \in Place |-> IF Row(p) \in rows THEN f.back[p] ELSE f.front[p]]
      OBVIOUS
    <3>2. cells \in FbCells BY <1>1, <3>1 DEF FbCells
    <3>3. PICK u : u = [f EXCEPT !.front = cells] OBVIOUS
    <3>4. u \in WideBuffers /\ SameBack(f, u) BY <3>2, <3>3, FrontSet DEF SameBack
    <3>5. Copied(f, rows) = u BY <3>1, <3>3 DEF Copied
    <3>6. PICK left : left = u.dirty \ f.dirty OBVIOUS
    <3>7. g = [u EXCEPT !.dirty = left]
      <4>1. g = vmm_set_dirty(u, f.dirty) BY <2>1, <2>2, <3>1, <3>5, Zenon DEF PageLoop
      <4> QED BY <3>6, <4>1 DEF vmm_set_dirty
    <3>8. left \in SUBSET Rows
      <4>1. u.dirty \in SUBSET Rows BY <3>4 DEF WideBuffers
      <4> QED BY <3>6, <4>1
    <3>9. g \in WideBuffers /\ SameBack(u, g) BY <3>4, <3>7, <3>8 DEF WideBuffers, SameBack, SameCursor, SameColors
    <3> QED BY <1>6, <3>4, <3>9 DEF SameBack, SameCursor, SameColors
  <2>3. CASE ~vmm_get_dirty(f, FirstRow)
    <3>1. PICK yes : yes = TRUE OBVIOUS
    <3>2. g = [f EXCEPT !.hung = yes] BY <2>1, <2>3, <3>1, Zenon DEF PageLoop
    <3>3. yes \in BOOLEAN BY <3>1, Zenon
    <3>4. g \in WideBuffers /\ SameBack(f, g) BY <3>2, <3>3 DEF WideBuffers, SameBack, SameCursor, SameColors
    <3> QED BY <1>6, <3>4
  <2> QED BY <2>2, <2>3
<1> QED BY <1>4, <1>5, <1>6

LEMMA CommitIs ==
  ASSUME NEW f \in Buffers, NEW g, g = fbuf_commit(f)
  PROVE  /\ g \in Buffers /\ SameCursor(f, g) /\ SameColors(f, g) /\ Source(g) = Source(f)
         /\ (fbmode.back /\ ~fbmode.direct => fbmode.flip) => (Shown(f) => Shown(g))
<1>1. f \in WideBuffers /\ f.x < W BY DEF Buffers
<1>2. CASE fbmode.direct \/ ~fbmode.back
  <2>1. g = f BY <1>2, Zenon DEF fbuf_commit
  <2> QED BY <2>1 DEF SameCursor, SameColors
<1>3. CASE ~fbmode.direct /\ fbmode.back
  <2>1. PICK u : u = Flipped(f) OBVIOUS
  <2>2. u \in WideBuffers /\ SameBack(f, u) /\ (fbmode.flip => u.front = f.back) BY <1>1, <2>1, FlippedIs
  <2>3. PICK yes : yes = TRUE OBVIOUS
  <2>4. g = [u EXCEPT !.committed = yes] BY <1>3, <2>1, <2>3, Zenon DEF fbuf_commit
  <2>5. yes \in BOOLEAN BY <2>3, Zenon
  <2>6. g \in WideBuffers /\ SameBack(u, g) /\ g.front = u.front
    BY <2>2, <2>4, <2>5 DEF WideBuffers, SameBack, SameCursor, SameColors
  <2>7. g \in Buffers /\ SameBack(f, g) BY <1>1, <2>2, <2>6 DEF Buffers, SameBack, SameCursor, SameColors
  <2>8. Source(g) = Source(f) BY <1>3, <2>7 DEF Source, SameBack
  <2>9. fbmode.flip => Shown(g) BY <2>2, <2>6 DEF Shown, SameBack
  <2> QED BY <1>3, <2>7, <2>8, <2>9 DEF SameBack
<1> QED BY <1>2, <1>3

-----------------------------------------------------------------------------
(* The steps. Only an element of a call, and the commit, change what the   *)
(* terminals hold.                                                         *)
FrameInv == fb \in Buffers /\ fbmode \in FbMode

LEMMA OutputSteps ==
  ASSUME CallInv, [ConsoleNext]_consoleVars
  PROVE  /\ fbmode' = fbmode
         /\ \/ \E e \in Elements : vga' = OnVga(vga, e) /\ fb' = OnFb(fb, e)
            \/ vga' = vga /\ fb' = fb
            \/ vga' = vga /\ fb' = fbuf_commit(fb)
<1>1. CASE UNCHANGED consoleVars BY <1>1 DEF consoleVars
<1>2. CASE timer_handler BY <1>2 DEF timer_handler
<1>3. ASSUME NEW t \in Task, Put(t)
      PROVE  fbmode' = fbmode /\ \E e \in Elements : vga' = OnVga(vga, e) /\ fb' = OnFb(fb, e)
  <2>1. PICK r : r = call[t] OBVIOUS
  <2>2. r # Nobody /\ r.left # <<>> BY <1>3, <2>1 DEF Put
  <2>3. r \in CallRecords BY <2>1, <2>2 DEF CallInv, CallType
  <2>4. Head(r.left) \in Elements BY <2>2, <2>3 DEF CallRecords
  <2>5. vga' = OnVga(vga, Head(r.left)) /\ fb' = OnFb(fb, Head(r.left)) BY <1>3, <2>1 DEF Put
  <2>6. fbmode' = fbmode BY <1>3 DEF Put, screenRest
  <2> QED BY <2>4, <2>5, <2>6
<1>4. ASSUME NEW t \in Task, Call(t) \/ Return(t) \/ Gets(t) \/ TypeKey(t) \/ Echo(t) \/ SetIntr(t)
      PROVE  fbmode' = fbmode /\ vga' = vga /\ fb' = fb
  BY <1>4 DEF Call, Return, Gets, TypeKey, Echo, SetIntr, screenRest
<1> QED BY <1>1, <1>2, <1>3, <1>4 DEF ConsoleNext

LEMMA FrameKept ==
  ASSUME CallInv, FrameInv, [ConsoleNext]_consoleVars
  PROVE  FrameInv'
<1>1. PICK f, g : f = fb /\ g = fb' OBVIOUS
<1>2. f \in Buffers BY <1>1 DEF FrameInv
<1>3. fbmode' = fbmode /\ ((\E e \in Elements : g = OnFb(f, e)) \/ g = f \/ g = fbuf_commit(f)) BY <1>1, OutputSteps
<1>4. g \in Buffers
  <2>1. ASSUME NEW e \in Elements, g = OnFb(f, e) PROVE g \in Buffers BY <1>2, <2>1, FbStep
  <2>2. CASE g = fbuf_commit(f) BY <1>2, <2>2, CommitIs
  <2> QED BY <1>2, <1>3, <2>1, <2>2
<1>5. Buffers' = Buffers BY DEF Buffers, WideBuffers, FbCells, Shades, Glyphs, Place, Rows
<1> QED BY <1>1, <1>3, <1>4, <1>5 DEF FrameInv

(* The buffers as the terminal finds them.                                 *)
LEMMA StartsFramed ==
  ASSUME ConsoleInit
  PROVE  FrameInv /\ Shown(fb) /\ Twin(vga, fb)
<1>0. W \in Nat /\ W > 0 /\ H \in Nat /\ H > 0 BY ConsoleAssumption
<1>1. PICK blank : blank = [p \in Place |-> Cell(" ", Palette[0], Palette[0])] OBVIOUS
<1>2. PICK no, yes : no = FALSE /\ yes = TRUE OBVIOUS
<1>3. /\ fb = [x |-> 0, y |-> 0, fg |-> Palette[7], bg |-> Palette[0], front |-> blank, back |-> blank,
               dirty |-> {}, flip_all |-> no, committed |-> yes, hung |-> no]
      /\ fbmode \in FbMode
  BY <1>1, <1>2, Zenon DEF ConsoleInit, ConsoleStart
<1>4. no \in BOOLEAN /\ yes \in BOOLEAN BY <1>2, Zenon
<1>5. Palette[7] \in Shades /\ Palette[0] \in Shades BY DEF Shades
<1>6. blank \in FbCells
  <2>1. " " \in Glyphs BY CellsKept
  <2>2. Cell(" ", Palette[0], Palette[0]) \in Glyphs \X Shades \X Shades BY <1>5, <2>1 DEF Cell
  <2> QED BY <1>1, <2>2 DEF FbCells
<1>7. fb \in Buffers
  <2>1. 0 \in 0..W /\ 0 \in 0..H - 1 /\ {} \in SUBSET Rows BY <1>0
  <2>2. fb \in WideBuffers BY <1>3, <1>4, <1>5, <1>6, <2>1 DEF WideBuffers
  <2> QED BY <1>0, <1>3, <2>2 DEF Buffers
<1>8. Shown(fb) BY <1>3 DEF Shown
<1>9. Twin(vga, fb)
  <2>1. PICK cells : cells = [p \in Place |-> Cell(" ", 7, 0)] OBVIOUS
  <2>2. vga = [x |-> 0, y |-> 0, fg |-> 7, bg |-> 0, cells |-> cells] BY <2>1 DEF ConsoleInit, ConsoleStart
  <2>3. IdxMap(7) = 7 /\ IdxMap(0) = 0 BY DEF IdxMap, vgaterm_idxmap
  <2>4. VgaLook(Cell(" ", 7, 0)) = FbLook(Cell(" ", Palette[0], Palette[0]))
    <3>1. PICK bg : bg = Palette[0] OBVIOUS
    <3>2. bg = Palette[IdxMap(0)] BY <2>3, <3>1
    <3>3. VgaLook(Cell(" ", 7, 0)) = FbLook(Cell(" ", bg, bg)) BY <3>2, LooksAlike
    <3> QED BY <3>1, <3>3
  <2>5. Source(fb) = blank BY <1>3 DEF Source
  <2>6. Alike(vga, fb) BY <1>1, <2>1, <2>2, <2>4, <2>5 DEF Alike
  <2> QED BY <1>3, <2>2, <2>3, <2>6 DEF Twin
<1> QED BY <1>3, <1>7, <1>8, <1>9 DEF FrameInv

\* No driver has its back buffer committed page by page (fbuf_commit()).
Unpaged == \A mode \in FbMode : mode.back /\ ~mode.direct => mode.flip

LEMMA ShownKept ==
  ASSUME Unpaged, CallInv, FrameInv, Shown(fb), [ConsoleNext]_consoleVars
  PROVE  Shown(fb)'
<1>1. PICK f, g : f = fb /\ g = fb' OBVIOUS
<1>2. f \in Buffers /\ Shown(f) BY <1>1 DEF FrameInv
<1>3. fbmode' = fbmode /\ ((\E e \in Elements : g = OnFb(f, e)) \/ g = f \/ g = fbuf_commit(f)) BY <1>1, OutputSteps
<1>4. fbmode.back /\ ~fbmode.direct => fbmode.flip BY DEF FrameInv, Unpaged
<1>5. Shown(g)
  <2>1. ASSUME NEW e \in Elements, g = OnFb(f, e) PROVE Shown(g) BY <1>2, <2>1, FbStep
  <2>2. CASE g = fbuf_commit(f) BY <1>2, <1>4, <2>2, CommitIs
  <2> QED BY <1>2, <1>3, <2>1, <2>2
<1> QED BY <1>1, <1>3, <1>5 DEF Shown

LEMMA TwinKept ==
  ASSUME SharedColors, CallInv, FrameInv, Twin(vga, fb), [ConsoleNext]_consoleVars
  PROVE  Twin(vga, fb)'
<1>1. PICK v, f, u, g : v = vga /\ f = fb /\ u = vga' /\ g = fb' OBVIOUS
<1>2. f \in Buffers /\ v \in Screens /\ Twin(v, f) BY <1>1 DEF FrameInv, CallInv, ScreenType
<1>3. /\ fbmode' = fbmode
      /\ \/ \E e \in Elements : u = OnVga(v, e) /\ g = OnFb(f, e)
         \/ u = v /\ g = f
         \/ u = v /\ g = fbuf_commit(f)
  BY <1>1, OutputSteps
<1>4. Twin(u, g)
  <2>1. ASSUME NEW e \in Elements, u = OnVga(v, e), g = OnFb(f, e) PROVE Twin(u, g) BY <1>2, <2>1, TwinStep
  <2>2. CASE u = v /\ g = fbuf_commit(f)
    <3>1. SameCursor(f, g) /\ SameColors(f, g) /\ Source(g) = Source(f) BY <1>2, <2>2, CommitIs
    <3> QED BY <1>2, <2>2, <3>1 DEF Twin, Alike, SameCursor, SameColors
  <2> QED BY <1>2, <1>3, <2>1, <2>2
<1> QED BY <1>1, <1>3, <1>4 DEF Twin, Alike, Source

(* What looks the same is reported the same: the colours are found again   *)
(* in the palette (term_getfg_indexed(), term_getbg_indexed()).            *)
LEMMA TwinThen ==
  ASSUME Twin(vga, fb)
  PROVE  TwinScreens
<1>1. PICK i, j, a, b : i = vga.fg /\ j = vga.bg /\ a = IdxMap(vga.fg) /\ b = IdxMap(vga.bg) OBVIOUS
<1>2. i \in 0..15 /\ j \in 0..15 BY <1>1 DEF Twin
<1>3. a \in 0..15 /\ b \in 0..15 BY <1>1, <1>2, IdxTwice
<1>4. Indexed(Palette[a]) = a /\ Indexed(Palette[b]) = b BY <1>3, IndexFound
<1>5. fb.fg = Palette[a] /\ fb.bg = Palette[b] BY <1>1 DEF Twin
<1>6. VgaColors(vga) = <<a, Palette[a], b, Palette[b]>> BY <1>1 DEF VgaColors
<1>7. FbColors(fb) = <<a, Palette[a], b, Palette[b]>> BY <1>4, <1>5 DEF FbColors
<1>8. VgaColors(vga) = FbColors(fb) BY <1>6, <1>7
<1> QED BY <1>8 DEF TwinScreens, Twin, Alike

(* Both terminals, given the same calls, show the same characters in the   *)
(* same colours, have the cursor at the same place and report the same     *)
(* colours, on a screen of any size, for a font of any width and through   *)
(* any commits (vgaterm_putc_stub(), fbterm_putc_stub(), terminal.c).      *)
THEOREM TwinScreensHolds ==
  ASSUME SharedColors
  PROVE  ConsoleSpec => []TwinScreens
<1> DEFINE I == CallInv /\ FrameInv /\ Twin(vga, fb)
<1>1. ConsoleInit => I BY StartsWhole, StartsFramed DEF ConsoleInv
<1>2. I /\ [ConsoleNext]_consoleVars => I' BY StepsKept, FrameKept, TwinKept
<1>3. I => TwinScreens BY TwinThen
<1> QED BY <1>1, <1>2, <1>3, PTL DEF ConsoleSpec

(* With whatever is drawn, the framebuffer shows what it commits, and what *)
(* is drawn at once if it is drawn directly, as long as it is not          *)
(* committed page by page (fbuf_commit(), fbuf_putc_stub(), fbuf_fill(),   *)
(* fbuf_scroll_up()).                                                      *)
THEOREM CommitShowsHolds ==
  ASSUME Unpaged
  PROVE  ConsoleSpec => []CommitShows
<1> DEFINE I == CallInv /\ FrameInv /\ Shown(fb)
<1>1. ConsoleInit => I BY StartsWhole, StartsFramed DEF ConsoleInv
<1>2. I /\ [ConsoleNext]_consoleVars => I' BY StepsKept, FrameKept, ShownKept
<1>3. I => CommitShows BY DEF Shown, CommitShows
<1> QED BY <1>1, <1>2, <1>3, PTL DEF ConsoleSpec
============================================================================
