------------------------------ MODULE Console ------------------------------
(***************************************************************************)
(* The output of the terminal: the front end that every task calls         *)
(* (hal/terminal.c), the two terminals that draw on a screen, the VGA text *)
(* mode's (arch/x86/terminal_vgatext.c) and the framebuffer's              *)
(* (hal/term_fbuf.c), and the buffers of the latter with their commit by   *)
(* the timer (hal/fbuf.c, hal/timer.c).                                    *)
(*                                                                         *)
(* Every call is given to both terminals, so that what they show can be    *)
(* compared. A screen is W by H characters; a page of memory holds a row.  *)
(***************************************************************************)
EXTENDS Integers, Sequences, FiniteSets

CONSTANTS
  W, H,           \* size of the screen, in characters
  FONT_W, RIM,    \* width of a character, and pixels left over at the right
  WORD,           \* 2 to the width of a size_t
  Palette,        \* term_color_palette, by index
  Task,
  Operation,      \* calls that a task may make
  Key,            \* what may be typed to term_gets()
  FbMode,         \* ways a driver may set up its framebuffer
  Nobody,
  MAX_CALLS, MAX_KEYS, MAX_TICKS  \* bounds: calls of tasks, keys typed, ticks of the timer

HTAB_LENGTH == 4
Width == W * FONT_W + RIM
Place == 0..W * H - 1
Row(p) == p \div W

VARIABLES
  fbmode, out_irq,  \* the framebuffer's driver, and the terminal's flag
  vga, fb,          \* the terminals: cursor, colours, cells
  on,               \* the task that runs
  intr, want,       \* whether each task runs with interrupts on, and what it set itself
  mutex_out, call,  \* the task in the terminal, and each task's call
  line, todo,       \* term_gets(): who reads, what has been read, the echo that is due
  calls, ticks,
  torn, clean  \* history: whose output came last, whether one was cut into
consoleVars == <<fbmode, out_irq, vga, fb, on, intr, want, mutex_out, call, line, todo,
                 calls, ticks, torn, clean>>

Cell(c, fg, bg) == <<c, fg, bg>>
Scrolled(cells, blank) == [p \in Place |-> IF p + W \in Place THEN cells[p + W] ELSE blank]
TabStops(x) == {s \in 1..W : s > x /\ (s % HTAB_LENGTH = 0 \/ s = W)}
TabEnd(x) == CHOOSE s \in TabStops(x) : \A other \in TabStops(x) : s <= other

-----------------------------------------------------------------------------
(* The VGA text mode.                                                      *)

VgaBlank(v) == Cell(" ", v.fg, v.bg)
vgaterm_newline(v) ==
  IF v.y + 1 = H THEN [v EXCEPT !.x = 0, !.y = H - 1, !.cells = Scrolled(@, VgaBlank(v))]
  ELSE [v EXCEPT !.x = 0, !.y = @ + 1]
VgaWrap(v) == IF v.x = W THEN vgaterm_newline(v) ELSE v
VgaFill(v, to, cell) == [v EXCEPT !.x = to, !.cells = [p \in Place |-> IF p \in v.y * W + v.x..v.y * W + to - 1 THEN cell ELSE @[p]]]
VgaBack(v) ==
  IF v.x > 0 THEN [v EXCEPT !.x = @ - 1] ELSE IF v.y > 0 THEN [v EXCEPT !.x = W - 1, !.y = @ - 1] ELSE v
vgaterm_putc_stub(v, c) ==
  CASE c = "bs" -> VgaBack(v)
    [] c = "cr" -> [v EXCEPT !.x = 0]
    [] c = "nl" -> vgaterm_newline(v)
    [] c = "tab" -> VgaWrap(VgaFill(v, TabEnd(v.x), VgaBlank(v)))
    [] OTHER -> VgaWrap(VgaFill(v, v.x + 1, Cell(c, v.fg, v.bg)))
vgaterm_clear(v) == [v EXCEPT !.x = 0, !.y = 0, !.cells = [p \in Place |-> VgaBlank(v)]]
vgaterm_set_xy(v, x, y) == [v EXCEPT !.x = x, !.y = y]
vgaterm_idxmap == <<0, 4, 2, 6, 1, 5, 3, 7, 8, 12, 10, 14, 9, 13, 11, 15>>
IdxMap(i) == vgaterm_idxmap[i + 1]
vgaterm_setfg_idx(v, i) == IF i >= 16 THEN v ELSE [v EXCEPT !.fg = IdxMap(i)]
vgaterm_setbg_idx(v, i) == IF i >= 8 THEN v ELSE [v EXCEPT !.bg = IdxMap(i) % 8]

-----------------------------------------------------------------------------
(* The framebuffer: what is drawn goes to the back buffer, to the front    *)
(* one, or to both, and a page that is written is marked by the processor. *)

ToBack(f, cells, rows) ==
  IF fbmode.back THEN [f EXCEPT !.back = cells, !.dirty = @ \union rows, !.committed = FALSE] ELSE f
\* A slip: the front buffer is written only when it is the one there is.
ToFrontAlone(f, cells) == IF ~fbmode.back THEN [f EXCEPT !.front = cells] ELSE f
ToFront(f, cells) == IF fbmode.direct \/ ~fbmode.back THEN [f EXCEPT !.front = cells] ELSE f
Source(f) == IF fbmode.back THEN f.back ELSE f.front
Draw(f, cells, rows) == ToFront(ToBack(f, cells, rows), cells)
Rows == {Row(p) : p \in Place}
fbuf_putc_stub(f, p, cell) ==
  IF p \in Place THEN Draw(f, [Source(f) EXCEPT ![p] = cell], {Row(p)}) ELSE f
fbuf_fill(f, bg) == Draw(f, [p \in Place |-> Cell(" ", bg, bg)], Rows)
\* Without a back buffer the driver scrolls what is displayed.
fbuf_scroll_up(f, bg) ==
  LET moved == Draw(f, Scrolled(Source(f), Cell(" ", bg, bg)), Rows) IN
  IF fbmode.back THEN [moved EXCEPT !.flip_all = TRUE] ELSE moved

\* The page loop: the size of a page is unknown until one was copied, so that
\* nothing of the first one is, and a clean first page is looked at for ever.
FirstRow == 0
vmm_get_dirty(f, row) == row \in f.dirty
vmm_set_dirty(f, rows) == [f EXCEPT !.dirty = @ \ rows]
Copied(f, rows) == [f EXCEPT !.front = [p \in Place |-> IF Row(p) \in rows THEN f.back[p] ELSE @[p]]]
PageLoop(f) ==
  IF vmm_get_dirty(f, FirstRow) THEN vmm_set_dirty(Copied(f, f.dirty \ {FirstRow}), f.dirty)
  ELSE [f EXCEPT !.hung = TRUE]
Flipped(f) ==
  IF fbmode.flip THEN [f EXCEPT !.front = f.back]
  ELSE IF f.flip_all THEN vmm_set_dirty([f EXCEPT !.front = f.back, !.flip_all = FALSE], Rows)
  ELSE PageLoop(f)
fbuf_commit(f) == IF fbmode.direct \/ ~fbmode.back THEN f ELSE [Flipped(f) EXCEPT !.committed = TRUE]

(* The terminal on it. The room that is left is an unsigned number.        *)
Room(x) == (Width - x * FONT_W) % WORD
fbterm_newline(f) ==
  IF f.y + 1 = H THEN fbuf_scroll_up([f EXCEPT !.x = 0], f.bg) ELSE [f EXCEPT !.x = 0, !.y = @ + 1]
\* A slip: a row ends only where no pixel is left of it.
FbWrapFlush(f) == IF Room(f.x) = 0 THEN fbterm_newline(f) ELSE f
FbWrap(f) == IF Room(f.x) < FONT_W THEN fbterm_newline(f) ELSE f
Drawn(c, fg, bg) == Cell(c, IF c = " " THEN bg ELSE fg, bg)
FbChar(f, c) == [fbuf_putc_stub(f, f.y * W + f.x, Drawn(c, f.fg, f.bg)) EXCEPT !.x = @ + 1]
MoreTab(f) == Room(f.x) >= FONT_W /\ f.x % HTAB_LENGTH # 0
TabOn(f) == IF MoreTab(f) THEN FbChar(f, " ") ELSE f
fbterm_tab(f) == TabOn(TabOn(TabOn(FbChar(f, " "))))
FbBack(f) ==
  IF f.x > 0 THEN [f EXCEPT !.x = @ - 1]
  ELSE IF f.y > 0 THEN [f EXCEPT !.x = (Width \div FONT_W) - 1, !.y = @ - 1] ELSE f
fbterm_putc_stub(f, c) ==
  CASE c = "bs" -> FbBack(f)
    [] c = "cr" -> [f EXCEPT !.x = 0]
    [] c = "nl" -> fbterm_newline(f)
    [] c = "tab" -> FbWrap(fbterm_tab(f))
    [] OTHER -> FbWrap(FbChar(f, c))
fbterm_clear(f) == fbuf_fill([f EXCEPT !.x = 0, !.y = 0], f.bg)
fbterm_set_xy(f, x, y) == [f EXCEPT !.x = x, !.y = y]

-----------------------------------------------------------------------------
(* The front end. A call is a sequence of what its hook does one by one; a *)
(* colour by its index is looked up for a terminal that takes none.        *)

Char(c) == [kind |-> "char", c |-> c, n |-> 0, m |-> 0]
Clear == [kind |-> "clear", c |-> Nobody, n |-> 0, m |-> 0]
SetXy(x, y) == [kind |-> "xy", c |-> Nobody, n |-> x, m |-> y]
SetFg(i) == [kind |-> "fg", c |-> Nobody, n |-> i, m |-> 0]
SetBg(i) == [kind |-> "bg", c |-> Nobody, n |-> i, m |-> 0]
Puts(s) == [i \in DOMAIN s |-> Char(s[i])]

OnVga(v, e) ==
  CASE e.kind = "char" -> vgaterm_putc_stub(v, e.c) [] e.kind = "clear" -> vgaterm_clear(v)
    [] e.kind = "xy" -> vgaterm_set_xy(v, e.n, e.m)
    [] e.kind = "fg" -> vgaterm_setfg_idx(v, e.n) [] e.kind = "bg" -> vgaterm_setbg_idx(v, e.n)
OnFb(f, e) ==
  CASE e.kind = "char" -> fbterm_putc_stub(f, e.c) [] e.kind = "clear" -> fbterm_clear(f)
    [] e.kind = "xy" -> fbterm_set_xy(f, e.n, e.m)
    [] e.kind = "fg" -> [f EXCEPT !.fg = Palette[e.n]] [] e.kind = "bg" -> [f EXCEPT !.bg = Palette[e.n]]
Indexed(color) ==
  LET found == {i \in DOMAIN Palette : Palette[i] = color} IN CHOOSE i \in found : \A j \in found : i <= j
\* What term_getfg_indexed(), term_getfg_rgb() and those of the background answer.
VgaColors(v) == <<IdxMap(v.fg), Palette[IdxMap(v.fg)], IdxMap(v.bg), Palette[IdxMap(v.bg)]>>
FbColors(f) == <<Indexed(f.fg), f.fg, Indexed(f.bg), f.bg>>

ConsoleStart(fbmodes, irqs) ==
  LET blank == [p \in Place |-> Cell(" ", Palette[0], Palette[0])] IN
  /\ fbmode \in fbmodes /\ out_irq \in irqs
  /\ vga = [x |-> 0, y |-> 0, fg |-> 7, bg |-> 0, cells |-> [p \in Place |-> Cell(" ", 7, 0)]]
  /\ fb = [x |-> 0, y |-> 0, fg |-> Palette[7], bg |-> Palette[0], front |-> blank, back |-> blank,
           dirty |-> {}, flip_all |-> FALSE, committed |-> TRUE, hung |-> FALSE]
  /\ on = (CHOOSE t \in Task : TRUE) /\ intr = [t \in Task |-> TRUE] /\ want = [t \in Task |-> TRUE]
  /\ mutex_out = Nobody /\ call = [t \in Task |-> Nobody] /\ line = Nobody /\ todo = <<>>
  /\ calls = 0 /\ ticks = 0 /\ torn = FALSE /\ clean = TRUE
ConsoleInit == ConsoleStart(FbMode, BOOLEAN)

\* What a call may consist of, and the records of calls and of a line that is read.
Elements == (UNION {{op[i] : i \in DOMAIN op} : op \in Operation}) \union {Char(c) : c \in Key \union {"bs", " ", "cr", "nl"}}
CallRecords == [left : Seq(Elements), irq : BOOLEAN, begun : BOOLEAN]
LineRecords == [task : Task, s : Seq(Key), keys : Nat]
\* A colour is an index, and whoever moves the cursor keeps it on the screen.
ASSUME ConsoleAssumption ==
  /\ W \in Nat \ {0} /\ H \in Nat \ {0} /\ MAX_KEYS \in Nat
  /\ Nobody \notin Task /\ Nobody \notin CallRecords /\ Nobody \notin LineRecords
  /\ \A op \in Operation : op \in Seq(Elements)
  /\ \A e \in Elements :
       /\ e.kind \in {"char", "clear", "xy", "fg", "bg"} /\ e.n \in Nat /\ e.m \in Nat
       /\ e.kind = "xy" => e.n < W /\ e.m < H
\* The pixels left over are fewer than a character's, and the first sixteen
\* colours, which a text terminal has, differ.
ASSUME ScreenAssumption ==
  /\ FONT_W \in Nat \ {0} /\ RIM \in 0..FONT_W - 1 /\ WORD \in Nat /\ Width < WORD
  /\ DOMAIN Palette \subseteq Nat /\ 0..15 \subseteq DOMAIN Palette
  /\ \A i, j \in 0..15 : Palette[i] = Palette[j] => i = j

\* Interrupts stay off for good once the commit looks at a clean first page.
Idle(t) == on = t /\ call[t] = Nobody /\ ~fb.hung
Reading(t) == line # Nobody /\ line.task = t
screenRest == <<fbmode, out_irq, ticks, on>>

\* A slip: the mutex is left to whoever turns interrupts off.
UnguardedStart(t, elems) ==
  /\ mutex_out' = t
  /\ call' = [call EXCEPT ![t] = [left |-> elems, irq |-> ~out_irq /\ intr[t], begun |-> FALSE]]
  /\ intr' = IF out_irq THEN intr ELSE [intr EXCEPT ![t] = FALSE]
term_outguard_start(t, elems) ==
  /\ mutex_out = Nobody /\ mutex_out' = t
  /\ call' = [call EXCEPT ![t] = [left |-> elems, irq |-> ~out_irq /\ intr[t], begun |-> FALSE]]
  /\ intr' = IF out_irq THEN intr ELSE [intr EXCEPT ![t] = FALSE]
term_outguard_end(t) ==
  /\ mutex_out' = Nobody
  /\ call' = [call EXCEPT ![t] = Nobody]
  /\ intr' = [intr EXCEPT ![t] = @ \/ call[t].irq]
Call(t) ==
  /\ Idle(t) /\ ~Reading(t) /\ calls < MAX_CALLS /\ calls' = calls + 1
  /\ \E op \in Operation : term_outguard_start(t, op)
  /\ UNCHANGED <<screenRest, vga, fb, want, line, todo, torn, clean>>
Put(t) ==
  /\ on = t /\ call[t] # Nobody /\ call[t].left # <<>> /\ ~fb.hung
  /\ vga' = OnVga(vga, Head(call[t].left)) /\ fb' = OnFb(fb, Head(call[t].left))
  /\ call' = [call EXCEPT ![t].left = Tail(@), ![t].begun = TRUE]
  /\ torn' = (torn \/ \E o \in Task \ {t} : call[o] # Nobody /\ call[o].begun /\ call[o].left # <<>>)
  /\ clean' = (clean /\ (line # Nobody => Reading(t)))
  /\ UNCHANGED <<screenRest, intr, want, mutex_out, line, todo, calls>>
Return(t) ==
  /\ on = t /\ call[t] # Nobody /\ call[t].left = <<>> /\ ~fb.hung
  /\ term_outguard_end(t)
  /\ UNCHANGED <<screenRest, vga, fb, want, line, todo, calls, torn, clean>>

\* term_gets(): the line of a task that reads, and the echo of each key.
Gets(t) ==
  /\ Idle(t) /\ line = Nobody /\ calls < MAX_CALLS /\ calls' = calls + 1
  /\ line' = [task |-> t, s |-> <<>>, keys |-> 0] /\ clean' = TRUE
  /\ UNCHANGED <<screenRest, vga, fb, intr, want, mutex_out, call, todo, torn>>
Shorter(s) == IF s = <<>> THEN s ELSE SubSeq(s, 1, Len(s) - 1)
Echoed(c) == CASE c = "nl" -> <<"cr", "nl">> [] c = "bs" -> <<"bs", " ", "bs">> [] OTHER -> <<c>>
TypeKey(t) ==
  /\ Idle(t) /\ Reading(t) /\ todo = <<>> /\ line.keys < MAX_KEYS
  /\ \E c \in Key :
       /\ todo' = Echoed(c)
       /\ clean' = (clean /\ (c = "bs" => line.s # <<>>))
       /\ line' = [line EXCEPT !.keys = IF c = "nl" THEN MAX_KEYS ELSE @ + 1,
                               !.s = CASE c = "nl" -> @ [] c = "bs" -> Shorter(@) [] OTHER -> Append(@, c)]
  /\ UNCHANGED <<screenRest, vga, fb, intr, want, mutex_out, call, calls, torn>>
Echo(t) ==
  /\ Idle(t) /\ Reading(t) /\ todo # <<>>
  /\ term_outguard_start(t, Puts(todo)) /\ todo' = <<>>
  /\ line' = IF todo = Echoed("nl") THEN Nobody ELSE line
  /\ UNCHANGED <<screenRest, vga, fb, want, calls, torn, clean>>

\* The caller's own interrupt flag; the timer, which commits when the period is over.
SetIntr(t) ==
  /\ Idle(t) /\ calls < MAX_CALLS /\ calls' = calls + 1
  /\ want' = [want EXCEPT ![t] = ~@] /\ intr' = [intr EXCEPT ![t] = ~@]
  /\ UNCHANGED <<screenRest, vga, fb, mutex_out, call, line, todo, torn, clean>>
timer_handler ==
  /\ intr[on] /\ ticks < MAX_TICKS /\ ticks' = ticks + 1 /\ ~fb.hung
  /\ fb' \in {fb, fbuf_commit(fb)}
  /\ on' \in Task
  /\ UNCHANGED <<fbmode, out_irq, vga, intr, want, mutex_out, call, line, todo, calls, torn, clean>>

ConsoleNext ==
  \/ \E t \in Task : Call(t) \/ Put(t) \/ Return(t) \/ Gets(t) \/ TypeKey(t) \/ Echo(t) \/ SetIntr(t)
  \/ timer_handler
ConsoleSpec == ConsoleInit /\ [][ConsoleNext]_consoleVars

-----------------------------------------------------------------------------
(* The two terminals agree, whatever they are given: on the characters and *)
(* colours of every place, on the cursor, and on the colours they report   *)
(* (vgaterm_putc_stub(), fbterm_putc_stub(), and the look-ups of           *)
(* terminal.c).                                                            *)
Look(c, fg, bg) == <<c, IF c = " " THEN 0 ELSE fg, bg>>
VgaLook(cell) == Look(cell[1], Palette[IdxMap(cell[2])], Palette[IdxMap(cell[3])])
FbLook(cell) == Look(cell[1], cell[2], cell[3])
TwinScreens ==
  /\ <<vga.x, vga.y>> = <<fb.x, fb.y>>
  /\ \A p \in Place : VgaLook(vga.cells[p]) = FbLook(Source(fb)[p])
  /\ VgaColors(vga) = FbColors(fb)

(* Once fbuf_commit() has run, the framebuffer shows the back buffer, up   *)
(* to the next change; one that is written directly always shows it.       *)
CommitShows == fbmode.back /\ (fbmode.direct \/ fb.committed) => fb.front = fb.back

(* No task's output is cut into by another's, whether the guard is the     *)
(* interrupt flag or the mutex alone, and a call leaves the flag as it     *)
(* found it (term_outguard_start(), term_outguard_end()). While term_gets()*)
(* reads, and nobody else writes, what has been read is what stands before *)
(* the cursor, over the end of a row and of the screen, as far as it has   *)
(* not been scrolled away. A key that takes back a character before the    *)
(* first is left out: it takes the prompt.                                 *)
CallsWhole == ~torn /\ \A t \in Task : call[t] = Nobody => intr[t] = want[t]
Cursor(v) == v.y * W + v.x
Stands(v, s) ==
  \A i \in DOMAIN s : LET p == Cursor(v) - Len(s) + i - 1 IN p \in Place => v.cells[p][1] = s[i]
LineEchoed ==
  line # Nobody /\ todo = <<>> /\ clean /\ call[line.task] = Nobody => Stands(vga, line.s)
OutputWhole == CallsWhole /\ LineEchoed
============================================================================
