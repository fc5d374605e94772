------------------------------- MODULE Serial -------------------------------
(***************************************************************************)
(* The terminal at the end of a serial line (hal/term_serial.c, hal/serial.c *)
(* and the port in arch/x86/serial.c): what is asked of it is written as   *)
(* escape sequences, and where its cursor is can only be known by asking,  *)
(* with the answer among the keys typed meanwhile. A terminal of COLS by   *)
(* ROWS, numbered from 1, stands for the one at the other end.             *)
(***************************************************************************)
EXTENDS Integers, Sequences

CONSTANTS COLS, ROWS, Positions, Indexes, Keys, MAX_REQUESTS, MAX_TYPED

VARIABLES
  screen,            \* the terminal: cursor and colours
  rx,                \* characters on their way from it
  asked,             \* reports of the cursor it has to send
  request, parse,    \* the call under way, and the report being read
  serterm_fgcolor, serterm_bgcolor,
  requests,
  typed,             \* history: the keys typed, in order
  answer             \* history: what the last call found, and what was so
serialVars == <<screen, rx, asked, request, parse, serterm_fgcolor, serterm_bgcolor, requests, typed, answer>>

AtMost(n, limit) == IF n > limit THEN limit ELSE n
Clamp(n, limit) == IF n < 1 THEN 1 ELSE AtMost(n, limit)
Moved(s, x, y) == [s EXCEPT !.x = Clamp(x, COLS), !.y = Clamp(y, ROWS)]
Digits(n) == IF n < 10 THEN <<n>> ELSE <<n \div 10, n % 10>>
\* Characters of a report are numbers: digits are themselves.
ESC == 100
BRACKET == 101
SEMICOLON == 102
REPORT == 103
Report(s) == <<ESC, BRACKET>> \o Digits(s.y) \o <<SEMICOLON>> \o Digits(s.x) \o <<REPORT>>
\* How the terminal takes a colour sequence: the sixteen by their codes, the rest by number.
Colored(codes, first, bright) ==
  IF Len(codes) = 3 THEN codes[3]
  ELSE IF codes[1] \in first..first + 7 THEN codes[1] - first ELSE codes[1] - bright + 8

-----------------------------------------------------------------------------
SerialStart(positions) ==
  /\ \E p \in positions : screen = [x |-> Clamp(p[1], COLS), y |-> Clamp(p[2], ROWS), fg |-> 7, bg |-> 0]
  /\ rx = <<>> /\ asked = 0 /\ request = <<>> /\ parse = [state |-> 0, x |-> 0, y |-> 0]
  /\ serterm_fgcolor = 7 /\ serterm_bgcolor = 0
  /\ requests = 0 /\ typed = <<>> /\ answer = <<>>
SerialInit == SerialStart(Positions)

Written == request = <<>> /\ requests < MAX_REQUESTS /\ requests' = requests + 1
portRest == <<rx, asked, request, parse, typed>>
serterm_putc(nl) ==
  /\ Written /\ answer' = <<>>
  /\ screen' = IF nl THEN Moved(screen, 1, screen.y + 1) ELSE Moved(screen, screen.x + 1, screen.y)
  /\ UNCHANGED <<portRest, serterm_fgcolor, serterm_bgcolor>>
serterm_clear ==
  /\ Written /\ answer' = <<>> /\ screen' = Moved(screen, 1, 1)
  /\ UNCHANGED <<portRest, serterm_fgcolor, serterm_bgcolor>>
serterm_set_xy(x, y) ==
  /\ Written /\ answer' = <<>> /\ screen' = Moved(screen, x, y)
  /\ UNCHANGED <<portRest, serterm_fgcolor, serterm_bgcolor>>
Sgr(idx, first, bright, long) ==
  IF idx < 16 THEN <<IF idx < 8 THEN idx + first ELSE idx - 8 + bright>> ELSE <<long, 5, idx>>
serterm_setfg_idx(idx) ==
  /\ Written /\ answer' = <<>>
  /\ screen' = [screen EXCEPT !.fg = Colored(Sgr(idx, 30, 90, 38), 30, 90)] /\ serterm_fgcolor' = idx
  /\ UNCHANGED <<portRest, serterm_bgcolor>>
serterm_setbg_idx(idx) ==
  /\ Written /\ answer' = <<>>
  /\ screen' = [screen EXCEPT !.bg = Colored(Sgr(idx, 40, 100, 48), 40, 100)] /\ serterm_bgcolor' = idx
  /\ UNCHANGED <<portRest, serterm_fgcolor>>

\* A call that reads: the steps it has still to take, and what it has to put back.
colorRest == <<serterm_fgcolor, serterm_bgcolor>>
Requested(steps) ==
  /\ Written /\ answer' = <<>> /\ request' = steps
  /\ UNCHANGED <<screen, rx, asked, parse, typed, colorRest>>
serterm_get_xy == Requested(<<"ask", "read", "found">>)
serterm_get_dimensions == Requested(<<"ask", "read", "corner", "ask", "read", "restore">>)

Doing(step) == request # <<>> /\ Head(request) = step
Done == request' = Tail(request)
Ask ==
  /\ Doing("ask") /\ Done /\ asked' = asked + 1
  /\ parse' = [state |-> 0, x |-> 0, y |-> 0]
  /\ UNCHANGED <<screen, rx, requests, typed, answer, colorRest>>
Digit(n, c) == n * 10 + c
Parsed(p, c) ==
  CASE p.state = 0 -> IF c = ESC THEN [p EXCEPT !.state = 1] ELSE p
    [] p.state = 1 -> IF c = BRACKET THEN [p EXCEPT !.state = 2] ELSE p
    [] p.state = 2 -> IF c = SEMICOLON THEN [p EXCEPT !.state = 3] ELSE [p EXCEPT !.y = Digit(@, c)]
    [] p.state = 3 -> IF c = REPORT THEN [p EXCEPT !.state = 4] ELSE [p EXCEPT !.x = Digit(@, c)]
ser_getc ==
  /\ Doing("read") /\ rx # <<>> /\ rx' = Tail(rx)
  /\ parse' = Parsed(parse, Head(rx))
  /\ request' = IF parse'.state = 4 THEN Tail(request) ELSE request
  /\ UNCHANGED <<screen, asked, requests, typed, answer, colorRest>>
Found ==
  /\ Doing("found") /\ Done /\ answer' = <<<<parse.x, parse.y>>, <<screen.x, screen.y>>>>
  /\ UNCHANGED <<screen, rx, asked, parse, requests, typed, colorRest>>
Corner ==
  /\ Doing("corner") /\ request' = Append(Tail(request), <<parse.x, parse.y>>)
  /\ screen' = Moved(screen, 1000, 1000) /\ answer' = <<<<screen.x, screen.y>>>>
  /\ UNCHANGED <<rx, asked, parse, requests, typed, colorRest>>
Restore ==
  /\ Doing("restore")
  /\ LET saved == request[2] IN screen' = Moved(screen, saved[1], saved[2])
  /\ request' = <<>> /\ answer' = Append(answer, <<screen'.x, screen'.y>>)
  /\ UNCHANGED <<rx, asked, parse, requests, typed, colorRest>>

\* The terminal sends its report in one piece, and its user types.
Send ==
  /\ asked > 0 /\ asked' = asked - 1 /\ rx' = rx \o Report(screen)
  /\ UNCHANGED <<screen, request, parse, requests, typed, answer, colorRest>>
TypeKeys(c) ==
  /\ Len(typed) < MAX_TYPED /\ typed' = Append(typed, c) /\ rx' = Append(rx, c)
  /\ UNCHANGED <<screen, asked, request, parse, requests, answer, colorRest>>
SerialNext ==
  \/ \E nl \in BOOLEAN : serterm_putc(nl)
  \/ serterm_clear \/ \E p \in Positions : serterm_set_xy(p[1], p[2])
  \/ \E idx \in Indexes : serterm_setfg_idx(idx) \/ serterm_setbg_idx(idx)
  \/ serterm_get_xy \/ serterm_get_dimensions
  \/ Ask \/ ser_getc \/ Found \/ Corner \/ Restore
  \/ Send \/ \E c \in Keys : TypeKeys(c)

-----------------------------------------------------------------------------
\* What an arrow key sends, ESC and a bracket, begins as a report does.
TypedArrow == \E i \in DOMAIN typed : \E j \in DOMAIN typed : i < j /\ typed[i] = ESC /\ typed[j] = BRACKET

(* Among keys that do not begin as a report does, serterm_get_xy() finds the *)
(* cursor where it is, and serterm_get_dimensions() puts it back, an ESC by  *)
(* itself before the report included; the colours the terminal has are those *)
(* the driver answers with. After TypedArrow the row is another one: the     *)
(* loops of term_serial.c:74-95 take the key for the report.                 *)
SerialExact ==
  /\ Len(answer) = 2 /\ ~TypedArrow => answer[1] = answer[2]
  /\ <<screen.fg, screen.bg>> = <<serterm_fgcolor, serterm_bgcolor>>
=============================================================================
