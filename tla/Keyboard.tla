------------------------------- MODULE Keyboard -------------------------------
(***************************************************************************)
(* Keyboard events of SysX: the ring buffer of hal/keyboard.c, written by  *)
(* the keyboard interrupt and read by tasks, through the terminal          *)
(* (term_getc_noecho() in hal/terminal.c, kbd_term_getc() in               *)
(* hal/term_kbd.c) or directly.                                            *)
(*                                                                         *)
(* The interrupt is two steps: the timer, whose priority is higher, can    *)
(* preempt it, and a reader then meets a slot that is written and not yet  *)
(* published.  Readers are preempted anywhere.                             *)
(*                                                                         *)
(* Modifiers and keymaps only decide which character a key press carries;  *)
(* an event here carries one or does not, and n tells key presses apart.   *)
(***************************************************************************)
EXTENDS Integers, Sequences, FiniteSets

CONSTANTS KBD_MAXNUM,     \* number of keyboards
          KBD_MAXEVENTS,  \* slots of the ring
          Reader,         \* tasks that read
          NONE,
          MAX_PRESSES     \* bound: key presses in a behaviour

\* The ring has 64 slots in the code.
ASSUME KeyboardAssumption ==
  /\ KBD_MAXNUM \in Nat \ {0}
  /\ KBD_MAXEVENTS > 1 /\ \E k \in 1 .. KBD_MAXEVENTS : KBD_MAXEVENTS = 2 ^ k
  /\ NONE \notin Reader
  /\ MAX_PRESSES \in Nat

VARIABLES
  kbd_list,          \* keyboards that are in use
  kbd_events, kbd_events_rdidx, kbd_events_wridx,
  keypress,          \* "none", or "writing" inside kbd_keypress()
  mutex_in,          \* the task that holds the terminal's input, or NONE
  pc, id, rdidx, rdidx2,  \* each reader: position and local variables
  \* History:
  presses,           \* number of key presses so far
  published,         \* the events that have been put in the ring, in order
  delivered,         \* the key presses that readers got, in order
  overflowed         \* a key press has found the ring full

ring     == <<kbd_events, kbd_events_rdidx, kbd_events_wridx>>
locals   == <<pc, id, rdidx, rdidx2>>
history  == <<presses, published, overflowed>>
vars == <<kbd_list, ring, keypress, mutex_in, locals, history, delivered>>

Kbd == 0 .. KBD_MAXNUM - 1
ANY == -1   \* (size_t)-1: any keyboard

\* code is FALSE in an event that has been invalidated.
Event == [id : Kbd, code : BOOLEAN, c : BOOLEAN, n : 0 .. MAX_PRESSES]
NoEvent == [id |-> 0, code |-> FALSE, c |-> FALSE, n |-> 0]

Steps == {"idle", "available", "scan", "invalidate", "advance", "fetch",
          "release", "peek", "take", "skip", "skip_end"}

\* The slot after the last is what the compiler put there.
Slots == 0 .. KBD_MAXEVENTS

Succ(i) == (i + 1) % KBD_MAXEVENTS

Init ==
  /\ kbd_list = {}
  /\ \E beyond \in {NoEvent, [NoEvent EXCEPT !.c = TRUE]} :
       kbd_events = [i \in Slots |-> IF i < KBD_MAXEVENTS THEN NoEvent ELSE beyond]
  /\ kbd_events_rdidx = 0 /\ kbd_events_wridx = 0
  /\ keypress = "none"
  /\ mutex_in = NONE
  /\ pc = [r \in Reader |-> "idle"]
  /\ id = [r \in Reader |-> ANY]
  /\ rdidx = [r \in Reader |-> 0] /\ rdidx2 = [r \in Reader |-> 0]
  /\ presses = 0
  /\ published = <<>>
  /\ delivered = <<>>
  /\ overflowed = FALSE

-----------------------------------------------------------------------------
(***************************************************************************)
(* Drivers: registering keyboards, and the interrupt                       *)
(***************************************************************************)
kbd_register(k) ==
  /\ k \in Kbd \ kbd_list
  /\ \A j \in 0 .. k - 1 : j \in kbd_list
  /\ kbd_list' = kbd_list \union {k}
  /\ UNCHANGED <<ring, keypress, mutex_in, locals, history, delivered>>

kbd_unregister(k) ==
  /\ k \in kbd_list
  /\ kbd_list' = kbd_list \ {k}
  /\ UNCHANGED <<ring, keypress, mutex_in, locals, history, delivered>>

Full == Succ(kbd_events_wridx) = kbd_events_rdidx

\* (rdidx + 1) & KBD_MAXEVENTS, which is one bit.
DiscardFirst == IF kbd_events_rdidx + 1 < KBD_MAXEVENTS THEN 0 ELSE KBD_MAXEVENTS

\* kbd_keypress() up to the last assignment; the caller is the driver of k.
KeypressWrite(k) ==
  /\ keypress = "none"
  /\ k \in kbd_list
  /\ presses < MAX_PRESSES
  /\ presses' = presses + 1
  /\ \E c \in BOOLEAN :
       kbd_events' = [kbd_events EXCEPT ![kbd_events_wridx] =
                        [id |-> k, code |-> TRUE, c |-> c, n |-> presses']]
  /\ kbd_events_rdidx' = IF Full THEN DiscardFirst ELSE kbd_events_rdidx
  /\ overflowed' = (overflowed \/ Full)
  /\ keypress' = "writing"
  /\ UNCHANGED <<kbd_list, kbd_events_wridx, mutex_in, locals, published,
                 delivered>>

\* The event is published.
KeypressPublish ==
  /\ keypress = "writing"
  /\ kbd_events_wridx' = Succ(kbd_events_wridx)
  /\ published' = Append(published, kbd_events[kbd_events_wridx])
  /\ keypress' = "none"
  /\ UNCHANGED <<kbd_list, kbd_events, kbd_events_rdidx, mutex_in, locals,
                 presses, overflowed, delivered>>

Driver == \/ \E k \in Kbd : kbd_register(k) \/ kbd_unregister(k) \/ KeypressWrite(k)
          \/ KeypressPublish

-----------------------------------------------------------------------------
(***************************************************************************)
(* Readers                                                                 *)
(***************************************************************************)
Goto(r, step) == pc' = [pc EXCEPT ![r] = step]

Matches(r, i) == id[r] = ANY \/ kbd_events[i].id = id[r]

\* The events from rdidx up to wridx, as the loops of the readers visit them.
Pending ==
  LET at[n \in 0 .. KBD_MAXEVENTS] ==
        IF n = 0 THEN kbd_events_rdidx ELSE Succ(at[n - 1])
      len == CHOOSE n \in 0 .. KBD_MAXEVENTS :
               /\ at[n] = kbd_events_wridx
               /\ \A m \in 0 .. n - 1 : at[m] # kbd_events_wridx
  IN  [n \in 1 .. len |-> kbd_events[at[n - 1]]]

\* A slip: only the first event is looked at.
CharAvailableFirst == Pending # <<>> /\ Pending[1].c

CharAvailable == \E n \in 1 .. Len(Pending) : Pending[n].c

\* A slip: the mutex is not waited for.
NoMutex == TRUE

MutexFree == mutex_in = NONE

\* term_getc_noecho(): the mutex, ...
Getc(r) ==
  /\ pc[r] = "idle"
  /\ MutexFree
  /\ mutex_in' = r
  /\ id' = [id EXCEPT ![r] = ANY]
  /\ Goto(r, "available")
  /\ UNCHANGED <<kbd_list, ring, keypress, rdidx, rdidx2, history, delivered>>

\* ... the loop that waits until kbd_char_available() is not 0, ...
Available(r) ==
  /\ pc[r] = "available"
  /\ CharAvailable
  /\ rdidx' = [rdidx EXCEPT ![r] = kbd_events_rdidx]
  /\ Goto(r, "scan")
  /\ UNCHANGED <<kbd_list, ring, keypress, mutex_in, id, rdidx2, history,
                 delivered>>

NotAvailable(r) ==
  /\ pc[r] = "available"
  /\ ~CharAvailable
  /\ UNCHANGED vars

\* ... and kbd_char_read(): the scan for a character, ...
ScanFails(r) ==
  /\ pc[r] = "scan"
  /\ rdidx[r] = kbd_events_wridx
  /\ Goto(r, "release")
  /\ UNCHANGED <<kbd_list, ring, keypress, mutex_in, id, rdidx, rdidx2, history,
                 delivered>>

ScanNext(r) ==
  /\ pc[r] = "scan"
  /\ rdidx[r] # kbd_events_wridx
  /\ ~(Matches(r, rdidx[r]) /\ kbd_events[rdidx[r]].c)
  /\ rdidx' = [rdidx EXCEPT ![r] = Succ(@)]
  /\ UNCHANGED <<kbd_list, ring, keypress, mutex_in, pc, id, rdidx2, history,
                 delivered>>

ScanFound(r) ==
  /\ pc[r] = "scan"
  /\ rdidx[r] # kbd_events_wridx
  /\ Matches(r, rdidx[r]) /\ kbd_events[rdidx[r]].c
  /\ kbd_events' = [kbd_events EXCEPT ![rdidx[r]].code = FALSE]
  /\ rdidx2' = [rdidx2 EXCEPT ![r] = kbd_events_rdidx]
  /\ Goto(r, "invalidate")
  /\ UNCHANGED <<kbd_list, kbd_events_rdidx, kbd_events_wridx, keypress,
                 mutex_in, id, rdidx, history, delivered>>

\* ... the invalidation of the events before it, ...
Invalidate(r) ==
  /\ pc[r] = "invalidate"
  /\ rdidx2[r] # rdidx[r]
  /\ IF Matches(r, rdidx2[r])
       THEN /\ kbd_events' = [kbd_events EXCEPT ![rdidx2[r]].code = FALSE]
            /\ kbd_events_rdidx' = IF rdidx2[r] = kbd_events_rdidx
                                     THEN Succ(kbd_events_rdidx)
                                     ELSE kbd_events_rdidx
       ELSE UNCHANGED <<kbd_events, kbd_events_rdidx>>
  /\ rdidx2' = [rdidx2 EXCEPT ![r] = Succ(@)]
  /\ UNCHANGED <<kbd_list, kbd_events_wridx, keypress, mutex_in, pc, id, rdidx,
                 history, delivered>>

Invalidated(r) ==
  /\ pc[r] = "invalidate"
  /\ rdidx2[r] = rdidx[r]
  /\ Goto(r, "advance")
  /\ UNCHANGED <<kbd_list, ring, keypress, mutex_in, id, rdidx, rdidx2, history,
                 delivered>>

\* ... the new read index, ...
Advance(r) ==
  /\ pc[r] = "advance"
  /\ kbd_events_rdidx' = Succ(rdidx[r])
  /\ Goto(r, "fetch")
  /\ UNCHANGED <<kbd_list, kbd_events, kbd_events_wridx, keypress, mutex_in,
                 id, rdidx, rdidx2, history, delivered>>

\* ... and only then the character.
Fetch(r) ==
  /\ pc[r] = "fetch"
  /\ delivered' = Append(delivered, kbd_events[rdidx[r]].n)
  /\ Goto(r, "release")
  /\ UNCHANGED <<kbd_list, ring, keypress, mutex_in, id, rdidx, rdidx2, history>>

Release(r) ==
  /\ pc[r] = "release"
  /\ mutex_in' = IF mutex_in = r THEN NONE ELSE mutex_in
  /\ Goto(r, "idle")
  /\ UNCHANGED <<kbd_list, ring, keypress, id, rdidx, rdidx2, history, delivered>>

TermRead(r) ==
  \/ Getc(r) \/ Available(r) \/ NotAvailable(r)
  \/ ScanFails(r) \/ ScanNext(r) \/ ScanFound(r)
  \/ Invalidate(r) \/ Invalidated(r) \/ Advance(r) \/ Fetch(r) \/ Release(r)

-----------------------------------------------------------------------------
(***************************************************************************)
(* kbd_event_read()                                                        *)
(***************************************************************************)
EventRead(r) ==
  /\ pc[r] = "idle"
  /\ \E k \in Kbd \union {ANY} : id' = [id EXCEPT ![r] = k]
  /\ rdidx' = [rdidx EXCEPT ![r] = kbd_events_rdidx]
  /\ Goto(r, "peek")
  /\ UNCHANGED <<kbd_list, ring, keypress, mutex_in, rdidx2, history, delivered>>

\* kbd_event_peek().
PeekFails(r) ==
  /\ pc[r] = "peek"
  /\ rdidx[r] = kbd_events_wridx
  /\ Goto(r, "idle")
  /\ UNCHANGED <<kbd_list, ring, keypress, mutex_in, id, rdidx, rdidx2, history,
                 delivered>>

PeekNext(r) ==
  /\ pc[r] = "peek"
  /\ rdidx[r] # kbd_events_wridx
  /\ ~(Matches(r, rdidx[r]) /\ kbd_events[rdidx[r]].code)
  /\ rdidx' = [rdidx EXCEPT ![r] = Succ(@)]
  /\ UNCHANGED <<kbd_list, ring, keypress, mutex_in, pc, id, rdidx2, history,
                 delivered>>

PeekFound(r) ==
  /\ pc[r] = "peek"
  /\ rdidx[r] # kbd_events_wridx
  /\ Matches(r, rdidx[r]) /\ kbd_events[rdidx[r]].code
  /\ Goto(r, "take")
  /\ UNCHANGED <<kbd_list, ring, keypress, mutex_in, id, rdidx, rdidx2, history,
                 delivered>>

\* A slip: the event stays valid.
StillValid(events, i) == events

Invalid(events, i) == [events EXCEPT ![i].code = FALSE]

\* The copy to the caller's buffer, the invalidation, and whether the event
\* was the first one.
Take(r) ==
  /\ pc[r] = "take"
  /\ delivered' = Append(delivered, kbd_events[rdidx[r]].n)
  /\ kbd_events' = Invalid(kbd_events, rdidx[r])
  /\ Goto(r, IF rdidx[r] = kbd_events_rdidx THEN "skip" ELSE "idle")
  /\ UNCHANGED <<kbd_list, kbd_events_rdidx, kbd_events_wridx, keypress,
                 mutex_in, id, rdidx, rdidx2, history>>

\* The loop over invalidated events reads the code first, ...
Skip(r) ==
  /\ pc[r] = "skip"
  /\ Goto(r, IF kbd_events[kbd_events_rdidx].code THEN "idle" ELSE "skip_end")
  /\ UNCHANGED <<kbd_list, ring, keypress, mutex_in, id, rdidx, rdidx2, history,
                 delivered>>

\* ... then whether the slot is one of those written.
SkipEnd(r) ==
  /\ pc[r] = "skip_end"
  /\ IF kbd_events_rdidx = kbd_events_wridx
       THEN Goto(r, "idle") /\ UNCHANGED kbd_events_rdidx
       ELSE Goto(r, "skip") /\ kbd_events_rdidx' = Succ(kbd_events_rdidx)
  /\ UNCHANGED <<kbd_list, kbd_events, kbd_events_wridx, keypress, mutex_in, id,
                 rdidx, rdidx2, history, delivered>>

EventStep(r) ==
  \/ EventRead(r) \/ PeekFails(r) \/ PeekNext(r) \/ PeekFound(r)
  \/ Take(r) \/ Skip(r) \/ SkipEnd(r)

-----------------------------------------------------------------------------
\* What the tree does: tasks read through the terminal.
TermNext == Driver \/ \E r \in Reader : TermRead(r)
TermSpec == Init /\ [][TermNext]_vars

\* What the header offers a driver or module: reading events.
EventNext == Driver \/ \E r \in Reader : EventStep(r)
EventSpec == Init /\ [][EventNext]_vars

\* An interrupt ends; the steps of a task that has the terminal are taken, for
\* a ready task gets the CPU; and the free terminal is taken by some task, kmain()
\* at the latest, which reads in a loop.
TermFairness ==
  /\ WF_vars(KeypressPublish)
  /\ \A r \in Reader : WF_vars(TermRead(r) /\ pc[r] # "idle")
  /\ WF_vars(\E r \in Reader : Getc(r))
TermFairSpec == TermSpec /\ TermFairness

(***************************************************************************)
(* Properties                                                              *)
(***************************************************************************)
TypeOK ==
  /\ kbd_list \subseteq Kbd
  /\ kbd_events \in [Slots -> Event]
  /\ kbd_events_rdidx \in Slots /\ kbd_events_wridx \in Slots \ {KBD_MAXEVENTS}
  /\ keypress \in {"none", "writing"}
  /\ mutex_in \in Reader \union {NONE}
  /\ pc \in [Reader -> Steps]
  /\ id \in [Reader -> Kbd \union {ANY}]
  /\ rdidx \in [Reader -> Slots] /\ rdidx2 \in [Reader -> Slots]
  /\ presses \in 0 .. MAX_PRESSES
  /\ published \in Seq(Event) /\ delivered \in Seq(0 .. MAX_PRESSES)
  /\ overflowed \in BOOLEAN

\* The key presses of a sequence of events that carry a character.
Chars(events) ==
  LET carrying == SelectSeq(events, LAMBDA e : e.c)
  IN  [i \in DOMAIN carrying |-> carrying[i].n]

\* The character that a reader has taken out of the ring and not yet returned.
InFlight(r) == IF pc[r] = "fetch" THEN <<kbd_events[rdidx[r]].n>> ELSE <<>>

\* As long as the ring has not been full, each character typed reaches exactly
\* one reader, in the order typed: what was delivered, what the holder of the
\* terminal is about to return and what is pending is all that was typed.
CharsInOrder ==
  ~overflowed =>
    \E r \in Reader :
      /\ \A q \in Reader \ {r} : InFlight(q) = <<>>
      /\ delivered \o InFlight(r) \o Chars(Pending) = Chars(published)

\* Each character typed is delivered, unless the ring overflows.
CharsDelivered ==
  \A n \in 1 .. MAX_PRESSES :
    (\E i \in DOMAIN Chars(published) : Chars(published)[i] = n)
      ~> (overflowed \/ \E i \in DOMAIN delivered : delivered[i] = n)

\* One task that reads the events of all keyboards, or of one after the other,
\* never gets an event twice, and gets those of a keyboard in order.
EventsOnceInOrder ==
  ~overflowed =>
    \A i, j \in DOMAIN delivered :
      /\ delivered[i] = delivered[j] => i = j
      /\ (published[delivered[i]].id = published[delivered[j]].id /\ i < j)
           => delivered[i] < delivered[j]

(***************************************************************************)
(* What the sources say and the code does not keep                         *)
(***************************************************************************)
\* keyboard.c:142, "increment and skip invalidated events": reading an event
\* skips no valid one, so what was published is pending or was delivered.
SkipsOnlyInvalid ==
  ~overflowed =>
    \A i \in DOMAIN published :
      \/ \E j \in DOMAIN Pending : Pending[j].n = published[i].n
      \/ \E j \in DOMAIN delivered : delivered[j] = published[i].n
=============================================================================
