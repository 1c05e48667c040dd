------------------------------- MODULE Screen -------------------------------
(* The text screen, drivers/screen.c, with its two writers.  The shell     *)
(* prints with interrupts enabled; the keyboard interrupt echoes each key  *)
(* with put_char or move_cursor_back and runs to completion.  The shell's  *)
(* put_char is split at its accesses to pos_on_screen, as the build (-O0)  *)
(* executes them.  Colours are left out.                                   *)
EXTENDS Integers

CONSTANTS VGA_WIDTH, VGA_HEIGHT

ASSUME ScreenAssumption == /\ VGA_WIDTH \in Nat \ {0}
                           /\ VGA_HEIGHT \in Nat \ {0}

VGA_MAX_CHARS == VGA_WIDTH * VGA_HEIGHT
Cell == 0 .. VGA_MAX_CHARS - 1

(* The video memory past the screen that the cursor can get over; the BIOS *)
(* may have left characters in it.                                         *)
Past == VGA_MAX_CHARS .. VGA_MAX_CHARS + VGA_WIDTH - 1
EMPTY == "empty"
NL == "NL"
ShellChar == "s"    \* a character the shell prints
EchoChar == "k"     \* a character the keyboard echoes
OldChar == "o"      \* a character left by the BIOS
Letter == {ShellChar, EchoChar, OldChar, EMPTY}

VARIABLES video,          \* video[i]: the character of cell i, and past them
          pos_on_screen,
          pc, ch, pos,    \* the shell: where it is, its character, the copy
                          \* of pos_on_screen in a register
          overrun,        \* the cells past the screen written to: how, which
          raced           \* history: a key interrupted a call of the shell

shell == <<pc, ch, pos>>
vars == <<video, pos_on_screen, shell, overrun, raced>>

(* kernel_main has called clear_screen, and the shell starts. *)
Init == /\ \E old \in {EMPTY, OldChar} :
             video = [i \in Cell \cup Past |-> IF i \in Cell THEN EMPTY ELSE old]
        /\ pos_on_screen = 0
        /\ pc = "idle" /\ ch = ShellChar /\ pos = 0
        /\ overrun = {} /\ raced = FALSE

-----------------------------------------------------------------------------
(* The loops of scroll_screen: every row moves up, the last one is cleared. *)
Scrolled == [i \in Cell \cup Past |->
               IF i \in Past THEN video[i]
               ELSE IF i + VGA_WIDTH \in Cell THEN video[i + VGA_WIDTH]
               ELSE EMPTY]

LastRow == (VGA_HEIGHT - 1) * VGA_WIDTH

(* Mutant of Full: off by one. *)
FullTooLate == pos_on_screen > VGA_MAX_CHARS

Full == pos_on_screen >= VGA_MAX_CHARS

(* The cursor after c is written at p. *)
After(p, c) == IF c = NL THEN (p \div VGA_WIDTH + 1) * VGA_WIDTH ELSE p + 1

(* What a write to cell i, as a character or a blank, adds to overrun. *)
Outside(how, i) == {how} \X ({i} \ Cell)

(* The keyboard interrupt leaves the shell where it is. *)
Interrupt == /\ raced' = (raced \/ pc # "idle")
             /\ UNCHANGED shell

(* A whole put_char, as the interrupt handler executes it.  A key without  *)
(* a character puts a NUL, which is a blank.                               *)
EchoPut(c) ==
  LET p == IF Full THEN LastRow ELSE pos_on_screen
      v == IF Full THEN Scrolled ELSE video
  IN /\ Interrupt
     /\ video' = IF c = NL THEN v ELSE [v EXCEPT ![p] = c]
     /\ overrun' = IF c = NL THEN overrun ELSE overrun \cup Outside("put", p)
     /\ pos_on_screen' = After(p, c)

(* Cells before the cursor that hold a character. *)
Written == {i \in Cell \cup Past : i < pos_on_screen /\ video[i] # EMPTY}

(* Mutant of LastWritten: the first character is erased. *)
FirstWritten(i) == i \in Written /\ \A j \in Written : i <= j

LastWritten(i) == i \in Written /\ \A j \in Written : j <= i

(* move_cursor_back: back to the last character, which is erased; to the   *)
(* start of the screen when there is none.                                 *)
EchoBackspace ==
  /\ Interrupt
  /\ \/ /\ Written = {}
        /\ pos_on_screen' = 0
        /\ UNCHANGED <<video, overrun>>
     \/ \E i \in Written : /\ LastWritten(i)
                           /\ pos_on_screen' = i
                           /\ video' = [video EXCEPT ![i] = EMPTY]
                           /\ overrun' = overrun \cup Outside("erase", i)

-----------------------------------------------------------------------------
(* The shell calls put_char(c). *)
PutCall == /\ pc = "idle"
           /\ ch' \in {ShellChar, NL}
           /\ pc' = "check"
           /\ UNCHANGED <<video, pos_on_screen, pos, overrun, raced>>

PutCheck == /\ pc = "check"
            /\ pc' = IF Full THEN "scroll" ELSE "write"
            /\ UNCHANGED <<video, pos_on_screen, ch, pos, overrun, raced>>

(* scroll_screen, called by put_char or by the command scroll. *)
ScrollRows == /\ pc \in {"scroll", "command"}
              /\ video' = Scrolled
              /\ pc' = IF pc = "scroll" THEN "scrollpos" ELSE "commandpos"
              /\ UNCHANGED <<pos_on_screen, ch, pos, overrun, raced>>

ScrollPos == /\ pc \in {"scrollpos", "commandpos"}
             /\ pos_on_screen' = LastRow
             /\ pc' = IF pc = "scrollpos" THEN "write" ELSE "idle"
             /\ UNCHANGED <<video, ch, pos, overrun, raced>>

PutWrite == /\ pc = "write"
            /\ IF ch = NL
                 THEN UNCHANGED <<video, overrun>>
                 ELSE /\ video' = [video EXCEPT ![pos_on_screen] = ch]
                      /\ overrun' = overrun \cup Outside("put", pos_on_screen)
            /\ pc' = "load"
            /\ UNCHANGED <<pos_on_screen, ch, pos, raced>>

PutLoad == /\ pc = "load"
           /\ pos' = pos_on_screen
           /\ pc' = "store"
           /\ UNCHANGED <<video, pos_on_screen, ch, overrun, raced>>

PutStore == /\ pc = "store"
            /\ pos_on_screen' = After(pos, ch)
            /\ pc' = "idle"
            /\ UNCHANGED <<video, ch, pos, overrun, raced>>

ScrollCommand == /\ pc = "idle"
                 /\ pc' = "command"
                 /\ UNCHANGED <<video, pos_on_screen, ch, pos, overrun, raced>>

(* clear_screen: the cells, then the cursor. *)
ClearCells == /\ pc = "idle"
              /\ video' = [i \in Cell \cup Past |->
                           IF i \in Cell THEN EMPTY ELSE video[i]]
              /\ pc' = "clearpos"
              /\ UNCHANGED <<pos_on_screen, ch, pos, overrun, raced>>

ClearPos == /\ pc = "clearpos"
            /\ pos_on_screen' = 0
            /\ pc' = "idle"
            /\ UNCHANGED <<video, ch, pos, overrun, raced>>

(* clear_row(row), a valid row: the cursor stays. *)
ClearRow == /\ pc = "idle"
            /\ \E row \in 0 .. VGA_HEIGHT - 1 :
                 video' = [i \in Cell \cup Past |-> IF i \div VGA_WIDTH = row
                                                    THEN EMPTY ELSE video[i]]
            /\ UNCHANGED <<pos_on_screen, pc, ch, pos, overrun, raced>>

Next == \/ \E c \in {EchoChar, NL, EMPTY} : EchoPut(c)
        \/ EchoBackspace
        \/ PutCall \/ PutCheck \/ ScrollRows \/ ScrollPos
        \/ PutWrite \/ PutLoad \/ PutStore
        \/ ScrollCommand \/ ClearCells \/ ClearPos \/ ClearRow

Spec == Init /\ [][Next]_vars

-----------------------------------------------------------------------------
(* The cursor is at most one row past the screen. *)
TypeOK == /\ video \in [Cell \cup Past -> Letter]
          /\ pos_on_screen \in 0 .. VGA_MAX_CHARS + VGA_WIDTH
          /\ pc \in {"idle", "check", "scroll", "scrollpos", "command",
                     "commandpos", "write", "load", "store", "clearpos"}
          /\ ch \in {ShellChar, NL}
          /\ pos \in 0 .. VGA_MAX_CHARS
          /\ overrun \subseteq {"put", "erase"} \X Nat /\ raced \in BOOLEAN

(* "If the screen is full, it scrolls before writing": as long as no key   *)
(* has interrupted a call, neither put_char nor move_cursor_back writes    *)
(* past the last cell.                                                     *)
ScrollsBeforeWriting == ~raced => overrun = {}

(* As long as no key has interrupted a call, the cells from the cursor on  *)
(* are blank between calls, so printing never runs into old text.          *)
BlankAhead ==
  ~raced /\ pc = "idle"
    => \A i \in Cell : i >= pos_on_screen => video[i] = EMPTY

(* However the echo interrupts put_char between its test and its store,   *)
(* the cursor gets at most one row past the screen, put_char writes at     *)
(* most one cell past it (the handler scrolls itself once the cursor is    *)
(* past the end), and move_cursor_back, which looks at every cell below    *)
(* the cursor, blanks none beyond that row.                                *)
OverrunBounded ==
  /\ pos_on_screen <= VGA_MAX_CHARS + VGA_WIDTH
  /\ overrun \subseteq ({"put"} \X {VGA_MAX_CHARS}) \cup ({"erase"} \X Past)
=============================================================================
