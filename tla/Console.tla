------------------------------ MODULE Console ------------------------------
(* The keyboard interrupt handler (drivers/keyboard.c) and the shell's     *)
(* reader (shell.c) on either side of the ring buffer.  The handler runs   *)
(* with interrupts disabled, so it is one step; the shell runs with them   *)
(* enabled, so a key may arrive between any two of its accesses.           *)
EXTENDS Integers, Sequences

CONSTANTS BUFFER_SIZE,       \* 256, the range of the uint8_t indices
          MAX_INPUT_LENGTH,  \* size of the shell's input array
          Keys,              \* keys the user has
          MaxTypeAhead,      \* bound: characters typed and not yet read
          BackspaceInGet     \* whether Backspace may interrupt a read

ASSUME ConsoleAssumption == /\ BUFFER_SIZE \in Nat \ {0}
                            /\ MAX_INPUT_LENGTH \in Nat \ {0}
                            /\ MaxTypeAhead \in 1 .. BUFFER_SIZE
                            /\ BackspaceInGet \in BOOLEAN
                            /\ Keys \subseteq {"a", "b", "q", "Enter", "Ctrl",
                                 "Shift", "CapsLock", "Backspace"}

NUL == "NUL"
NL == "NL"
BS == "BS"
Char == {"a", "A", "b", "B", "q", "Q", NL, NUL, BS}
ExitCommand == <<"q">>   \* the line execute_command takes as "exit"

VARIABLES keyboard_buffer, buffer_head, buffer_tail,
          shift_pressed, caps_lock,
          pc,       \* where the shell is
          loaded,   \* the local c of keyboard_buffer_get
          c,        \* the local c of shell
          input,    \* input[0 .. index - 1]
          typed     \* history: the last character typed

driver == <<keyboard_buffer, buffer_head, shift_pressed, caps_lock>>
vars == <<driver, buffer_tail, pc, loaded, c, input, typed>>

Index == 0 .. BUFFER_SIZE - 1

Init == /\ keyboard_buffer = [i \in Index |-> NUL]
        /\ buffer_head = 0 /\ buffer_tail = 0
        /\ shift_pressed = FALSE /\ caps_lock = FALSE
        /\ pc = "poll"
        /\ loaded = NUL /\ c = NUL
        /\ input = <<>> /\ typed = NUL

is_keyboard_buffer_Empty == buffer_head = buffer_tail
Unread == (buffer_head - buffer_tail) % BUFFER_SIZE

-----------------------------------------------------------------------------
(* scancode_to_ascii: keys without a character in kbd_us give 0.           *)
scancode_to_ascii(key) == CASE key = "Enter" -> NL
                            [] key = "Ctrl" -> NUL
                            [] OTHER -> key

shift_ascii(ch) == CASE ch = "a" -> "A"
                     [] ch = "b" -> "B"
                     [] ch = "q" -> "Q"
                     [] OTHER -> ch

(* Mutant of keyboard_buffer_put: the index moves before the store. *)
PutAfterMove(ch) ==
  /\ keyboard_buffer' = [keyboard_buffer EXCEPT
                           ![(buffer_head + 1) % BUFFER_SIZE] = ch]
  /\ buffer_head' = (buffer_head + 1) % BUFFER_SIZE

(* No test for a full buffer. *)
keyboard_buffer_put(ch) ==
  /\ keyboard_buffer' = [keyboard_buffer EXCEPT ![buffer_head] = ch]
  /\ buffer_head' = (buffer_head + 1) % BUFFER_SIZE

(* handle_scancode for a key that is neither Shift, Caps Lock nor          *)
(* Backspace.                                                              *)
PressChar(key) ==
  LET ascii == scancode_to_ascii(key)
      ch == IF shift_pressed \/ caps_lock THEN shift_ascii(ascii) ELSE ascii
  IN
  /\ key \notin {"Shift", "CapsLock", "Backspace"}
  /\ Unread < MaxTypeAhead
  /\ keyboard_buffer_put(ch)
  /\ typed' = ch
  /\ UNCHANGED <<shift_pressed, caps_lock, buffer_tail, pc, loaded, c, input>>

(* Backspace takes the last unread character back (rm_last_char_buffer).   *)
(* BackspaceInGet = FALSE restricts the user to the moments when the shell *)
(* is not inside keyboard_buffer_get, past its emptiness test.             *)
PressBackspace ==
  /\ ~is_keyboard_buffer_Empty
  /\ pc \in {"load", "advance"} => BackspaceInGet
  /\ buffer_head' = (buffer_head - 1) % BUFFER_SIZE
  /\ UNCHANGED <<keyboard_buffer, shift_pressed, caps_lock, buffer_tail, pc,
                 loaded, c, input, typed>>

PressModifier(key) ==
  /\ \/ key = "Shift" /\ shift_pressed' = TRUE /\ UNCHANGED caps_lock
     \/ key = "CapsLock" /\ caps_lock' = ~caps_lock /\ UNCHANGED shift_pressed
  /\ UNCHANGED <<keyboard_buffer, buffer_head, buffer_tail, pc, loaded, c,
                 input, typed>>

ReleaseShift ==
  /\ shift_pressed' = FALSE
  /\ UNCHANGED <<keyboard_buffer, buffer_head, caps_lock, buffer_tail, pc,
                 loaded, c, input, typed>>

handle_scancode == \E key \in Keys :
                     \/ PressChar(key)
                     \/ key = "Backspace" /\ PressBackspace
                     \/ PressModifier(key)
                     \/ key = "Shift" /\ ReleaseShift

-----------------------------------------------------------------------------
(* keyboard_buffer_get: leave the polling loop, load, advance the tail.    *)
GetPoll == /\ pc = "poll" /\ ~is_keyboard_buffer_Empty
           /\ pc' = "load"
           /\ UNCHANGED <<driver, buffer_tail, loaded, c, input, typed>>

GetLoad == /\ pc = "load"
           /\ loaded' = keyboard_buffer[buffer_tail]
           /\ pc' = "advance"
           /\ UNCHANGED <<driver, buffer_tail, c, input, typed>>

(* Mutant of TailAfterGet: the tail is not moved. *)
TailStuck == buffer_tail

TailAfterGet == (buffer_tail + 1) % BUFFER_SIZE

GetAdvance == /\ pc = "advance"
              /\ buffer_tail' = TailAfterGet
              /\ c' = loaded
              /\ pc' = "handle"
              /\ UNCHANGED <<driver, loaded, input, typed>>

(* Mutant of HasRoom: no place is kept for the terminating NUL. *)
RoomForNoNul == Len(input) < MAX_INPUT_LENGTH

HasRoom == Len(input) < MAX_INPUT_LENGTH - 1

(* The body of the shell's reading loop. *)
ShellHandle ==
  /\ pc = "handle"
  /\ pc' = IF c = NL THEN "execute" ELSE "poll"
  /\ input' = CASE c = NL -> input
                [] c = BS -> IF input = <<>> THEN input
                             ELSE SubSeq(input, 1, Len(input) - 1)
                [] OTHER -> IF HasRoom THEN Append(input, c) ELSE input
  /\ UNCHANGED <<driver, buffer_tail, loaded, c, typed>>

(* execute_command: "exit" halts in an endless loop, every other command   *)
(* prints and returns to the prompt.                                       *)
ShellExecute ==
  /\ pc = "execute"
  /\ pc' = IF input = ExitCommand THEN "halt" ELSE "poll"
  /\ input' = IF input = ExitCommand THEN input ELSE <<>>
  /\ UNCHANGED <<driver, buffer_tail, loaded, c, typed>>

ShellHalted == pc = "halt" /\ UNCHANGED vars

shell == GetPoll \/ GetLoad \/ GetAdvance \/ ShellHandle \/ ShellExecute

Next == handle_scancode \/ shell \/ ShellHalted

Spec == Init /\ [][Next]_vars

(* Between interrupts the processor executes the shell.                    *)
FairSpec == Spec /\ WF_vars(shell)

-----------------------------------------------------------------------------
(* The indices stay inside the buffer and the locals are characters.       *)
TypeOK == /\ keyboard_buffer \in [Index -> Char]
          /\ buffer_head \in Index /\ buffer_tail \in Index
          /\ shift_pressed \in BOOLEAN /\ caps_lock \in BOOLEAN
          /\ pc \in {"poll", "load", "advance", "handle", "execute", "halt"}
          /\ loaded \in Char /\ c \in Char /\ typed \in Char
          /\ input \in Seq(Char)

(* input[index] = '\0' never writes past the array, whatever is typed and  *)
(* whenever the interrupts come.                                           *)
InputFits == Len(input) < MAX_INPUT_LENGTH

(* The ring buffer's contents, oldest first. *)
Pending == [i \in 1 .. Unread |->
              keyboard_buffer[(buffer_tail + i - 1) % BUFFER_SIZE]]

CQ == INSTANCE CharQueue WITH q <- Pending, got <- c

(* The ring buffer read by keyboard_buffer_get ("Read a character from the *)
(* keyboard buffer") and written by the interrupt handler ("Add the        *)
(* character to the buffer") is a queue: no character typed is lost,       *)
(* repeated, reordered or invented.                                        *)
ImplementsCharQueue == CQ!Spec

(* Every character typed is eventually read or taken back, unless the      *)
(* shell has exited: the polling loop and the interrupts never leave the   *)
(* reader waiting on a buffer that is not empty.                           *)
EveryCharIsRead ==
  \A t \in Index :
    (buffer_tail = t /\ ~is_keyboard_buffer_Empty)
      ~> (buffer_tail # t \/ is_keyboard_buffer_Empty \/ pc = "halt")
=============================================================================
