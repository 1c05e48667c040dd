---------------------------- MODULE OutputProofs ----------------------------
(* Proofs about what the kernel prints.  Module Screen: where text goes,   *)
(* for every screen size and every way a key interrupts the shell.  Module *)
(* Text: which text it is, for ints of any width and strings and formats   *)
(* of any length.                                                          *)
EXTENDS Screen, Text, FiniteSetTheorems, SequenceTheorems, WellFoundedInduction,
        TLAPS

-----------------------------------------------------------------------------
(* The cursor of the screen, whoever moves it, is at most at the cell      *)
(* after the last one while the shell may write there or copy it.  If no   *)
(* key came in between it never gets further, and is inside the screen     *)
(* from the write to the store.                                            *)
CursorBound ==
  /\ pos_on_screen \in Nat /\ pos \in 0 .. VGA_MAX_CHARS
  /\ pc \in {"write", "load"} => pos_on_screen <= VGA_MAX_CHARS
  /\ ~raced => pos_on_screen <= VGA_MAX_CHARS
  /\ ~raced /\ pc \in {"write", "load"} => pos_on_screen < VGA_MAX_CHARS
  /\ ~raced /\ pc = "store" => pos < VGA_MAX_CHARS

(* The inductive invariant of Screen. *)
IInv == CursorBound /\ OverrunBounded /\ ScrollsBeforeWriting

(* The cells from p on are blank. *)
BlankFrom(p) == \A i \in Cell : i >= p => video[i] = EMPTY

(* What makes BlankAhead inductive: where the shell is inside a call, the  *)
(* cells are blank from where its cursor will be when the call returns.    *)
BlankInside ==
  ~raced => /\ pc \in {"idle", "check", "command", "write"}
                 => BlankFrom(pos_on_screen)
            /\ pc \in {"scrollpos", "commandpos"} => BlankFrom(LastRow)
            /\ pc = "load" => BlankFrom(After(pos_on_screen, ch))
            /\ pc = "store" => BlankFrom(After(pos, ch))
            /\ pc = "clearpos" => BlankFrom(0)

(* The second inductive invariant of Screen. *)
BlankInv == /\ video \in [Cell \cup Past -> Letter] /\ ch \in {ShellChar, NL}
            /\ BlankInside

(* Multiplication by a positive width keeps the order. *)
LEMMA Monotonic ==
  ASSUME NEW a \in Nat, NEW b \in Nat, NEW w \in Nat \ {0}
  PROVE  /\ a <= b => a * w <= b * w
         /\ a < b => a * w < b * w
OBVIOUS

(* The screen has a cell, and its last row starts inside it. *)
LEMMA LastRowInside ==
  /\ VGA_MAX_CHARS \in Nat /\ VGA_MAX_CHARS > 0
  /\ LastRow \in 0 .. VGA_MAX_CHARS - 1
<1>1. VGA_WIDTH \in Nat \ {0} /\ VGA_HEIGHT \in Nat \ {0}
  BY ScreenAssumption
<1>2. VGA_MAX_CHARS = VGA_HEIGHT * VGA_WIDTH /\ VGA_MAX_CHARS \in Nat
  BY <1>1 DEF VGA_MAX_CHARS
<1>3. LastRow \in Nat
  BY <1>1 DEF LastRow
<1>4. (VGA_HEIGHT - 1) * VGA_WIDTH < VGA_HEIGHT * VGA_WIDTH
  BY <1>1, Monotonic
<1> QED
  BY <1>2, <1>3, <1>4 DEF LastRow

(* From inside the screen, a character or a newline moves the cursor at    *)
(* most to the cell after the last one.                                    *)
LEMMA AfterInside ==
  ASSUME NEW p \in 0 .. VGA_MAX_CHARS - 1, NEW c
  PROVE  After(p, c) \in 0 .. VGA_MAX_CHARS
<1> DEFINE row == p \div VGA_WIDTH
<1>1. VGA_WIDTH \in Nat \ {0} /\ VGA_HEIGHT \in Nat \ {0} /\ p \in Nat
  BY ScreenAssumption, LastRowInside
<1>2. row \in Nat /\ row * VGA_WIDTH <= p
  BY <1>1
<1>3. VGA_MAX_CHARS = VGA_HEIGHT * VGA_WIDTH /\ VGA_MAX_CHARS \in Nat
  BY <1>1 DEF VGA_MAX_CHARS
<1> HIDE DEF row
<1>4. row < VGA_HEIGHT
  <2>1. SUFFICES ASSUME VGA_HEIGHT <= row PROVE FALSE
    BY <1>1, <1>2
  <2>2. VGA_HEIGHT * VGA_WIDTH <= row * VGA_WIDTH
    BY <1>1, <1>2, <2>1, Monotonic
  <2>3. row * VGA_WIDTH \in Nat
    BY <1>1, <1>2
  <2> QED
    BY <1>1, <1>2, <1>3, <2>2, <2>3
<1>5. (row + 1) * VGA_WIDTH <= VGA_HEIGHT * VGA_WIDTH
  BY <1>1, <1>2, <1>4, Monotonic
<1>6. (row + 1) * VGA_WIDTH \in Nat
  BY <1>1, <1>2
<1>7. CASE c = NL
  BY <1>3, <1>5, <1>6, <1>7 DEF After, row
<1>8. CASE c # NL
  BY <1>3, <1>8 DEF After
<1> QED
  BY <1>7, <1>8

(* From at most there, it gets at most one row past the screen. *)
LEMMA AfterRow ==
  ASSUME NEW p \in 0 .. VGA_MAX_CHARS, NEW c
  PROVE  After(p, c) \in 0 .. VGA_MAX_CHARS + VGA_WIDTH
<1> DEFINE row == p \div VGA_WIDTH
<1>1. VGA_WIDTH \in Nat \ {0} /\ VGA_MAX_CHARS \in Nat /\ p \in Nat
  BY ScreenAssumption, LastRowInside
<1>2. row \in Nat /\ row * VGA_WIDTH <= p
  BY <1>1
<1>3. (row + 1) * VGA_WIDTH = row * VGA_WIDTH + VGA_WIDTH
  BY <1>1, <1>2
<1>4. row * VGA_WIDTH \in Nat
  BY <1>1, <1>2
<1> HIDE DEF row
<1>5. CASE c = NL
  BY <1>1, <1>2, <1>3, <1>4, <1>5 DEF After, row
<1>6. CASE c # NL
  BY <1>1, <1>6 DEF After
<1> QED
  BY <1>5, <1>6

(* A write inside the screen adds nothing to overrun. *)
LEMMA InsideAddsNothing ==
  ASSUME NEW how, NEW i \in Cell
  PROVE  Outside(how, i) = {}
BY DEF Outside

(* The initial states satisfy the invariant. *)
LEMMA InitIInv == Init => IInv
  BY LastRowInside, ScreenAssumption
     DEF Init, IInv, CursorBound, OverrunBounded, ScrollsBeforeWriting

(* The echo of a character writes inside the screen: it scrolls when the   *)
(* screen is full, also inside a call of the shell.                        *)
LEMMA EchoPutKeeps ==
  ASSUME IInv, NEW c \in {EchoChar, NL, EMPTY}, EchoPut(c)
  PROVE  IInv'
<1> DEFINE p == IF Full THEN LastRow ELSE pos_on_screen
<1>1. /\ UNCHANGED <<pc, pos>> /\ raced' = (raced \/ pc # "idle")
      /\ overrun' = overrun \/ overrun' = overrun \cup Outside("put", p)
      /\ pos_on_screen' = After(p, c)
  BY DEF EchoPut, Interrupt, shell
<1>2. p \in Cell
  BY LastRowInside DEF IInv, CursorBound, Full, Cell
<1> HIDE DEF p
<1>3. VGA_MAX_CHARS \in Nat /\ VGA_WIDTH \in Nat
  BY LastRowInside, ScreenAssumption
<1>4. pos_on_screen' \in 0 .. VGA_MAX_CHARS
  BY <1>1, <1>2, AfterInside DEF Cell
<1>5. overrun' = overrun
  BY <1>1, <1>2, InsideAddsNothing
<1>6. ~raced' => ~raced /\ pc' = "idle"
  BY <1>1, Zenon
<1>7. CursorBound'
  BY <1>1, <1>3, <1>4, <1>6 DEF IInv, CursorBound
<1>8. OverrunBounded' /\ ScrollsBeforeWriting'
  BY <1>3, <1>4, <1>5, <1>6 DEF IInv, OverrunBounded, ScrollsBeforeWriting
<1> QED
  BY <1>7, <1>8 DEF IInv

(* move_cursor_back only looks at cells before the cursor. *)
LEMMA EchoBackspaceKeeps ==
  ASSUME IInv, EchoBackspace
  PROVE  IInv'
<1>1. /\ UNCHANGED <<pc, pos>> /\ raced' = (raced \/ pc # "idle")
  BY DEF EchoBackspace, Interrupt, shell
<1>2. VGA_MAX_CHARS \in Nat /\ VGA_WIDTH \in Nat /\ pos_on_screen \in Nat
  BY LastRowInside, ScreenAssumption DEF IInv, CursorBound
<1>3. ~raced' => ~raced /\ pc' = "idle"
  BY <1>1, Zenon
<1>4. CASE pos_on_screen' = 0 /\ overrun' = overrun
  <2>1. CursorBound'
    BY <1>1, <1>2, <1>3, <1>4 DEF IInv, CursorBound
  <2>2. OverrunBounded' /\ ScrollsBeforeWriting'
    BY <1>2, <1>3, <1>4 DEF IInv, OverrunBounded, ScrollsBeforeWriting
  <2> QED
    BY <2>1, <2>2 DEF IInv
<1>5. ASSUME NEW i \in Written, pos_on_screen' = i,
             overrun' = overrun \cup Outside("erase", i)
      PROVE  IInv'
  <2>1. i \in Cell \cup Past /\ i \in Nat /\ i < pos_on_screen
    BY <1>2 DEF Written, Cell, Past
  <2>2. CursorBound'
    BY <1>1, <1>2, <1>3, <1>5, <2>1 DEF IInv, CursorBound
  <2>3. i \in Cell => overrun' = overrun
    BY <1>5, InsideAddsNothing
  <2>4. OverrunBounded'
    <3>1. overrun' \subseteq ({"put"} \X {VGA_MAX_CHARS}) \cup ({"erase"} \X Past)
      BY <1>5, <2>1 DEF IInv, OverrunBounded, Outside
    <3>2. pos_on_screen' <= VGA_MAX_CHARS + VGA_WIDTH
      BY <1>2, <1>5, <2>1 DEF IInv, OverrunBounded
    <3> QED
      BY <3>1, <3>2 DEF OverrunBounded, Past, VGA_MAX_CHARS
  <2>5. ScrollsBeforeWriting'
    <3>1. ~raced => i \in Cell
      BY <1>2, <2>1 DEF IInv, CursorBound, Cell
    <3> QED
      BY <1>3, <2>3, <3>1 DEF IInv, ScrollsBeforeWriting
  <2> QED
    BY <2>2, <2>4, <2>5 DEF IInv
<1> QED
  BY <1>4, <1>5 DEF EchoBackspace

(* Every step keeps the invariant. *)
LEMMA NextIInv == IInv /\ [Next]_vars => IInv'
<1> SUFFICES ASSUME IInv, [Next]_vars PROVE IInv'
  OBVIOUS
<1> USE DEF IInv
<1>0. VGA_MAX_CHARS \in Nat /\ VGA_WIDTH \in Nat
  BY LastRowInside, ScreenAssumption
<1>1. CASE (\E c \in {EchoChar, NL, EMPTY} : EchoPut(c)) \/ EchoBackspace
  BY <1>1, EchoPutKeeps, EchoBackspaceKeeps
<1>2. CASE PutWrite
  <2>1. /\ UNCHANGED <<pos_on_screen, pos, raced>> /\ pc = "write" /\ pc' = "load"
        /\ \/ overrun' = overrun
           \/ overrun' = overrun \cup Outside("put", pos_on_screen)
    BY <1>2 DEF PutWrite
  <2>2. CursorBound'
    BY <2>1 DEF CursorBound
  <2>3. OverrunBounded'
    <3>1. pos_on_screen \in Nat /\ pos_on_screen <= VGA_MAX_CHARS
      BY <2>1 DEF CursorBound
    <3>2. pos_on_screen \in Cell \/ pos_on_screen = VGA_MAX_CHARS
      BY <3>1, <1>0 DEF Cell
    <3>3. Outside("put", pos_on_screen) \subseteq {"put"} \X {VGA_MAX_CHARS}
      BY <3>2 DEF Outside
    <3>4. overrun' \subseteq ({"put"} \X {VGA_MAX_CHARS}) \cup ({"erase"} \X Past)
      BY <2>1, <3>3 DEF OverrunBounded
    <3> QED
      BY <2>1, <3>4 DEF OverrunBounded, Past, VGA_MAX_CHARS
  <2>4. ScrollsBeforeWriting'
    <3>1. ~raced => pos_on_screen \in Cell
      BY <2>1, <1>0 DEF CursorBound, Cell
    <3> QED
      BY <2>1, <3>1, InsideAddsNothing DEF ScrollsBeforeWriting
  <2> QED
    BY <2>2, <2>3, <2>4
<1>3. ASSUME UNCHANGED <<overrun, raced>>, CursorBound',
             pos_on_screen' <= VGA_MAX_CHARS + VGA_WIDTH
      PROVE  IInv'
  BY <1>3 DEF OverrunBounded, ScrollsBeforeWriting, Past, VGA_MAX_CHARS
<1>4. CASE PutStore
  <2>1. pos_on_screen' \in 0 .. VGA_MAX_CHARS + VGA_WIDTH
    BY <1>4, AfterRow DEF PutStore, CursorBound
  <2>2. ~raced => pos_on_screen' \in 0 .. VGA_MAX_CHARS
    <3>1. SUFFICES ASSUME ~raced PROVE After(pos, ch) \in 0 .. VGA_MAX_CHARS
      BY <1>4 DEF PutStore
    <3>2. pos \in 0 .. VGA_MAX_CHARS - 1
      BY <1>0, <1>4, <3>1 DEF PutStore, CursorBound
    <3> QED
      BY <3>2, AfterInside
  <2>3. CursorBound'
    BY <1>0, <1>4, <2>1, <2>2 DEF PutStore, CursorBound
  <2> QED
    BY <1>0, <1>3, <1>4, <2>1, <2>3 DEF PutStore
<1>5. CASE PutCheck
  <2>1. CursorBound' /\ pos_on_screen' = pos_on_screen
    BY <1>0, <1>5 DEF PutCheck, CursorBound, Full
  <2> QED
    BY <1>3, <1>5, <2>1 DEF PutCheck, OverrunBounded
<1>6. CASE ScrollPos
  <2>1. CursorBound' /\ pos_on_screen' = LastRow
    BY <1>6, LastRowInside DEF ScrollPos, CursorBound
  <2> QED
    BY <1>0, <1>3, <1>6, <2>1, LastRowInside DEF ScrollPos
<1>7. CASE PutLoad
  <2>1. CursorBound' /\ pos_on_screen' = pos_on_screen
    BY <1>0, <1>7 DEF PutLoad, CursorBound
  <2> QED
    BY <1>3, <1>7, <2>1 DEF PutLoad, OverrunBounded
<1>8. CASE PutCall \/ ScrollRows \/ ScrollCommand \/ ClearCells \/ ClearRow
  <2>1. /\ UNCHANGED <<pos_on_screen, pos, overrun, raced>>
        /\ pc' \notin {"write", "load", "store"}
    BY <1>8 DEF PutCall, ScrollRows, ScrollCommand, ClearCells, ClearRow
  <2>2. CursorBound'
    BY <2>1 DEF CursorBound
  <2> QED
    BY <1>3, <2>1, <2>2 DEF OverrunBounded
<1>9. CASE ClearPos
  <2>1. CursorBound' /\ pos_on_screen' = 0
    BY <1>0, <1>9 DEF ClearPos, CursorBound
  <2> QED
    BY <1>0, <1>3, <1>9, <2>1 DEF ClearPos
<1>10. CASE UNCHANGED vars
  <2>1. CursorBound' /\ UNCHANGED <<pos_on_screen, overrun, raced>>
    BY <1>10 DEF vars, shell, CursorBound
  <2> QED
    BY <1>3, <2>1 DEF OverrunBounded
<1> QED
  BY <1>1, <1>2, <1>4, <1>5, <1>6, <1>7, <1>8, <1>9, <1>10 DEF Next

(* What the cursor and the writes past the screen keep to: see IInv.       *)
THEOREM InductiveInvariant == Spec => []IInv
<1>1. IInv /\ [Next]_vars => IInv'
  BY NextIInv
<1> QED
  BY <1>1, InitIInv, PTL DEF Spec

(* Whenever keys interrupt put_char, it writes only the one cell after the *)
(* screen past its end, and Backspace blanks no cell beyond the row there. *)
THEOREM OverrunIsOneRow == Spec => []OverrunBounded
<1>1. IInv => OverrunBounded
  BY DEF IInv
<1> QED
  BY <1>1, InductiveInvariant, PTL

(* As long as no key interrupts a call, put_char scrolls before it would   *)
(* write past the screen.                                                  *)
THEOREM NoOverrunUnlessRaced == Spec => []ScrollsBeforeWriting
<1>1. IInv => ScrollsBeforeWriting
  BY DEF IInv
<1> QED
  BY <1>1, InductiveInvariant, PTL

-----------------------------------------------------------------------------
(* The cursor moves forward. *)
LEMMA AfterForward ==
  ASSUME NEW p \in Nat, NEW c
  PROVE  After(p, c) \in Nat /\ After(p, c) > p
<1> DEFINE row == p \div VGA_WIDTH
<1>1. VGA_WIDTH \in Nat \ {0} /\ row \in Nat
  BY ScreenAssumption
<1>2. p < row * VGA_WIDTH + VGA_WIDTH
  BY <1>1
<1>3. /\ (row + 1) * VGA_WIDTH = row * VGA_WIDTH + VGA_WIDTH
      /\ (row + 1) * VGA_WIDTH \in Nat
  BY <1>1
<1> HIDE DEF row
<1>4. CASE c = NL
  BY <1>2, <1>3, <1>4 DEF After, row
<1>5. CASE c # NL
  BY <1>5 DEF After
<1> QED
  BY <1>4, <1>5

(* scroll_screen keeps the type of the video memory and blanks the last    *)
(* row.                                                                    *)
LEMMA ScrollBlanks ==
  ASSUME video \in [Cell \cup Past -> Letter]
  PROVE  /\ Scrolled \in [Cell \cup Past -> Letter]
         /\ \A i \in Cell : i >= LastRow => Scrolled[i] = EMPTY
<1>1. VGA_MAX_CHARS \in Nat /\ VGA_WIDTH \in Nat \ {0} /\ LastRow \in Nat
  BY ScreenAssumption, LastRowInside
<1>2. LastRow + VGA_WIDTH = VGA_MAX_CHARS
  BY ScreenAssumption DEF LastRow, VGA_MAX_CHARS
<1>3. EMPTY \in Letter
  BY DEF Letter
<1>4. Scrolled \in [Cell \cup Past -> Letter]
  BY <1>3 DEF Scrolled
<1>5. ASSUME NEW i \in Cell, i >= LastRow PROVE Scrolled[i] = EMPTY
  <2>1. i \notin Past /\ i + VGA_WIDTH \notin Cell
    BY <1>1, <1>2, <1>5 DEF Cell, Past
  <2> QED
    BY <2>1 DEF Scrolled
<1> QED
  BY <1>4, <1>5

(* The initial states satisfy the invariant. *)
LEMMA InitBlank == Init => BlankInv
<1> SUFFICES ASSUME Init PROVE BlankInv
  OBVIOUS
<1>1. PICK old \in {EMPTY, OldChar} :
        video = [i \in Cell \cup Past |-> IF i \in Cell THEN EMPTY ELSE old]
  BY DEF Init
<1>2. video \in [Cell \cup Past -> Letter] /\ \A i \in Cell : video[i] = EMPTY
  BY <1>1 DEF Letter
<1> QED
  BY <1>2 DEF Init, BlankInv, BlankInside, BlankFrom

(* An echo between calls writes at the cursor, or in the blank last row,   *)
(* and moves past it.                                                      *)
LEMMA EchoPutBlank ==
  ASSUME IInv, BlankInv, NEW c \in {EchoChar, NL, EMPTY}, EchoPut(c)
  PROVE  BlankInv'
<1> DEFINE p == IF Full THEN LastRow ELSE pos_on_screen
           v == IF Full THEN Scrolled ELSE video
<1>1. /\ raced' = (raced \/ pc # "idle") /\ UNCHANGED <<pc, ch, pos>>
      /\ video' = IF c = NL THEN v ELSE [v EXCEPT ![p] = c]
      /\ pos_on_screen' = After(p, c)
  BY DEF EchoPut, Interrupt, shell
<1>2. p \in Nat /\ After(p, c) \in Nat /\ After(p, c) > p
  BY LastRowInside, AfterForward DEF IInv, CursorBound
<1>3. v \in [Cell \cup Past -> Letter]
  BY ScrollBlanks DEF BlankInv
<1>4. ~raced /\ pc = "idle" => \A i \in Cell : i >= p => v[i] = EMPTY
  <2>1. CASE Full
    BY <2>1, ScrollBlanks DEF BlankInv
  <2>2. CASE ~Full
    BY <2>2 DEF BlankInv, BlankInside, BlankFrom
  <2> QED
    BY <2>1, <2>2
<1> HIDE DEF p, v
<1>5. video' \in [Cell \cup Past -> Letter]
  BY <1>1, <1>3 DEF Letter, NL
<1>6. ASSUME ~raced, pc = "idle" PROVE BlankFrom(pos_on_screen)'
  <2> SUFFICES ASSUME NEW i \in Cell, i >= After(p, c)
               PROVE  video'[i] = EMPTY
    BY <1>1 DEF BlankFrom, Cell, VGA_MAX_CHARS
  <2>1. i \in Nat /\ i > p
    BY <1>2, LastRowInside DEF Cell
  <2>2. v[i] = EMPTY
    BY <1>2, <1>4, <1>6, <2>1
  <2> QED
    BY <1>1, <1>2, <1>3, <2>1, <2>2
<1>7. BlankInside'
  <2>1. ~raced' => ~raced /\ pc = "idle" /\ pc' = "idle"
    BY <1>1, Zenon
  <2> QED
    BY <1>6, <2>1 DEF BlankInside
<1> QED
  BY <1>1, <1>5, <1>7 DEF BlankInv

(* A Backspace between calls leaves the cursor on the cell it has blanked, *)
(* with nothing written between it and where the cursor was.               *)
LEMMA EchoBackspaceBlank ==
  ASSUME IInv, BlankInv, EchoBackspace
  PROVE  BlankInv'
<1>1. raced' = (raced \/ pc # "idle") /\ UNCHANGED <<pc, ch, pos>>
  BY DEF EchoBackspace, Interrupt, shell
<1>2. pos_on_screen \in Nat /\ VGA_MAX_CHARS \in Nat
  BY LastRowInside DEF IInv, CursorBound
<1>3. /\ video' \in [Cell \cup Past -> Letter]
      /\ ~raced /\ pc = "idle" => BlankFrom(pos_on_screen)'
  <2>1. CASE Written = {} /\ pos_on_screen' = 0 /\ UNCHANGED video
    <3>1. \A i \in Cell : i < pos_on_screen => video[i] = EMPTY
      BY <2>1 DEF Written
    <3>2. \A i \in Cell : i < pos_on_screen \/ i >= pos_on_screen
      BY <1>2 DEF Cell
    <3> QED
      BY <2>1, <3>1, <3>2 DEF BlankInv, BlankInside, BlankFrom
  <2>2. ASSUME NEW j \in Written, LastWritten(j), pos_on_screen' = j,
               video' = [video EXCEPT ![j] = EMPTY]
        PROVE  /\ video' \in [Cell \cup Past -> Letter]
               /\ ~raced /\ pc = "idle" => BlankFrom(pos_on_screen)'
    <3>1. j \in Int
      BY <1>2, ScreenAssumption DEF Written, Cell, Past
    <3>2. video' \in [Cell \cup Past -> Letter]
      BY <2>2 DEF BlankInv, Letter
    <3>3. ASSUME ~raced, pc = "idle", NEW i \in Cell, i >= j
          PROVE  video'[i] = EMPTY
      <4>0. i \in Int
        BY <1>2 DEF Cell
      <4>1. CASE i = j
        BY <2>2, <4>1 DEF BlankInv
      <4>2. CASE i # j /\ i < pos_on_screen
        <5>1. i \notin Written
          BY <2>2, <3>1, <3>3, <4>0, <4>2 DEF LastWritten
        <5>2. video[i] = EMPTY
          BY <4>2, <5>1 DEF Written
        <5> QED
          BY <2>2, <4>2, <5>2 DEF BlankInv
      <4>3. CASE i # j /\ i >= pos_on_screen
        <5>1. video[i] = EMPTY
          BY <3>3, <4>3 DEF BlankInv, BlankInside, BlankFrom
        <5> QED
          BY <2>2, <4>3, <5>1 DEF BlankInv
      <4> QED
        BY <1>2, <4>0, <4>1, <4>2, <4>3
    <3> QED
      BY <2>2, <3>2, <3>3 DEF BlankFrom, Cell, VGA_MAX_CHARS
  <2> QED
    BY <2>1, <2>2 DEF EchoBackspace
<1>4. BlankInside'
  <2>1. ~raced' => ~raced /\ pc = "idle" /\ pc' = "idle"
    BY <1>1, Zenon
  <2> QED
    BY <1>3, <2>1 DEF BlankInside
<1> QED
  BY <1>1, <1>3, <1>4 DEF BlankInv

(* Every step keeps the invariant. *)
LEMMA NextBlank == IInv /\ BlankInv /\ [Next]_vars => BlankInv'
<1> SUFFICES ASSUME IInv, BlankInv, [Next]_vars PROVE BlankInv'
  OBVIOUS
<1> USE DEF BlankInv
<1>0. /\ pos_on_screen \in Nat /\ pos \in Nat
      /\ VGA_MAX_CHARS \in Nat /\ LastRow \in Nat
  BY LastRowInside DEF IInv, CursorBound
<1>1. CASE (\E c \in {EchoChar, NL, EMPTY} : EchoPut(c)) \/ EchoBackspace
  BY <1>1, EchoPutBlank, EchoBackspaceBlank
<1>2. ASSUME UNCHANGED <<video, raced>>, ch' \in {ShellChar, NL}, BlankInside'
      PROVE  BlankInv'
  BY <1>2
<1>3. CASE PutCall \/ ScrollCommand
  BY <1>2, <1>3 DEF PutCall, ScrollCommand, BlankInside, BlankFrom
<1>4. CASE PutCheck
  BY <1>2, <1>4 DEF PutCheck, BlankInside, BlankFrom
<1>5. CASE ScrollRows
  <2>1. video' = Scrolled /\ pc' \in {"scrollpos", "commandpos"}
    BY <1>5 DEF ScrollRows
  <2>2. BlankFrom(LastRow)'
    BY <2>1, ScrollBlanks DEF BlankFrom, Cell, VGA_MAX_CHARS, LastRow
  <2> QED
    BY <1>5, <2>1, <2>2, ScrollBlanks DEF ScrollRows, BlankInside
<1>6. CASE ScrollPos
  BY <1>2, <1>6 DEF ScrollPos, BlankInside, BlankFrom
<1>7. CASE PutWrite
  <2> DEFINE next == After(pos_on_screen, ch)
  <2>1. next \in Nat /\ next > pos_on_screen
    BY <1>0, AfterForward
  <2>2. /\ video' = video \/ video' = [video EXCEPT ![pos_on_screen] = ch]
        /\ ch # NL \/ video' = video
        /\ pc = "write" /\ pc' = "load" /\ UNCHANGED <<ch, pos_on_screen, raced>>
    BY <1>7 DEF PutWrite
  <2> HIDE DEF next
  <2>3. video' \in [Cell \cup Past -> Letter]
    BY <2>2 DEF Letter
  <2>4. ASSUME ~raced, NEW i \in Cell, i >= next PROVE video'[i] = EMPTY
    <3>1. i \in Nat /\ i > pos_on_screen
      BY <1>0, <2>1, <2>4 DEF Cell
    <3>2. video[i] = EMPTY
      BY <1>0, <2>2, <2>4, <3>1 DEF BlankInside, BlankFrom
    <3> QED
      BY <1>0, <2>2, <3>1, <3>2
  <2>5. ~raced => BlankFrom(After(pos_on_screen, ch))'
    BY <2>2, <2>4 DEF BlankFrom, Cell, VGA_MAX_CHARS, next, After
  <2> QED
    BY <2>2, <2>3, <2>5 DEF BlankInside
<1>8. CASE PutLoad
  BY <1>2, <1>8 DEF PutLoad, BlankInside, BlankFrom
<1>9. CASE PutStore
  BY <1>2, <1>9 DEF PutStore, BlankInside, BlankFrom
<1>10. CASE ClearCells
  <2>1. /\ video' \in [Cell \cup Past -> Letter]
        /\ \A i \in Cell : video'[i] = EMPTY
    BY <1>10 DEF ClearCells, Letter
  <2> QED
    BY <1>10, <2>1 DEF ClearCells, BlankInside, BlankFrom, Cell, VGA_MAX_CHARS
<1>11. CASE ClearPos
  BY <1>2, <1>11 DEF ClearPos, BlankInside, BlankFrom
<1>12. CASE ClearRow
  <2>1. /\ video' \in [Cell \cup Past -> Letter]
        /\ \A i \in Cell : video[i] = EMPTY => video'[i] = EMPTY
    BY <1>12 DEF ClearRow, Letter
  <2> QED
    BY <1>12, <2>1 DEF ClearRow, BlankInside, BlankFrom, Cell, VGA_MAX_CHARS
<1>13. CASE UNCHANGED vars
  BY <1>2, <1>13 DEF vars, shell, BlankInside, BlankFrom
<1> QED
  BY <1>1, <1>3, <1>4, <1>5, <1>6, <1>7, <1>8, <1>9, <1>10, <1>11, <1>12, <1>13
     DEF Next

(* As long as no key interrupts a call, nothing is ever printed into old   *)
(* text, through every mix of characters, newlines, scrolls, clears and    *)
(* Backspaces, on a screen of any size.                                    *)
THEOREM NeverIntoOldText == Spec => []BlankAhead
<1>1. IInv /\ BlankInv /\ [Next]_vars => BlankInv'
  BY NextBlank
<1>2. BlankInv => BlankAhead
  BY DEF BlankInv, BlankInside, BlankAhead, BlankFrom
<1> QED
  BY <1>1, <1>2, InitBlank, InductiveInvariant, PTL DEF Spec

-----------------------------------------------------------------------------
(* Numbers, formats and strings.  A number, a format or a string has any   *)
(* length, so the proofs are inductions: the least counterexample of a set *)
(* of naturals gives UpTo, and UpTo the functions that recursive           *)
(* definitions name.                                                       *)

(* A non-empty set of naturals has a least element. *)
LEMMA LeastNatural ==
  ASSUME NEW S \in SUBSET Nat, S # {}
  PROVE  \E m \in S : \A k \in S : m <= k
<1> DEFINE R == OpToRel(<, Nat)
<1>1. IsWellFoundedOn(R, Nat)
  BY NatLessThanWellFounded
<1> HIDE DEF R
<1>2. PICK m \in S : \A k \in S : <<k, m>> \notin R
  BY <1>1, WFMin
<1>3. ASSUME NEW k \in S, ~(m <= k) PROVE FALSE
  <2>1. <<k, m>> \in Nat \X Nat /\ k < m
    BY <1>3
  <2>2. <<k, m>>[1] < <<k, m>>[2]
    BY <2>1
  <2>3. <<k, m>> \in R
    BY <2>1, <2>2 DEF R, OpToRel
  <2> QED
    BY <1>2, <2>3
<1> QED
  BY <1>3

(* Induction up to n for a set of numbers. *)
LEMMA UpTo ==
  ASSUME NEW n \in Nat, NEW P, 0 \in P,
         \A i \in 1 .. n : i - 1 \in P => i \in P
  PROVE  \A i \in 0 .. n : i \in P
<1> SUFFICES ASSUME NEW j \in 0 .. n, j \notin P PROVE FALSE
  OBVIOUS
<1> DEFINE Bad == {i \in 0 .. n : i \notin P}
<1>1. PICK m \in Bad : \A k \in Bad : m <= k
  <2>1. Bad \in SUBSET Nat /\ Bad # {}
    OBVIOUS
  <2> HIDE DEF Bad
  <2> QED
    BY <2>1, LeastNatural
<1>2. m \in 1 .. n /\ m \notin P
  BY <1>1
<1>3. m - 1 \in 0 .. n /\ m - 1 \notin Bad
  BY <1>1, <1>2
<1> QED
  BY <1>2, <1>3

(* g is the function on 0 .. n with values in S that starts with base and  *)
(* goes on with step.                                                      *)
Follows(g, S, n, base, step) ==
  /\ g \in [0 .. n -> S]
  /\ g[0] = base /\ \A i \in 1 .. n : g[i] = step[<<g[i - 1], i>>]

(* Such a function exists. *)
LEMMA Recursion ==
  ASSUME NEW S, NEW n \in Nat, NEW base \in S, NEW step \in [S \X (1 .. n) -> S]
  PROVE  \E g : Follows(g, S, n, base, step)
<1> DEFINE Upto(k, g) == g[0] = base /\ \A i \in 1 .. k : g[i] = step[<<g[i - 1], i>>]
           P == {k \in 0 .. n : \E g \in [0 .. k -> S] : Upto(k, g)}
<1>1. 0 \in P
  <2> DEFINE g == [i \in 0 .. 0 |-> base]
  <2>1. g \in [0 .. 0 -> S] /\ Upto(0, g)
    OBVIOUS
  <2>2. 0 \in 0 .. n
    OBVIOUS
  <2> HIDE DEF g, Upto
  <2> QED
    BY <2>1, <2>2
<1>2. ASSUME NEW k \in 1 .. n, k - 1 \in P PROVE k \in P
  <2>1. PICK g \in [0 .. k - 1 -> S] : Upto(k - 1, g)
    BY <1>2
  <2> DEFINE h == [i \in 0 .. k |-> IF i = k THEN step[<<g[k - 1], k>>] ELSE g[i]]
  <2>2. step[<<g[k - 1], k>>] \in S
    BY <2>1
  <2>3. h \in [0 .. k -> S]
    BY <2>1, <2>2
  <2>4. Upto(k, h)
    <3>1. h[0] = base
      BY <2>1
    <3>2. ASSUME NEW i \in 1 .. k PROVE h[i] = step[<<h[i - 1], i>>]
      <4>1. i - 1 \in 0 .. k /\ i - 1 # k /\ h[i - 1] = g[i - 1]
        OBVIOUS
      <4>2. CASE i = k
        BY <4>1, <4>2
      <4>3. CASE i # k
        <5>1. h[i] = g[i] /\ i \in 1 .. k - 1
          BY <4>3
        <5> QED
          BY <2>1, <4>1, <5>1
      <4> QED
        BY <4>2, <4>3
    <3> QED
      BY <3>1, <3>2
  <2>5. k \in 0 .. n
    OBVIOUS
  <2> HIDE DEF h, Upto
  <2> QED
    BY <2>3, <2>4, <2>5
<1>3. n \in P
  <2> HIDE DEF P
  <2>1. \A i \in 0 .. n : i \in P
    BY <1>1, <1>2, UpTo
  <2> QED
    BY <2>1
<1> QED
  BY <1>3 DEF Follows

(* The recursive functions of the model are what their definitions say. *)
LEMMA HornerIs ==
  ASSUME NEW base \in Int, NEW digits \in Seq(Int)
  PROVE  LET v == Horner(base, digits) n == Len(digits) IN
         /\ v \in [0 .. n -> Int] /\ v[0] = 0
         /\ \A i \in 1 .. n : v[i] = v[i - 1] * base + digits[i]
<1> DEFINE n == Len(digits)
           step == [p \in Int \X (1 .. n) |-> p[1] * base + digits[p[2]]]
           v == Horner(base, digits)
<1>0. n \in Nat
  OBVIOUS
<1>1. n \in Nat /\ \A i \in 1 .. n : digits[i] \in Int
  OBVIOUS
<1>2. step \in [Int \X (1 .. n) -> Int]
  BY <1>1
<1>a. PICK g : Follows(g, Int, n, 0, step)
  <2> HIDE DEF step, n
  <2>1. 0 \in Int
    OBVIOUS
  <2> QED
    BY <1>0, <1>2, <2>1, Recursion
<1>3. /\ g \in [0 .. n -> Int] /\ g[0] = 0
      /\ \A i \in 1 .. n : g[i] = step[<<g[i - 1], i>>]
  BY <1>a DEF Follows
<1>4. ASSUME NEW i \in 1 .. n PROVE g[i] = g[i - 1] * base + digits[i]
  <2>1. i - 1 \in 0 .. n
    BY <1>1
  <2>2. <<g[i - 1], i>> \in Int \X (1 .. n)
    BY <1>3, <2>1
  <2> QED
    BY <1>3, <2>2
<1>5. g = [i \in 0 .. n |-> IF i = 0 THEN 0 ELSE g[i - 1] * base + digits[i]]
  BY <1>1, <1>3, <1>4
<1>6. v = [i \in 0 .. n |-> IF i = 0 THEN 0 ELSE v[i - 1] * base + digits[i]]
  BY <1>5 DEF Horner
<1> HIDE DEF v
<1>7. v[0] = 0 /\ \A i \in 1 .. n : v[i] = v[i - 1] * base + digits[i]
  BY <1>1, <1>6, SMTT(30)
<1>8. \A i \in 0 .. n : v[i] \in Int
  <2> DEFINE P == {i \in 0 .. n : v[i] \in Int}
  <2>1. 0 \in P
    BY <1>1, <1>7
  <2>2. ASSUME NEW i \in 1 .. n, i - 1 \in P PROVE i \in P
    <3>1. v[i - 1] \in Int /\ digits[i] \in Int /\ i \in 0 .. n
      BY <1>1, <2>2
    <3>2. v[i] = v[i - 1] * base + digits[i]
      BY <1>7
    <3> QED
      BY <3>1, <3>2
  <2> HIDE DEF P
  <2>3. \A i \in 0 .. n : i \in P
    BY <1>1, <2>1, <2>2, UpTo
  <2> QED
    BY <2>3 DEF P
<1> QED
  BY <1>6, <1>7, <1>8 DEF v

(* num after each turn of the loop of int_to_hex_string. *)
LEMMA ShiftedIs ==
  ASSUME NEW num \in Nat
  PROVE  LET q == Shifted(num) IN
         /\ q \in [0 .. HEXA_SIZE -> Nat] /\ q[0] = num
         /\ \A i \in 1 .. HEXA_SIZE : q[i] = q[i - 1] \div 16
<1> DEFINE n == HEXA_SIZE
           step == [p \in Nat \X (1 .. n) |-> p[1] \div 16]
           q == Shifted(num)
<1>1. n \in Nat
  BY TextAssumption
<1>2. step \in [Nat \X (1 .. n) -> Nat]
  BY <1>1
<1>a. PICK g : Follows(g, Nat, n, num, step)
  <2> HIDE DEF step, n
  <2> QED
    BY <1>1, <1>2, Recursion
<1>3. /\ g \in [0 .. n -> Nat] /\ g[0] = num
      /\ \A i \in 1 .. n : g[i] = step[<<g[i - 1], i>>]
  BY <1>a DEF Follows
<1>4. ASSUME NEW i \in 1 .. n PROVE g[i] = g[i - 1] \div 16
  <2>1. i - 1 \in 0 .. n
    BY <1>1
  <2>2. <<g[i - 1], i>> \in Nat \X (1 .. n)
    BY <1>3, <2>1
  <2> QED
    BY <1>3, <2>2
<1>5. g = [i \in 0 .. n |-> IF i = 0 THEN num ELSE g[i - 1] \div 16]
  BY <1>1, <1>3, <1>4
<1>6. q = [i \in 0 .. n |-> IF i = 0 THEN num ELSE q[i - 1] \div 16]
  BY <1>5 DEF Shifted
<1> HIDE DEF q
<1>7. q[0] = num /\ \A i \in 1 .. n : q[i] = q[i - 1] \div 16
  BY <1>1, <1>6
<1>8. \A i \in 0 .. n : q[i] \in Nat
  <2> DEFINE P == {i \in 0 .. n : q[i] \in Nat}
  <2>1. 0 \in P
    BY <1>1, <1>7
  <2>2. ASSUME NEW i \in 1 .. n, i - 1 \in P PROVE i \in P
    <3>1. q[i - 1] \in Nat /\ i \in 0 .. n
      BY <1>1, <2>2
    <3>2. q[i] = q[i - 1] \div 16
      BY <1>7
    <3> QED
      BY <3>1, <3>2
  <2> HIDE DEF P
  <2>3. \A i \in 0 .. n : i \in P
    BY <1>1, <2>1, <2>2, UpTo
  <2> QED
    BY <2>3 DEF P
<1> QED
  BY <1>6, <1>7, <1>8 DEF q

(* The runs of '%' in a format. *)
LEMMA RunAtIs ==
  ASSUME NEW format \in Seq({"%", "d", "a"})
  PROVE  LET r == RunAt(format) n == Len(format) IN
         /\ r \in [0 .. n -> Nat] /\ r[0] = 0
         /\ \A i \in 1 .. n : r[i] = IF format[i] # "%" THEN 0 ELSE r[i - 1] + 1
<1> DEFINE n == Len(format)
           step == [p \in Nat \X (1 .. n) |-> IF format[p[2]] # "%" THEN 0 ELSE p[1] + 1]
           r == RunAt(format)
<1>1. n \in Nat
  OBVIOUS
<1>2. step \in [Nat \X (1 .. n) -> Nat]
  BY <1>1
<1>a. PICK g : Follows(g, Nat, n, 0, step)
  <2> HIDE DEF step, n
  <2>1. 0 \in Nat
    OBVIOUS
  <2> QED
    BY <1>1, <1>2, <2>1, Recursion
<1>3. /\ g \in [0 .. n -> Nat] /\ g[0] = 0
      /\ \A i \in 1 .. n : g[i] = step[<<g[i - 1], i>>]
  BY <1>a DEF Follows
<1>4. ASSUME NEW i \in 1 .. n
      PROVE  g[i] = IF format[i] # "%" THEN 0 ELSE g[i - 1] + 1
  <2>1. i - 1 \in 0 .. n
    BY <1>1
  <2>2. <<g[i - 1], i>> \in Nat \X (1 .. n)
    BY <1>3, <2>1
  <2> QED
    BY <1>3, <2>2
<1>5. g = [i \in 0 .. n |-> IF i = 0 THEN 0
                            ELSE IF format[i] # "%" THEN 0 ELSE g[i - 1] + 1]
  BY <1>1, <1>3, <1>4
<1>6. r = [i \in 0 .. n |-> IF i = 0 THEN 0
                            ELSE IF format[i] # "%" THEN 0 ELSE r[i - 1] + 1]
  BY <1>5 DEF RunAt
<1> HIDE DEF r
<1>7. r[0] = 0 /\ \A i \in 1 .. n : r[i] = IF format[i] # "%" THEN 0 ELSE r[i - 1] + 1
  BY <1>1, <1>6
<1>8. \A i \in 0 .. n : r[i] \in Nat
  <2> DEFINE P == {i \in 0 .. n : r[i] \in Nat}
  <2>1. 0 \in P
    BY <1>1, <1>7
  <2>2. ASSUME NEW i \in 1 .. n, i - 1 \in P PROVE i \in P
    <3>1. r[i - 1] \in Nat /\ i \in 0 .. n
      BY <1>1, <2>2
    <3>2. r[i] = IF format[i] # "%" THEN 0 ELSE r[i - 1] + 1
      BY <1>7
    <3> QED
      BY <3>1, <3>2
  <2> HIDE DEF P
  <2>3. \A i \in 0 .. n : i \in P
    BY <1>1, <2>1, <2>2, UpTo
  <2> QED
    BY <2>3 DEF P
<1> QED
  BY <1>6, <1>7, <1>8 DEF r

(* The states of printf's loop. *)
Walked == [esc : BOOLEAN, k : Nat, out : Seq(Nat)]

(* The body of printf's loop keeps its state's type. *)
LEMMA PrintedType ==
  ASSUME NEW st \in Walked, NEW c \in {"%", "d", "a"}
  PROVE  Printed(st, c) \in Walked
<1>1. /\ st.esc \in BOOLEAN /\ st.k \in Nat /\ st.out \in Seq(Nat)
      /\ st.k + 1 \in Nat
  BY DEF Walked
<1>2. /\ Append(st.out, 0) \in Seq(Nat) /\ Append(st.out, st.k + 1) \in Seq(Nat)
      /\ st.out \o <<0, 0>> \in Seq(Nat)
  BY <1>1
<1>3. CASE st.esc /\ c = "d"
  BY <1>1, <1>2, <1>3 DEF Printed, Converted, Walked
<1>4. CASE st.esc /\ c = "%"
  BY <1>1, <1>2, <1>4 DEF Printed, Converted, Walked
<1>5. CASE st.esc /\ c = "a"
  BY <1>1, <1>2, <1>5 DEF Printed, Converted, Walked
<1>6. CASE ~st.esc
  BY <1>1, <1>2, <1>6 DEF Printed, Walked
<1> QED
  BY <1>1, <1>3, <1>4, <1>5, <1>6

(* printf goes through its format. *)
LEMMA WalkIs ==
  ASSUME NEW format \in Seq({"%", "d", "a"})
  PROVE  LET w == Walk(format) n == Len(format) IN
         /\ w \in [0 .. n -> Walked]
         /\ w[0] = [esc |-> FALSE, k |-> 0, out |-> <<>>]
         /\ \A i \in 1 .. n : w[i] = Printed(w[i - 1], format[i])
<1> DEFINE n == Len(format)
           start == [esc |-> FALSE, k |-> 0, out |-> <<>>]
           step == [p \in Walked \X (1 .. n) |-> Printed(p[1], format[p[2]])]
           w == Walk(format)
<1>1. n \in Nat
  OBVIOUS
<1>b. \A i \in 1 .. n : format[i] \in {"%", "d", "a"}
  OBVIOUS
<1>c. start \in Walked
  BY DEF Walked
<1>2. step \in [Walked \X (1 .. n) -> Walked]
  <2>1. ASSUME NEW p \in Walked \X (1 .. n) PROVE Printed(p[1], format[p[2]]) \in Walked
    BY <1>b, <2>1, PrintedType
  <2> QED
    BY <2>1
<1>a. PICK g : Follows(g, Walked, n, start, step)
  <2> HIDE DEF step, n, start
  <2> QED
    BY <1>1, <1>2, <1>c, Recursion
<1>3. /\ g \in [0 .. n -> Walked] /\ g[0] = start
      /\ \A i \in 1 .. n : g[i] = step[<<g[i - 1], i>>]
  BY <1>a DEF Follows
<1>4. ASSUME NEW i \in 1 .. n PROVE g[i] = Printed(g[i - 1], format[i])
  <2>1. i - 1 \in 0 .. n
    BY <1>1
  <2>2. <<g[i - 1], i>> \in Walked \X (1 .. n)
    BY <1>3, <2>1
  <2> QED
    BY <1>3, <2>2
<1>5. g = [i \in 0 .. n |-> IF i = 0 THEN start ELSE Printed(g[i - 1], format[i])]
  BY <1>1, <1>3, <1>4
<1>6. w = [i \in 0 .. n |-> IF i = 0 THEN start ELSE Printed(w[i - 1], format[i])]
  BY <1>5 DEF Walk
<1> HIDE DEF w, start
<1>7. w[0] = start /\ \A i \in 1 .. n : w[i] = Printed(w[i - 1], format[i])
  BY <1>1, <1>6
<1>8. \A i \in 0 .. n : w[i] \in Walked
  <2> DEFINE P == {i \in 0 .. n : w[i] \in Walked}
  <2>1. 0 \in P
    BY <1>1, <1>7, <1>c
  <2>2. ASSUME NEW i \in 1 .. n, i - 1 \in P PROVE i \in P
    <3>1. w[i - 1] \in Walked /\ i \in 0 .. n
      BY <1>1, <2>2
    <3>2. w[i] = Printed(w[i - 1], format[i])
      BY <1>7
    <3> QED
      BY <1>b, <3>1, <3>2, PrintedType
  <2> HIDE DEF P
  <2>3. \A i \in 0 .. n : i \in P
    BY <1>1, <2>1, <2>2, UpTo
  <2> QED
    BY <2>3 DEF P
<1> QED
  BY <1>6, <1>7, <1>8 DEF w, start

(* No digit of an address is left after HEXA_SIZE turns. *)
LEMMA ShiftedOut ==
  ASSUME NEW num \in 0 .. UIntMax
  PROVE  Shifted(num)[HEXA_SIZE] = 0
<1> DEFINE q == Shifted(num)
           t == Shifted(UIntMax)
           n == HEXA_SIZE
           P == {i \in 0 .. n : q[i] <= t[i]}
<1>1. n \in Nat /\ UIntMax \in Nat /\ num \in Nat
  BY TextAssumption DEF UIntMax
<1>2. /\ q \in [0 .. n -> Nat] /\ q[0] = num
      /\ \A i \in 1 .. n : q[i] = q[i - 1] \div 16
  BY <1>1, ShiftedIs
<1>3. /\ t \in [0 .. n -> Nat] /\ t[0] = UIntMax
      /\ \A i \in 1 .. n : t[i] = t[i - 1] \div 16
  BY <1>1, ShiftedIs
<1>a. t[n] = 0
  BY HexaAssumption
<1> HIDE DEF q, t, n
<1>4. 0 \in P
  BY <1>1, <1>2, <1>3
<1>5. ASSUME NEW i \in 1 .. n, i - 1 \in P PROVE i \in P
  <2>1. q[i - 1] \in Nat /\ t[i - 1] \in Nat /\ q[i - 1] <= t[i - 1] /\ i \in 0 .. n
    BY <1>1, <1>2, <1>3, <1>5
  <2>2. q[i - 1] \div 16 <= t[i - 1] \div 16
    BY <2>1
  <2> QED
    BY <1>2, <1>3, <2>1, <2>2
<1> HIDE DEF P
<1>6. \A i \in 0 .. n : i \in P
  BY <1>1, <1>4, <1>5, UpTo
<1>7. n \in 0 .. n
  BY <1>1
<1>8. q[n] <= t[n] /\ q[n] \in Nat
  BY <1>2, <1>6, <1>7 DEF P
<1> QED
  BY <1>a, <1>8 DEF q, n

(* What put_hexa and put_addr print is the number without its last digit:  *)
(* the loop of int_to_hex_string has one turn too many, and the end of the *)
(* string overwrites the digit of the first turn.  stdio.h promises the    *)
(* number in hexadecimal.                                                  *)
THEOREM PrintedAddressLosesDigit ==
  \A num \in 0 .. UIntMax : ValueOf(16, int_to_hex_string(num)) = num \div 16
<1> SUFFICES ASSUME NEW num \in 0 .. UIntMax
             PROVE  ValueOf(16, int_to_hex_string(num)) = num \div 16
  OBVIOUS
<1> DEFINE q == Shifted(num)
           n == HEXA_SIZE
           digits == int_to_hex_string(num)
           v == Horner(16, digits)
           P == {i \in 0 .. n : i >= 1 => v[i] = q[n + 1 - i]}
<1>1. n \in Nat /\ n >= 1 /\ UIntMax \in Nat /\ num \in Nat
  BY TextAssumption DEF UIntMax
<1>2. /\ q \in [0 .. n -> Nat] /\ q[0] = num
      /\ \A i \in 1 .. n : q[i] = q[i - 1] \div 16
  BY <1>1, ShiftedIs
<1>3. q[n] = 0
  BY ShiftedOut
<1>4. digits = [i \in 1 .. n |-> q[n + 1 - i] % 16]
  BY DEF int_to_hex_string
<1> HIDE DEF q, n, digits
<1>5. digits \in Seq(Int) /\ Len(digits) = n
      /\ \A i \in 1 .. n : digits[i] = q[n + 1 - i] % 16
  <2>1. ASSUME NEW i \in 1 .. n PROVE q[n + 1 - i] % 16 \in Int
    <3>1. n + 1 - i \in 0 .. n
      BY <1>1
    <3>2. q[n + 1 - i] \in Nat
      BY <1>2, <3>1
    <3> QED
      BY <3>2
  <2> QED
    BY <1>1, <1>4, <2>1
<1>6. /\ v \in [0 .. n -> Int] /\ v[0] = 0
      /\ \A i \in 1 .. n : v[i] = v[i - 1] * 16 + digits[i]
  <2>1. 16 \in Int
    OBVIOUS
  <2> QED
    BY <1>5, <2>1, HornerIs
<1> HIDE DEF v
<1>7. 0 \in P
  BY <1>1
<1>8. ASSUME NEW i \in 1 .. n, i - 1 \in P PROVE i \in P
  <2>1. v[i] = v[i - 1] * 16 + (q[n + 1 - i] % 16)
    BY <1>5, <1>6
  <2>2. n + 1 - i \in 0 .. n /\ q[n + 1 - i] \in Nat /\ i \in 0 .. n
    BY <1>1, <1>2
  <2>3. CASE i = 1
    <3>1. v[i - 1] = 0 /\ n + 1 - i = n
      BY <1>1, <1>6, <2>3
    <3> QED
      BY <1>3, <2>1, <2>2, <3>1
  <2>4. CASE i # 1
    <3>1. v[i - 1] = q[n + 1 - (i - 1)]
      BY <1>8, <2>4
    <3>2. n + 1 - (i - 1) \in 1 .. n /\ (n + 1 - (i - 1)) - 1 = n + 1 - i
      BY <1>1, <2>4
    <3>3. v[i - 1] = q[n + 1 - i] \div 16
      BY <1>2, <3>1, <3>2
    <3>4. v[i] = q[n + 1 - i]
      BY <2>1, <2>2, <3>3
    <3> QED
      BY <2>2, <3>4
  <2> QED
    BY <2>3, <2>4
<1> HIDE DEF P
<1>9. \A i \in 0 .. n : i \in P
  BY <1>1, <1>7, <1>8, UpTo
<1>10. v[n] = q[1]
  <2>1. n \in P /\ n + 1 - n = 1
    BY <1>1, <1>9
  <2> QED
    BY <1>1, <2>1 DEF P
<1>11. q[1] = num \div 16
  BY <1>1, <1>2
<1> QED
  BY <1>5, <1>10, <1>11 DEF ValueOf, v, digits

(* The digits of an int, least significant first. *)
LEMMA DigitsIs ==
  /\ Digits \in [IntRange -> Seq(Int)]
  /\ \A m \in IntRange :
       Digits[m] = <<Rem10(m)>> \o (IF m < 10 THEN <<>> ELSE Digits[m \div 10])
<1> DEFINE Body(g, m) == <<Rem10(m)>> \o (IF m < 10 THEN <<>> ELSE g[m \div 10])
           Good(k, g) == /\ g \in [IntMin .. k -> Seq(Int)]
                         /\ \A m \in IntMin .. k : g[m] = Body(g, m)
           P == {k \in 0 .. IntMax : \E g : Good(k, g)}
<1>1. IntMax \in Nat /\ IntMax >= 1 /\ IntMin \in Int /\ IntMin < 0
  BY TextAssumption DEF IntMin
<1>2. \A m \in Int : Rem10(m) \in Int /\ <<Rem10(m)>> \in Seq(Int)
  BY DEF Rem10
<1>3. 0 \in P
  <2> DEFINE g == [m \in IntMin .. 0 |-> <<Rem10(m)>>]
  <2>1. g \in [IntMin .. 0 -> Seq(Int)]
    BY <1>1, <1>2
  <2>2. ASSUME NEW m \in IntMin .. 0 PROVE g[m] = Body(g, m)
    <3>1. m < 10 /\ m \in Int
      BY <1>1
    <3>2. <<Rem10(m)>> \o <<>> = <<Rem10(m)>>
      BY <1>2, <3>1
    <3> QED
      BY <3>1, <3>2
  <2>3. Good(0, g)
    BY <2>1, <2>2
  <2>4. 0 \in 0 .. IntMax
    BY <1>1
  <2> HIDE DEF Good
  <2> QED
    BY <2>3, <2>4
<1>4. ASSUME NEW k \in 1 .. IntMax, k - 1 \in P PROVE k \in P
  <2>1. PICK g : Good(k - 1, g)
    <3> HIDE DEF Good
    <3> QED
      BY <1>4
  <2> DEFINE h == [m \in IntMin .. k |-> IF m = k THEN Body(g, k) ELSE g[m]]
  <2>2. k \in Nat /\ k >= 1
    BY <1>1
  <2>3. ASSUME NEW m \in IntMin .. k, m >= 10
        PROVE  m \div 10 \in IntMin .. k - 1
    BY <1>1, <2>2, <2>3
  <2>4. Body(g, k) \in Seq(Int)
    <3>1. CASE k < 10
      BY <1>2, <2>2, <3>1
    <3>2. CASE ~(k < 10)
      <4>1. k \in IntMin .. k /\ k >= 10
        BY <1>1, <2>2, <3>2
      <4>2. g[k \div 10] \in Seq(Int)
        BY <2>1, <2>3, <4>1
      <4> QED
        BY <1>2, <2>2, <3>2, <4>2
    <3> QED
      BY <3>1, <3>2
  <2>5. h \in [IntMin .. k -> Seq(Int)]
    <3>1. ASSUME NEW m \in IntMin .. k, m # k PROVE g[m] \in Seq(Int)
      <4>1. m \in IntMin .. k - 1
        BY <1>1, <2>2, <3>1
      <4> QED
        BY <2>1, <4>1
    <3> HIDE DEF Body
    <3> QED
      BY <2>4, <3>1
  <2>6. ASSUME NEW m \in IntMin .. k PROVE h[m] = Body(h, m)
    <3>1. h[m] = Body(g, m)
      <4>1. CASE m = k
        BY <4>1
      <4>2. CASE m # k
        <5>1. m \in IntMin .. k - 1 /\ h[m] = g[m]
          BY <1>1, <2>2, <4>2
        <5> QED
          BY <2>1, <5>1
      <4> QED
        BY <4>1, <4>2
    <3>2. CASE m < 10
      BY <3>1, <3>2
    <3>3. CASE ~(m < 10)
      <4>1. m \div 10 \in IntMin .. k - 1
        BY <1>1, <2>2, <2>3, <3>3
      <4>2. m \div 10 \in IntMin .. k /\ m \div 10 # k
        BY <1>1, <2>2, <4>1
      <4>3. h[m \div 10] = g[m \div 10]
        BY <4>2
      <4> QED
        BY <3>1, <4>3
    <3> QED
      BY <3>2, <3>3
  <2>7. Good(k, h)
    BY <2>5, <2>6
  <2>8. k \in 0 .. IntMax
    BY <1>1
  <2> HIDE DEF Good
  <2> QED
    BY <2>7, <2>8
<1>5. PICK g : Good(IntMax, g)
  <2> HIDE DEF P
  <2>1. \A k \in 0 .. IntMax : k \in P
    BY <1>1, <1>3, <1>4, UpTo
  <2>2. IntMax \in P
    BY <1>1, <2>1
  <2> QED
    BY <2>2 DEF P
<1>6. g = [m \in IntRange |-> <<Rem10(m)>> \o (IF m < 10 THEN <<>> ELSE g[m \div 10])]
  BY <1>5 DEF IntRange
<1>7. Digits = [m \in IntRange |->
                  <<Rem10(m)>> \o (IF m < 10 THEN <<>> ELSE Digits[m \div 10])]
  BY <1>6 DEF Digits
<1> DEFINE T == {k \in 0 .. IntMax : \A m \in IntMin .. k : Digits[m] \in Seq(Int)}
<1>8. 0 \in T
  <2>1. ASSUME NEW m \in IntMin .. 0 PROVE Digits[m] \in Seq(Int)
    <3>1. m < 10 /\ m \in IntRange /\ m \in Int
      BY <1>1 DEF IntRange
    <3>2. Digits[m] = <<Rem10(m)>> \o <<>>
      BY <1>7, <3>1
    <3> QED
      BY <1>2, <3>1, <3>2
  <2> QED
    BY <1>1, <2>1
<1>9. ASSUME NEW k \in 1 .. IntMax, k - 1 \in T PROVE k \in T
  <2>1. ASSUME NEW m \in IntMin .. k PROVE Digits[m] \in Seq(Int)
    <3>1. CASE m # k
      <4>1. m \in IntMin .. k - 1
        BY <1>1, <3>1
      <4> QED
        BY <1>9, <4>1
    <3>2. CASE m = k
      <4>1. k \in IntRange /\ k \in Int
        BY <1>1 DEF IntRange
      <4>2. Digits[k] = <<Rem10(k)>> \o (IF k < 10 THEN <<>> ELSE Digits[k \div 10])
        BY <1>7, <4>1
      <4>3. ~(k < 10) => k \div 10 \in IntMin .. k - 1
        BY <1>1
      <4>4. ~(k < 10) => Digits[k \div 10] \in Seq(Int)
        BY <1>9, <4>3
      <4> QED
        BY <1>2, <3>2, <4>1, <4>2, <4>4
    <3> QED
      BY <3>1, <3>2
  <2> QED
    BY <1>1, <2>1
<1>10. ASSUME NEW m \in IntRange PROVE Digits[m] \in Seq(Int)
  <2>1. IntMax \in T
    <3> HIDE DEF T
    <3>1. \A k \in 0 .. IntMax : k \in T
      BY <1>1, <1>8, <1>9, UpTo
    <3> QED
      BY <1>1, <3>1
  <2> QED
    BY <2>1 DEF IntRange
<1> QED
  <2> HIDE DEF T, P
  <2> QED
    BY <1>7, <1>10

(* One more digit. *)
LEMMA ValueOfAppend ==
  ASSUME NEW base \in Int, NEW s \in Seq(Int), NEW d \in Int
  PROVE  /\ ValueOf(base, s) \in Int
         /\ ValueOf(base, Append(s, d)) = ValueOf(base, s) * base + d
<1> DEFINE n == Len(s)
           t == Append(s, d)
           v == Horner(base, s)
           u == Horner(base, t)
           P == {i \in 0 .. n : u[i] = v[i]}
<1>1. /\ n \in Nat /\ t \in Seq(Int) /\ Len(t) = n + 1 /\ t[n + 1] = d
      /\ \A i \in 1 .. n : t[i] = s[i]
  OBVIOUS
<1>2. /\ v \in [0 .. n -> Int] /\ v[0] = 0
      /\ \A i \in 1 .. n : v[i] = v[i - 1] * base + s[i]
  BY HornerIs
<1> HIDE DEF t
<1>3. /\ u \in [0 .. n + 1 -> Int] /\ u[0] = 0
      /\ \A i \in 1 .. n + 1 : u[i] = u[i - 1] * base + t[i]
  BY <1>1, HornerIs
<1> HIDE DEF u, v, n
<1>4. 0 \in P
  BY <1>1, <1>2, <1>3
<1>5. ASSUME NEW i \in 1 .. n, i - 1 \in P PROVE i \in P
  <2>1. i \in 1 .. n + 1 /\ i \in 0 .. n /\ u[i - 1] = v[i - 1]
    BY <1>1, <1>5
  <2>2. u[i] = u[i - 1] * base + t[i] /\ v[i] = v[i - 1] * base + s[i] /\ t[i] = s[i]
    BY <1>1, <1>2, <1>3, <2>1
  <2> QED
    BY <2>1, <2>2
<1> HIDE DEF P
<1>6. \A i \in 0 .. n : i \in P
  BY <1>1, <1>4, <1>5, UpTo
<1>7. n \in 0 .. n /\ n + 1 \in 1 .. n + 1 /\ (n + 1) - 1 = n
  BY <1>1
<1>8. u[n] = v[n]
  BY <1>6, <1>7 DEF P
<1>9. u[n + 1] = u[n] * base + t[n + 1]
  BY <1>3, <1>7
<1>10. ValueOf(base, s) = v[n] /\ ValueOf(base, Append(s, d)) = u[n + 1]
  BY <1>1 DEF ValueOf, u, v, t, n
<1> QED
  BY <1>1, <1>2, <1>7, <1>8, <1>9, <1>10

(* Reversing a sequence, and one that has got a first or a last element. *)
LEMMA ReverseIs ==
  ASSUME NEW s \in Seq(Int), NEW d \in Int
  PROVE  /\ Reverse(s) \in Seq(Int) /\ Len(Reverse(s)) = Len(s)
         /\ \A i \in 1 .. Len(s) : Reverse(s)[i] = s[Len(s) - i + 1]
         /\ Reverse(<<d>> \o s) = Append(Reverse(s), d)
         /\ Reverse(Append(s, d)) = <<d>> \o Reverse(s)
<1> DEFINE n == Len(s)
           r == Reverse(s)
<1>1. n \in Nat /\ \A i \in 1 .. n : s[i] \in Int
  OBVIOUS
<1>2. r = [i \in 1 .. n |-> s[(n - i) + 1]]
  BY DEF Reverse
<1>3. r \in Seq(Int) /\ Len(r) = n /\ \A i \in 1 .. n : r[i] = s[n - i + 1]
  <2>1. ASSUME NEW i \in 1 .. n PROVE s[(n - i) + 1] \in Int
    <3>1. (n - i) + 1 \in 1 .. n
      BY <1>1
    <3> QED
      BY <1>1, <3>1
  <2> HIDE DEF r, n
  <2> QED
    BY <1>1, <1>2, <2>1
<1> HIDE DEF r
<1>4. Reverse(<<d>> \o s) = Append(r, d)
  <2> DEFINE t == <<d>> \o s
  <2>1. /\ t \in Seq(Int) /\ Len(t) = n + 1 /\ t[1] = d
        /\ \A i \in 2 .. n + 1 : t[i] = s[i - 1]
    OBVIOUS
  <2> HIDE DEF t
  <2>2. Reverse(t) = [i \in 1 .. n + 1 |-> t[((n + 1) - i) + 1]]
    BY <2>1 DEF Reverse
  <2>3. /\ Append(r, d) \in Seq(Int) /\ Len(Append(r, d)) = n + 1
        /\ Append(r, d)[n + 1] = d /\ \A i \in 1 .. n : Append(r, d)[i] = r[i]
    BY <1>3
  <2>4. ASSUME NEW i \in 1 .. n + 1 PROVE t[((n + 1) - i) + 1] = Append(r, d)[i]
    <3>1. CASE i = n + 1
      <4>1. ((n + 1) - i) + 1 = 1
        BY <1>1, <3>1
      <4> QED
        BY <2>1, <2>3, <3>1, <4>1
    <3>2. CASE i # n + 1
      <4>1. /\ i \in 1 .. n /\ ((n + 1) - i) + 1 \in 2 .. n + 1
            /\ (((n + 1) - i) + 1) - 1 = n - i + 1
        BY <1>1, <3>2
      <4> QED
        BY <1>3, <2>1, <2>3, <4>1
    <3> QED
      BY <3>1, <3>2
  <2>5. Append(r, d) = [i \in 1 .. n + 1 |-> Append(r, d)[i]]
    <3> DEFINE a == Append(r, d)
    <3>1. a \in Seq(Int) /\ Len(a) = n + 1
      BY <2>3
    <3> HIDE DEF a, n
    <3>2. a = [i \in 1 .. n + 1 |-> a[i]]
      BY <3>1
    <3> QED
      BY <3>2 DEF a
  <2>6. Reverse(t) = Append(r, d)
    BY <2>2, <2>4, <2>5
  <2> QED
    BY <2>6 DEF t
<1>5. Reverse(Append(s, d)) = <<d>> \o r
  <2> DEFINE t == Append(s, d)
             u == <<d>> \o r
  <2>1. /\ t \in Seq(Int) /\ Len(t) = n + 1 /\ t[n + 1] = d
        /\ \A i \in 1 .. n : t[i] = s[i]
    OBVIOUS
  <2>2. /\ u \in Seq(Int) /\ Len(u) = n + 1 /\ u[1] = d
        /\ \A i \in 2 .. n + 1 : u[i] = r[i - 1]
    BY <1>1, <1>3
  <2> HIDE DEF t, u
  <2>3. Reverse(t) = [i \in 1 .. n + 1 |-> t[((n + 1) - i) + 1]]
    BY <2>1 DEF Reverse
  <2>4. ASSUME NEW i \in 1 .. n + 1 PROVE t[((n + 1) - i) + 1] = u[i]
    <3>1. CASE i = 1
      <4>1. ((n + 1) - i) + 1 = n + 1
        BY <1>1, <3>1
      <4> QED
        BY <2>1, <2>2, <3>1, <4>1
    <3>2. CASE i # 1
      <4>1. /\ i \in 2 .. n + 1 /\ ((n + 1) - i) + 1 \in 1 .. n /\ i - 1 \in 1 .. n
            /\ ((n + 1) - i) + 1 = n - (i - 1) + 1
        BY <1>1, <3>2
      <4> QED
        BY <1>3, <2>1, <2>2, <4>1
    <3> QED
      BY <3>1, <3>2
  <2>5. u = [i \in 1 .. n + 1 |-> u[i]]
    <3> HIDE DEF n
    <3> QED
      BY <2>2
  <2>6. Reverse(t) = u
    BY <2>3, <2>4, <2>5
  <2> QED
    BY <2>6 DEF t, u
<1> QED
  BY <1>3, <1>4, <1>5 DEF r

(* The digits of m, least significant first, are those of its numeral. *)
NumeralOf(D, m) ==
  /\ D \in Seq(Int) /\ Len(D) >= 1 /\ \A i \in 1 .. Len(D) : D[i] \in 0 .. 9
  /\ D[Len(D)] = 0 => Len(D) = 1 /\ m = 0
  /\ ValueOf(10, Reverse(D)) = m

(* The loop of int_to_string writes the numeral of every number. *)
LEMMA DigitsExact ==
  ASSUME NEW num \in 0 .. IntMax
  PROVE  NumeralOf(Digits[num], num)
<1> DEFINE P == {k \in 0 .. IntMax : \A m \in 0 .. k : NumeralOf(Digits[m], m)}
<1>1. IntMax \in Nat /\ 0 .. IntMax \subseteq IntRange
  BY TextAssumption DEF IntRange, IntMin
<1>2. ASSUME NEW m \in 0 .. IntMax,
             m >= 10 => NumeralOf(Digits[m \div 10], m \div 10)
      PROVE  NumeralOf(Digits[m], m)
  <2> DEFINE D == Digits[m]
             E == IF m < 10 THEN <<>> ELSE Digits[m \div 10]
             x == m \div 10
             d == m % 10
  <2>1. m \in Nat /\ d \in 0 .. 9 /\ d \in Int /\ x \in Nat /\ m = x * 10 + d /\ Rem10(m) = d
    BY <1>1 DEF Rem10
  <2>2. D = <<d>> \o E
    <3>1. m \in IntRange
      BY <1>1
    <3> QED
      BY <2>1, <3>1, DigitsIs
  <2> HIDE DEF D, x, d
  <2>3. CASE m < 10
    <3>1. E = <<>> /\ D = <<d>> \o <<>>
      BY <2>2, <2>3
    <3>2. D = <<d>> /\ d = m
      <4>1. d = m
        BY <2>1, <2>3 DEF x, d
      <4>2. <<d>> \in Seq(Int)
        BY <2>1
      <4> QED
        BY <2>1, <3>1, <4>1, <4>2
    <3>3. ValueOf(10, Reverse(D)) = m
      <4>1. <<>> \in Seq(Int) /\ Len(<<>>) = 0 /\ 10 \in Int
        OBVIOUS
      <4>2. Reverse(D) = Append(Reverse(<<>>), d)
        BY <2>1, <3>1, <4>1, ReverseIs
      <4>3. Reverse(<<>>) \in Seq(Int) /\ Len(Reverse(<<>>)) = 0
        BY <2>1, <4>1, ReverseIs
      <4>4. ValueOf(10, Reverse(<<>>)) = 0
        <5>1. Horner(10, Reverse(<<>>))[0] = 0
          BY <4>1, <4>3, HornerIs
        <5> QED
          BY <4>3, <5>1 DEF ValueOf
      <4>5. ValueOf(10, Append(Reverse(<<>>), d)) = ValueOf(10, Reverse(<<>>)) * 10 + d
        BY <2>1, <4>1, <4>3, ValueOfAppend
      <4>6. ValueOf(10, Reverse(D)) = 0 * 10 + d
        BY <4>2, <4>4, <4>5
      <4> QED
        BY <2>1, <3>2, <4>6
    <3> QED
      BY <2>1, <3>2, <3>3 DEF NumeralOf, D
  <2>4. CASE ~(m < 10)
    <3>1. NumeralOf(E, x) /\ x >= 1
      BY <1>2, <2>1, <2>4 DEF x, d
    <3> HIDE DEF E
    <3>2. /\ E \in Seq(Int) /\ Len(E) >= 1 /\ Len(E) \in Nat
          /\ \A i \in 1 .. Len(E) : E[i] \in 0 .. 9
          /\ E[Len(E)] # 0 /\ ValueOf(10, Reverse(E)) = x
      BY <2>1, <3>1 DEF NumeralOf
    <3>3. /\ D \in Seq(Int) /\ Len(D) = Len(E) + 1 /\ D[1] = d
          /\ \A i \in 2 .. Len(E) + 1 : D[i] = E[i - 1]
      BY <2>1, <2>2, <3>2
    <3>4. \A i \in 1 .. Len(D) : D[i] \in 0 .. 9
      <4> SUFFICES ASSUME NEW i \in 1 .. Len(D) PROVE D[i] \in 0 .. 9
        OBVIOUS
      <4>1. CASE i = 1
        BY <2>1, <3>3, <4>1
      <4>2. CASE i # 1
        <5>1. i \in 2 .. Len(E) + 1 /\ i - 1 \in 1 .. Len(E)
          BY <3>2, <3>3, <4>2
        <5> QED
          BY <3>2, <3>3, <5>1
      <4> QED
        BY <4>1, <4>2
    <3>5. D[Len(D)] = E[Len(E)] /\ Len(D) >= 1
      <4>1. Len(E) + 1 \in 2 .. Len(E) + 1 /\ (Len(E) + 1) - 1 = Len(E)
        BY <3>2
      <4>2. D[Len(E) + 1] = E[(Len(E) + 1) - 1] /\ Len(D) = Len(E) + 1
        BY <3>3, <4>1
      <4>3. Len(D) >= 1
        BY <3>2, <4>2
      <4> QED
        BY <4>1, <4>2, <4>3
    <3>6. ValueOf(10, Reverse(D)) = m
      <4>0. E \in Seq(Int) /\ d \in Int
        BY <2>1, <3>2
      <4>a. Reverse(<<d>> \o E) = Append(Reverse(E), d) /\ Reverse(E) \in Seq(Int)
        BY <4>0, ReverseIs, Zenon
      <4>1. Reverse(D) = Append(Reverse(E), d) /\ Reverse(E) \in Seq(Int) /\ 10 \in Int
        BY <2>2, <4>a
      <4>2. ValueOf(10, Append(Reverse(E), d)) = ValueOf(10, Reverse(E)) * 10 + d
        BY <2>1, <4>1, ValueOfAppend
      <4> QED
        BY <2>1, <3>2, <4>1, <4>2
    <3> QED
      BY <3>2, <3>3, <3>4, <3>5, <3>6 DEF NumeralOf, D
  <2> QED
    BY <2>3, <2>4
<1>3. 0 \in P
  BY <1>1, <1>2
<1>4. ASSUME NEW k \in 1 .. IntMax, k - 1 \in P PROVE k \in P
  <2>1. k \in 0 .. IntMax /\ (k >= 10 => k \div 10 \in 0 .. k - 1)
    BY <1>1
  <2>2. \A m \in 0 .. k - 1 : NumeralOf(Digits[m], m)
    BY <1>4
  <2>3. NumeralOf(Digits[k], k)
    BY <1>2, <2>1, <2>2
  <2>4. \A m \in 0 .. k : m = k \/ m \in 0 .. k - 1
    BY <1>1
  <2> QED
    BY <2>1, <2>2, <2>3, <2>4
<1> HIDE DEF P
<1>5. \A k \in 0 .. IntMax : k \in P
  BY <1>1, <1>3, <1>4, UpTo
<1> QED
  <2>1. num \in P /\ num \in 0 .. num
    BY <1>1, <1>5
  <2> QED
    BY <2>1 DEF P

(* atoi reads back what int_to_string wrote, and there is no leading zero. *)
LEMMA DecimalExact ==
  ASSUME NEW num \in IntRange, num # IntMin
  PROVE  LET r == int_to_string(num) IN
         /\ atoi(r) = num
         /\ Len(r) = 1 \/ (Len(r) > 1 /\ r[1] # 0)
<1> DEFINE a == IF num < 0 THEN -num ELSE num
           D == Digits[a]
           r == int_to_string(num)
<1>1. IntMax \in Nat /\ num \in Int /\ a \in 0 .. IntMax /\ (num < 0 => Negate(num) = a)
  BY TextAssumption DEF IntRange, IntMin, Negate
<1>2. NumeralOf(D, a)
  BY <1>1, DigitsExact
<1>3. r = IF num < 0 THEN Reverse(Append(D, Minus)) ELSE Reverse(D)
  BY <1>1 DEF int_to_string
<1> HIDE DEF D, a, r
<1>4. /\ D \in Seq(Int) /\ Len(D) >= 1 /\ Len(D) \in Nat
      /\ \A i \in 1 .. Len(D) : D[i] \in 0 .. 9
      /\ D[Len(D)] = 0 => Len(D) = 1
      /\ ValueOf(10, Reverse(D)) = a
  BY <1>2 DEF NumeralOf
<1>5. /\ Reverse(D) \in Seq(Int) /\ Len(Reverse(D)) = Len(D)
      /\ Reverse(D)[1] = D[Len(D)]
      /\ Reverse(Append(D, Minus)) = <<Minus>> \o Reverse(D)
  <2>1. Minus \in Int /\ 1 \in 1 .. Len(D) /\ Len(D) - 1 + 1 = Len(D)
    BY <1>4 DEF Minus
  <2> QED
    BY <1>4, <2>1, ReverseIs
<1>6. CASE num < 0
  <2> DEFINE R == Reverse(D)
  <2>1. /\ r = <<Minus>> \o R /\ r # <<>> /\ r[1] = Minus /\ Tail(r) = R
        /\ Len(r) = Len(R) + 1
    <3>1. r = <<Minus>> \o R /\ R \in Seq(Int) /\ Minus \in Int
      BY <1>3, <1>5, <1>6 DEF Minus
    <3> HIDE DEF R
    <3>2. r \in Seq(Int) /\ r # <<>> /\ r[1] = Minus /\ Len(r) = Len(R) + 1
      BY <3>1
    <3>3. Tail(r) = R
      <4>1. Tail(r) \in Seq(Int) /\ Len(Tail(r)) = Len(R)
        BY <3>1, <3>2
      <4>2. ASSUME NEW i \in 1 .. Len(R) PROVE Tail(r)[i] = R[i]
        <5>1. Tail(r)[i] = r[i + 1] /\ i + 1 \in 2 .. Len(R) + 1
          BY <3>1, <3>2
        <5>2. r[i + 1] = R[(i + 1) - 1]
          BY <3>1, <5>1
        <5>3. (i + 1) - 1 = i
          OBVIOUS
        <5> QED
          BY <5>1, <5>2, <5>3
      <4> QED
        BY <3>1, <4>1, <4>2
    <3> QED
      BY <3>1, <3>2, <3>3
  <2>2. atoi(r) = -ValueOf(10, R)
    BY <2>1 DEF atoi
  <2>3. Len(r) > 1 /\ r[1] # 0
    BY <1>4, <1>5, <2>1 DEF Minus
  <2> QED
    BY <1>1, <1>4, <1>6, <2>2, <2>3 DEF a, r
<1>7. CASE ~(num < 0)
  <2>1. r = Reverse(D)
    BY <1>3, <1>7
  <2>2. r[1] \in 0 .. 9 /\ (r[1] = 0 => Len(r) = 1) /\ Len(r) >= 1 /\ Len(r) \in Nat
    <3>1. Len(D) \in 1 .. Len(D)
      BY <1>4
    <3> QED
      BY <1>4, <1>5, <2>1, <3>1
  <2>3. r[1] # Minus
    BY <2>2 DEF Minus
  <2>4. atoi(r) = ValueOf(10, r)
    BY <2>3 DEF atoi
  <2>5. ValueOf(10, r) = num
    BY <1>4, <1>7, <2>1 DEF a
  <2>6. Len(r) = 1 \/ (Len(r) > 1 /\ r[1] # 0)
    BY <2>2
  <2> QED
    BY <2>4, <2>5, <2>6 DEF r
<1> QED
  BY <1>6, <1>7

(* The smallest int, which screen.c names as the longest one put_int has   *)
(* to print, is printed as '-' and one character that is no digit but for  *)
(* '0': its opposite overflows to itself, and the loop stops at once.      *)
THEOREM SmallestIntMisprinted ==
  /\ int_to_string(IntMin) = <<Minus, Rem10(IntMin)>>
  /\ Rem10(IntMin) <= 0
<1>1. IntMax \in Nat /\ IntMin \in IntRange /\ IntMin < 0 /\ IntMin \in Int
  BY TextAssumption DEF IntRange, IntMin
<1>2. Rem10(IntMin) \in Int /\ Rem10(IntMin) <= 0
  BY <1>1 DEF Rem10
<1> DEFINE r == Rem10(IntMin)
<1>3. Digits[IntMin] = <<r>> \o <<>>
  <2>1. Digits[IntMin]
          = <<Rem10(IntMin)>> \o (IF IntMin < 10 THEN <<>> ELSE Digits[IntMin \div 10])
    BY <1>1, DigitsIs, Zenon
  <2>2. IntMin < 10
    BY <1>1
  <2> QED
    BY <2>1, <2>2
<1>4. int_to_string(IntMin) = Reverse(Append(<<r>>, Minus))
  BY <1>1, <1>2, <1>3 DEF int_to_string, Negate
<1> HIDE DEF r
<1>5. r \in Int /\ Minus \in Int
  BY <1>2 DEF r, Minus
<1>6. Reverse(Append(<<r>>, Minus)) = <<Minus, r>>
  BY <1>5 DEF Reverse
<1> QED
  BY <1>2, <1>4, <1>6 DEF r

(* A character printed takes no argument, and the next conversion takes    *)
(* the next argument.                                                      *)
LEMMA TakesMore ==
  ASSUME NEW out \in Seq(Nat), NEW k \in Nat, TakesInOrder(out, k),
         NEW c \in {0, k + 1}
  PROVE  LET m == IF c = 0 THEN k ELSE c IN TakesInOrder(Append(out, c), m)
<1> DEFINE m == IF c = 0 THEN k ELSE c
           o == Append(out, c)
           n == Len(out)
<1>1. /\ n \in Nat /\ o \in Seq(Nat) /\ Len(o) = n + 1 /\ o[n + 1] = c
      /\ \A i \in 1 .. n : o[i] = out[i]
  OBVIOUS
<1>2. m \in Nat /\ k <= m /\ c \in 0 .. m /\ (\A a \in 1 .. m : a \in 1 .. k \/ a = c)
  OBVIOUS
<1>a. c > 0 => c = k + 1
  OBVIOUS
<1> HIDE DEF m, o, n
<1>3. /\ \A i \in 1 .. n : out[i] \in 0 .. k
      /\ \A a \in 1 .. k : \E i \in 1 .. n : out[i] = a
      /\ \A i, j \in 1 .. n : i < j /\ out[i] > 0 /\ out[j] > 0 => out[i] < out[j]
  BY DEF TakesInOrder, n
<1>4. \A i \in 1 .. n + 1 : i \in 1 .. n \/ i = n + 1
  BY <1>1
<1>5. ASSUME NEW i \in 1 .. Len(o) PROVE o[i] \in 0 .. m
  <2>1. CASE i = n + 1
    BY <1>1, <1>2, <2>1
  <2>2. CASE i \in 1 .. n
    <3>1. o[i] \in 0 .. k
      BY <1>1, <1>3, <2>2
    <3> QED
      BY <1>2, <3>1
  <2> QED
    BY <1>1, <1>4, <2>1, <2>2
<1>6. ASSUME NEW a \in 1 .. m PROVE \E i \in 1 .. Len(o) : o[i] = a
  <2>1. CASE a \in 1 .. k
    <3>1. PICK i \in 1 .. n : out[i] = a
      BY <1>3, <2>1
    <3>2. i \in 1 .. Len(o) /\ o[i] = a
      BY <1>1, <3>1
    <3> QED
      BY <3>2
  <2>2. CASE a = c
    <3>1. n + 1 \in 1 .. Len(o) /\ o[n + 1] = a
      BY <1>1, <2>2
    <3> QED
      BY <3>1
  <2> QED
    BY <1>2, <2>1, <2>2
<1>7. ASSUME NEW i \in 1 .. Len(o), NEW j \in 1 .. Len(o), i < j, o[i] > 0, o[j] > 0
      PROVE  o[i] < o[j]
  <2>1. i \in 1 .. n /\ o[i] = out[i]
    BY <1>1, <1>4, <1>7
  <2>2. CASE j \in 1 .. n
    BY <1>1, <1>3, <1>7, <2>1, <2>2
  <2>3. CASE j = n + 1
    <3>1. o[j] = k + 1 /\ o[i] \in 0 .. k
      BY <1>1, <1>3, <1>7, <1>a, <2>1, <2>3
    <3> QED
      BY <3>1
  <2> QED
    BY <1>1, <1>4, <2>2, <2>3
<1>8. TakesInOrder(o, m)
  BY <1>5, <1>6, <1>7 DEF TakesInOrder
<1> QED
  BY <1>8 DEF o, m

(* The conversions among the first i characters of a format. *)
ConversionsTo(format, i) ==
  {j \in 1 .. i : format[j] = "d" /\ RunAt(format)[j - 1] % 2 = 1}

(* What printf has done after i characters of its format: it is after a    *)
(* '%' exactly when an odd run of them ends there, it took one argument    *)
(* for each conversion and printed them in order.                          *)
PrintfSoFar(format, i) ==
  LET w == Walk(format)[i]
  IN /\ w.esc <=> RunAt(format)[i] % 2 = 1
     /\ IsFiniteSet(ConversionsTo(format, i))
     /\ w.k = Cardinality(ConversionsTo(format, i))
     /\ TakesInOrder(w.out, w.k)

(* One character more. *)
LEMMA PrintfStep ==
  ASSUME NEW format \in Seq({"%", "d", "a"}), NEW i \in 1 .. Len(format),
         PrintfSoFar(format, i - 1)
  PROVE  PrintfSoFar(format, i)
<1> DEFINE r == RunAt(format)
           w == Walk(format)[i - 1]
           x == Walk(format)[i]
           c == format[i]
           C == ConversionsTo(format, i - 1)
           D == ConversionsTo(format, i)
<1>1. /\ i - 1 \in 0 .. Len(format) /\ i \in Nat /\ i - 1 \in Nat
      /\ c \in {"%", "d", "a"}
  OBVIOUS
<1>2. w \in Walked /\ x = Printed(w, c)
  BY <1>1, WalkIs
<1>3. r[i - 1] \in Nat /\ r[i] = IF c # "%" THEN 0 ELSE r[i - 1] + 1
  BY <1>1, RunAtIs
<1>4. D = IF c = "d" /\ r[i - 1] % 2 = 1 THEN C \cup {i} ELSE C
  <2>1. \A j : j \in 1 .. i <=> j \in 1 .. i - 1 \/ j = i
    BY <1>1
  <2>2. i \notin C
    BY <1>1 DEF ConversionsTo
  <2> QED
    BY <2>1 DEF ConversionsTo
<1>5. i \notin C
  BY <1>1 DEF ConversionsTo
<1>6. /\ (w.esc <=> r[i - 1] % 2 = 1) /\ IsFiniteSet(C) /\ w.k = Cardinality(C)
      /\ TakesInOrder(w.out, w.k)
  BY DEF PrintfSoFar
<1> HIDE DEF r, w, x, c, C, D
<1>7. w.esc \in BOOLEAN /\ w.k \in Nat /\ w.out \in Seq(Nat)
  BY <1>2 DEF Walked
<1>8. TakesInOrder(Append(w.out, 0), w.k)
  BY <1>6, <1>7, TakesMore
<1>9. CASE w.esc /\ c = "d"
  <2>1. x.esc = FALSE /\ x.k = w.k + 1 /\ x.out = Append(w.out, w.k + 1)
    BY <1>2, <1>9 DEF Printed, Converted
  <2>2. D = C \cup {i} /\ r[i] = 0
    BY <1>3, <1>4, <1>6, <1>9
  <2>3. IsFiniteSet(D) /\ Cardinality(D) = w.k + 1
    <3>1. IsFiniteSet(C)
      BY <1>6
    <3>2. /\ IsFiniteSet(C \cup {i})
          /\ Cardinality(C \cup {i}) = IF i \in C THEN Cardinality(C) ELSE Cardinality(C) + 1
      BY <3>1, FS_AddElement, Zenon
    <3> QED
      BY <1>5, <1>6, <2>2, <3>2
  <2>4. TakesInOrder(x.out, x.k)
    <3>1. w.k + 1 \in {0, w.k + 1} /\ w.k + 1 # 0
      BY <1>7
    <3> QED
      BY <1>6, <1>7, <2>1, <3>1, TakesMore
  <2>5. x.esc <=> r[i] % 2 = 1
    BY <2>1, <2>2
  <2> QED
    BY <2>1, <2>3, <2>4, <2>5 DEF PrintfSoFar, x, r, D
<1>10. CASE w.esc /\ c = "%"
  <2>1. x.esc = FALSE /\ x.k = w.k /\ x.out = Append(w.out, 0)
    BY <1>2, <1>7, <1>10 DEF Printed, Converted, Walked
  <2>2. D = C /\ ~(r[i] % 2 = 1)
    BY <1>3, <1>4, <1>6, <1>10
  <2> QED
    BY <1>6, <1>8, <2>1, <2>2 DEF PrintfSoFar, x, r, D
<1>11. CASE w.esc /\ c = "a"
  <2>1. x.esc = FALSE /\ x.k = w.k /\ x.out = w.out \o <<0, 0>>
    BY <1>2, <1>7, <1>11 DEF Printed, Converted, Walked
  <2>2. D = C /\ ~(r[i] % 2 = 1)
    BY <1>3, <1>4, <1>6, <1>11
  <2>3. x.out = Append(Append(w.out, 0), 0)
    <3> DEFINE o == w.out
               y == o \o <<0, 0>>
               z == Append(Append(o, 0), 0)
    <3>1. o \in Seq(Nat) /\ Len(o) \in Nat
      BY <1>7
    <3> HIDE DEF o
    <3>2. y \in Seq(Nat) /\ Len(y) = Len(o) + 2 /\ z \in Seq(Nat) /\ Len(z) = Len(o) + 2
      BY <3>1
    <3>3. /\ \A j \in 1 .. Len(o) : y[j] = o[j] /\ z[j] = o[j]
          /\ y[Len(o) + 1] = 0 /\ z[Len(o) + 1] = 0
          /\ y[Len(o) + 2] = 0 /\ z[Len(o) + 2] = 0
      BY <3>1
    <3>4. \A j \in 1 .. Len(o) + 2 : j \in 1 .. Len(o) \/ j = Len(o) + 1 \/ j = Len(o) + 2
      BY <3>1
    <3> HIDE DEF y, z
    <3>5. y = z
      <4>1. \A j \in 1 .. Len(y) : y[j] = z[j]
        BY <3>2, <3>3, <3>4
      <4> QED
        BY <3>2, <4>1, SeqEqual
    <3> QED
      BY <2>1, <3>5 DEF o, y, z
  <2>4. TakesInOrder(x.out, x.k)
    <3> DEFINE o == Append(w.out, 0)
    <3>1. o \in Seq(Nat) /\ TakesInOrder(o, w.k)
      BY <1>7, <1>8
    <3> HIDE DEF o
    <3>2. TakesInOrder(Append(o, 0), w.k)
      BY <1>7, <3>1, TakesMore
    <3> QED
      BY <2>1, <2>3, <3>2 DEF o
  <2> QED
    BY <1>6, <2>1, <2>2, <2>4 DEF PrintfSoFar, x, r, D
<1>12. CASE ~w.esc /\ c = "%"
  <2>1. x.esc = TRUE /\ x.k = w.k /\ x.out = w.out
    BY <1>2, <1>7, <1>12 DEF Printed, Walked
  <2>2. D = C /\ r[i] % 2 = 1
    BY <1>3, <1>4, <1>6, <1>12
  <2> QED
    BY <1>6, <2>1, <2>2 DEF PrintfSoFar, x, r, D
<1>13. CASE ~w.esc /\ c # "%"
  <2>1. x.esc = FALSE /\ x.k = w.k /\ x.out = Append(w.out, 0)
    BY <1>2, <1>7, <1>13 DEF Printed, Walked
  <2>2. D = C /\ ~(r[i] % 2 = 1)
    BY <1>3, <1>4, <1>6, <1>13
  <2> QED
    BY <1>6, <1>8, <2>1, <2>2 DEF PrintfSoFar, x, r, D
<1> QED
  BY <1>1, <1>7, <1>9, <1>10, <1>11, <1>12, <1>13 DEF c

(* printf takes one argument for each conversion, in order. *)
LEMMA PrintfExact ==
  ASSUME NEW format \in Seq({"%", "d", "a"})
  PROVE  /\ printf(format).k = Cardinality(Conversions(format))
         /\ TakesInOrder(printf(format).out, printf(format).k)
<1> DEFINE n == Len(format)
           P == {i \in 0 .. n : PrintfSoFar(format, i)}
<1>1. n \in Nat
  OBVIOUS
<1>2. 0 \in P
  <2>1. Walk(format)[0] = [esc |-> FALSE, k |-> 0, out |-> <<>>] /\ RunAt(format)[0] = 0
    BY WalkIs, RunAtIs
  <2>2. ConversionsTo(format, 0) = {}
    BY DEF ConversionsTo
  <2>3. TakesInOrder(<<>>, 0)
    BY DEF TakesInOrder
  <2> DEFINE w == Walk(format)[0]
             r == RunAt(format)[0]
  <2>4. w.esc = FALSE /\ w.k = 0 /\ w.out = <<>> /\ r = 0
    BY <2>1
  <2> HIDE DEF w, r
  <2>5. ~(r % 2 = 1)
    BY <2>4
  <2>6. IsFiniteSet({}) /\ Cardinality({}) = 0
    BY FS_EmptySet
  <2>7. PrintfSoFar(format, 0)
    BY <2>2, <2>3, <2>4, <2>5, <2>6 DEF PrintfSoFar, w, r
  <2> QED
    BY <1>1, <2>7
<1>3. ASSUME NEW i \in 1 .. n, i - 1 \in P PROVE i \in P
  <2>1. PrintfSoFar(format, i)
    BY <1>3, PrintfStep
  <2> QED
    BY <1>1, <2>1
<1> HIDE DEF P
<1>4. \A i \in 0 .. n : i \in P
  BY <1>1, <1>2, <1>3, UpTo
<1>5. PrintfSoFar(format, n)
  BY <1>1, <1>4 DEF P
<1> QED
  BY <1>5 DEF PrintfSoFar, printf, Conversions, ConversionsTo

(* Sequences of bounded length. *)
LEMMA SeqOfIs ==
  ASSUME NEW S, NEW n \in Nat
  PROVE  \A s : s \in SeqOf(S, n) <=> s \in Seq(S) /\ Len(s) <= n
<1> SUFFICES ASSUME NEW s PROVE s \in SeqOf(S, n) <=> s \in Seq(S) /\ Len(s) <= n
  OBVIOUS
<1>1. ASSUME s \in SeqOf(S, n) PROVE s \in Seq(S) /\ Len(s) <= n
  <2>1. PICK m \in 0 .. n : s \in [1 .. m -> S]
    BY <1>1 DEF SeqOf
  <2> QED
    BY <2>1
<1>2. ASSUME s \in Seq(S), Len(s) <= n PROVE s \in SeqOf(S, n)
  <2>1. Len(s) \in 0 .. n /\ s \in [1 .. Len(s) -> S]
    BY <1>2
  <2> QED
    BY <2>1 DEF SeqOf
<1> QED
  BY <1>1, <1>2

(* The conversions of ints and formats are exact, for ints of any width    *)
(* and formats of any length: a printed number, but for the smallest int,  *)
(* reads back, and printf takes one argument per conversion in order.      *)
THEOREM ConversionsAreExact == TextSpec => []ConversionsExact
<1>1. TextInit => ConversionsExact
  BY DEF TextInit, ConversionsExact
<1>2. ASSUME ConversionsExact, [TextNext]_text_vars PROVE ConversionsExact'
  <2>1. CASE CallDecimal
    <3>1. PICK n \in IntRange : Called("int_to_string", n, int_to_string(n))
      BY <2>1 DEF CallDecimal
    <3>2. call' = "int_to_string" /\ arg' = n /\ result' = int_to_string(n)
      BY <3>1 DEF Called
    <3>3. ASSUME n # IntMin
          PROVE  /\ atoi(result') = n
                 /\ Len(result') = 1 \/ (Len(result') > 1 /\ result'[1] # 0)
      BY <3>2, <3>3, DecimalExact
    <3> QED
      BY <3>2, <3>3 DEF ConversionsExact
  <2>2. CASE CallHex
    BY <2>2 DEF CallHex, Called, ConversionsExact
  <2>3. CASE CallPrintf
    <3>1. PICK format \in Format : Called("printf", format, printf(format))
      BY <2>3 DEF CallPrintf
    <3>2. call' = "printf" /\ arg' = format /\ result' = printf(format)
      BY <3>1 DEF Called
    <3>3. format \in Seq({"%", "d", "a"})
      BY TextAssumption, SeqOfIs DEF Format
    <3>4. /\ result'.k = Cardinality(Conversions(format))
          /\ TakesInOrder(result'.out, result'.k)
      BY <3>2, <3>3, PrintfExact
    <3> QED
      BY <3>2, <3>4 DEF ConversionsExact
  <2>4. CASE CallCompare
    BY <2>4 DEF CallCompare, Called, ConversionsExact
  <2>5. CASE CallCopy
    BY <2>5 DEF CallCopy, Called, ConversionsExact
  <2>6. CASE Return
    BY <2>6 DEF Return, ConversionsExact
  <2>7. CASE UNCHANGED text_vars
    BY <1>2, <2>7 DEF text_vars, ConversionsExact
  <2> QED
    BY <1>2, <2>1, <2>2, <2>3, <2>4, <2>5, <2>6, <2>7 DEF TextNext
<1> QED
  BY <1>1, <1>2, PTL DEF TextSpec

-----------------------------------------------------------------------------
(* C strings: ASCII characters and a Nul at the end only. *)
IsString(s) ==
  /\ s \in Seq(Int) /\ Len(s) \in Nat /\ Len(s) >= 1 /\ s[Len(s)] = Nul
  /\ \A i \in 1 .. Len(s) : i < Len(s) => s[i] \in 1 .. 127

(* A character is a number, and not Nul. *)
LEMMA CharIs ==
  ASSUME NEW c \in 1 .. 127
  PROVE  c \in Int /\ c # Nul
BY DEF Nul

(* The strings of the model are such strings. *)
LEMMA StringIs ==
  ASSUME NEW s \in String
  PROVE  IsString(s) /\ Len(s) <= MaxLen + 1
<1>1. PICK r \in SeqOf(Letters, MaxLen) : s = Append(r, Nul)
  BY DEF String
<1>2. MaxLen \in Nat /\ Letters \subseteq 1 .. 127
  BY TextAssumption
<1>3. r \in Seq(Letters) /\ Len(r) <= MaxLen
  BY <1>2, SeqOfIs
<1>4. r \in Seq(Int) /\ \A i \in 1 .. Len(r) : r[i] \in 1 .. 127
  <2>1. Len(r) \in Nat /\ r = [i \in 1 .. Len(r) |-> r[i]]
    BY <1>3
  <2>2. ASSUME NEW i \in 1 .. Len(r) PROVE r[i] \in 1 .. 127 /\ r[i] \in Int
    <3>1. r[i] \in Letters
      BY <1>3, ElementOfSeq
    <3>2. r[i] \in 1 .. 127
      BY <1>2, <3>1
    <3> QED
      BY <3>2, CharIs, Zenon
  <2>3. r \in [1 .. Len(r) -> Int]
    BY <2>1, <2>2
  <2>4. r \in Seq(Int)
    BY <2>1, <2>3
  <2> QED
    BY <2>2, <2>4
<1>5. Nul \in Int
  BY DEF Nul
<1>6. /\ s \in Seq(Int) /\ Len(s) = Len(r) + 1 /\ s[Len(r) + 1] = Nul
      /\ \A i \in 1 .. Len(r) : s[i] = r[i]
  BY <1>1, <1>4, <1>5
<1>7. Len(r) \in Nat
  BY <1>3
<1>8. ASSUME NEW i \in 1 .. Len(s), i < Len(s) PROVE s[i] \in 1 .. 127
  <2>1. i \in 1 .. Len(r)
    BY <1>6, <1>7, <1>8
  <2> QED
    BY <1>4, <1>6, <2>1
<1> QED
  BY <1>2, <1>3, <1>6, <1>7, <1>8 DEF IsString

(* The least element of a set. *)
LEMMA LeastIs ==
  ASSUME NEW S \in SUBSET Nat, S # {}
  PROVE  Least(S) \in S /\ \A j \in S : Least(S) <= j
BY LeastNatural DEF Least

(* A number of the set below all others is the least one. *)
LEMMA LeastEq ==
  ASSUME NEW S \in SUBSET Nat, NEW m \in S, \A j \in S : m <= j
  PROVE  Least(S) = m
<1>1. Least(S) \in S /\ Least(S) <= m
  BY LeastIs
<1>2. m <= Least(S) /\ m \in Nat /\ Least(S) \in Nat
  BY <1>1
<1> QED
  BY <1>1, <1>2

(* strlen stops at the first Nul. *)
LEMMA StrlenIs ==
  ASSUME NEW b \in Seq(Int), NEW p \in 1 .. Len(b), b[p] = Nul,
         \A i \in 1 .. Len(b) : i < p => b[i] # Nul
  PROVE  strlen(b) = p - 1
<1> DEFINE S == {i \in 1 .. Len(b) : b[i] = Nul}
<1>1. S \in SUBSET Nat /\ p \in S
  OBVIOUS
<1>2. ASSUME NEW j \in S PROVE p <= j
  BY <1>2
<1> HIDE DEF S
<1>3. Least(S) = p
  BY <1>1, <1>2, LeastEq
<1> QED
  BY <1>3 DEF strlen, S

(* The length of a string. *)
LEMMA StringLen ==
  ASSUME NEW s, IsString(s)
  PROVE  strlen(s) = Len(s) - 1
<1>1. s \in Seq(Int) /\ Len(s) \in 1 .. Len(s) /\ s[Len(s)] = Nul
  BY DEF IsString
<1>2. ASSUME NEW i \in 1 .. Len(s), i < Len(s) PROVE s[i] # Nul
  <2>1. s[i] \in 1 .. 127
    BY <1>2 DEF IsString
  <2> QED
    BY <2>1, CharIs, Zenon
<1> QED
  BY <1>1, <1>2, StrlenIs

(* Where a comparison of two strings stops. *)
LEMMA StopIs ==
  ASSUME NEW s, NEW t, IsString(s), IsString(t)
  PROVE  LET p == Stop(s, t) IN
         /\ p \in 1 .. Len(s) /\ p \in 1 .. Len(t)
         /\ s[p] = Nul \/ t[p] = Nul \/ s[p] # t[p]
         /\ \A j \in 1 .. Len(s) :
              j < p => /\ j \in 1 .. Len(t) /\ s[j] # Nul /\ t[j] # Nul /\ s[j] = t[j]
<1> DEFINE S == {i \in 1 .. Len(s) : i \in DOMAIN t
                   /\ (s[i] = Nul \/ t[i] = Nul \/ s[i] # t[i])}
           p == Least(S)
           n == IF Len(s) <= Len(t) THEN Len(s) ELSE Len(t)
<1>1. /\ s \in Seq(Int) /\ t \in Seq(Int) /\ Len(s) \in Nat /\ Len(t) \in Nat
      /\ Len(s) >= 1 /\ Len(t) >= 1 /\ s[Len(s)] = Nul /\ t[Len(t)] = Nul
      /\ DOMAIN t = 1 .. Len(t)
  BY DEF IsString
<1>2. n \in S
  BY <1>1
<1>3. p \in S /\ \A j \in S : p <= j
  <2>1. S \in SUBSET Nat /\ S # {}
    BY <1>2
  <2> HIDE DEF S
  <2> QED
    BY <2>1, LeastIs
<1>4. ASSUME NEW j \in 1 .. Len(s), j < p
      PROVE  j \in 1 .. Len(t) /\ s[j] # Nul /\ t[j] # Nul /\ s[j] = t[j]
  <2>1. p \in 1 .. Len(t) /\ p \in Int
    BY <1>1, <1>3
  <2>2. j \in 1 .. Len(t)
    BY <1>1, <1>4, <2>1
  <2>3. j \notin S
    BY <1>3, <1>4, <2>1
  <2> QED
    BY <1>1, <2>2, <2>3
<1>5. /\ p \in 1 .. Len(s) /\ p \in 1 .. Len(t)
      /\ s[p] = Nul \/ t[p] = Nul \/ s[p] # t[p]
  BY <1>1, <1>3
<1>6. Stop(s, t) = p
  BY DEF Stop
<1> HIDE DEF p
<1> QED
  BY <1>4, <1>5, <1>6

(* It stops at no other place. *)
LEMMA StopEq ==
  ASSUME NEW s, NEW t, IsString(s), IsString(t),
         NEW p \in 1 .. Len(s), p \in 1 .. Len(t),
         s[p] = Nul \/ t[p] = Nul \/ s[p] # t[p],
         \A j \in 1 .. Len(s) : j < p => s[j] # Nul /\ t[j] # Nul /\ s[j] = t[j]
  PROVE  Stop(s, t) = p
<1> DEFINE q == Stop(s, t)
<1>1. /\ q \in 1 .. Len(s)
      /\ s[q] = Nul \/ t[q] = Nul \/ s[q] # t[q]
      /\ \A j \in 1 .. Len(s) :
           j < q => s[j] # Nul /\ t[j] # Nul /\ s[j] = t[j]
  BY StopIs
<1> HIDE DEF q
<1>2. ~(q < p)
  BY <1>1
<1>3. ~(p < q)
  BY <1>1
<1>4. q = p
  BY <1>1, <1>2, <1>3
<1> QED
  BY <1>4 DEF q

(* Two sequences are ordered by the first place where they differ. *)
LEMMA FirstDifference ==
  ASSUME NEW s \in Seq(Int), NEW t \in Seq(Int),
         NEW p \in 1 .. Len(s), p \in 1 .. Len(t), s[p] # t[p],
         \A j \in 1 .. Len(s) : j < p => s[j] = t[j]
  PROVE  Before(s, t) <=> s[p] - t[p] < 0
<1>1. Len(s) \in Nat /\ Len(t) \in Nat /\ s[p] \in Int /\ t[p] \in Int
  BY ElementOfSeq, LenProperties
<1>2. ASSUME s[p] < t[p] PROVE Before(s, t)
  <2>1. p <= Len(t) /\ \A j \in 1 .. p - 1 : s[j] = t[j]
    BY <1>1
  <2> QED
    BY <1>2, <2>1 DEF Before
<1>3. ASSUME Before(s, t) PROVE s[p] < t[p]
  <2>1. PICK i \in 1 .. Len(s) : /\ i <= Len(t) /\ s[i] < t[i]
                                 /\ \A j \in 1 .. i - 1 : s[j] = t[j]
    BY <1>3 DEF Before
  <2>2. i \in 1 .. Len(t) /\ s[i] \in Int /\ t[i] \in Int
    <3>1. i \in 1 .. Len(t)
      BY <1>1, <2>1
    <3> QED
      BY <3>1, ElementOfSeq
  <2>3. ~(i < p)
    BY <2>1, <2>2
  <2>4. ~(p < i)
    <3>1. p < i => p \in 1 .. i - 1
      BY <1>1
    <3> QED
      BY <2>1, <3>1
  <2>5. i = p
    BY <1>1, <2>3, <2>4
  <2> QED
    BY <2>1, <2>5
<1>4. s[p] - t[p] < 0 <=> s[p] < t[p]
  BY <1>1
<1> QED
  BY <1>2, <1>3, <1>4

(* A sequence is not before itself. *)
LEMMA NotBeforeItself ==
  ASSUME NEW s \in Seq(Int)
  PROVE  ~Before(s, s)
<1> SUFFICES ASSUME Before(s, s) PROVE FALSE
  OBVIOUS
<1>1. PICK i \in 1 .. Len(s) : s[i] < s[i]
  BY DEF Before
<1>2. s[i] \in Int
  BY ElementOfSeq
<1> QED
  BY <1>1, <1>2

(* strcmp is the lexicographic order. *)
LEMMA StrcmpExact ==
  ASSUME NEW s, NEW t, IsString(s), IsString(t)
  PROVE  /\ strcmp(s, t) < 0 <=> Before(s, t)
         /\ strcmp(s, t) = 0 <=> s = t
<1> DEFINE p == Stop(s, t)
<1>1. /\ p \in 1 .. Len(s) /\ p \in 1 .. Len(t)
      /\ s[p] = Nul \/ t[p] = Nul \/ s[p] # t[p]
      /\ \A j \in 1 .. Len(s) : j < p => s[j] = t[j]
  BY StopIs
<1>2. s \in Seq(Int) /\ t \in Seq(Int) /\ Len(s) \in Nat /\ Len(t) \in Nat
  BY DEF IsString
<1>3. strcmp(s, t) = s[p] - t[p]
  BY DEF strcmp
<1> HIDE DEF p
<1>4. s[p] \in Int /\ t[p] \in Int
  BY <1>1, <1>2, ElementOfSeq
<1>5. CASE s[p] # t[p]
  <2>1. Before(s, t) <=> s[p] - t[p] < 0
    BY <1>1, <1>2, <1>5, FirstDifference
  <2>2. s # t /\ s[p] - t[p] # 0
    BY <1>4, <1>5
  <2> QED
    BY <1>3, <2>1, <2>2
<1>6. CASE s[p] = t[p]
  <2>1. s[p] = Nul /\ t[p] = Nul
    BY <1>1, <1>6
  <2>2. ASSUME p # Len(s) PROVE FALSE
    <3>1. s[p] \in 1 .. 127
      BY <1>1, <1>2, <2>2 DEF IsString
    <3> QED
      BY <2>1, <3>1, CharIs
  <2>3. ASSUME p # Len(t) PROVE FALSE
    <3>1. t[p] \in 1 .. 127
      BY <1>1, <1>2, <2>3 DEF IsString
    <3> QED
      BY <2>1, <3>1, CharIs
  <2>4. Len(s) = Len(t) /\ p = Len(s)
    BY <2>2, <2>3
  <2>5. ASSUME NEW j \in 1 .. Len(s) PROVE s[j] = t[j]
    BY <1>1, <1>2, <1>6, <2>4
  <2>6. s = t
    BY <1>2, <2>4, <2>5, SeqEqual
  <2>7. s[p] - t[p] = 0
    BY <1>4, <1>6
  <2>8. ~Before(s, t)
    BY <1>2, <2>6, NotBeforeItself
  <2> QED
    BY <1>3, <2>6, <2>7, <2>8
<1> QED
  BY <1>5, <1>6

(* memcmp orders blocks of the same length. *)
LEMMA MemcmpExact ==
  ASSUME NEW s \in Seq(Int), NEW t \in Seq(Int), Len(s) = Len(t)
  PROVE  memcmp(s, t, Len(s)) < 0 <=> Before(s, t)
<1> DEFINE D == {i \in 1 .. Len(s) : s[i] # t[i]}
           p == Least(D)
<1>1. memcmp(s, t, Len(s)) = IF D = {} THEN 0 ELSE s[p] - t[p]
  BY DEF memcmp
<1>2. CASE D = {}
  <2>1. s = t
    BY <1>2, SeqEqual
  <2>2. ~Before(s, t)
    BY <2>1, NotBeforeItself
  <2>3. memcmp(s, t, Len(s)) = 0
    BY <1>1, <1>2
  <2> QED
    BY <2>2, <2>3
<1>3. CASE D # {}
  <2>1. p \in D /\ \A j \in D : p <= j
    <3>1. D \in SUBSET Nat
      OBVIOUS
    <3> HIDE DEF D
    <3> QED
      BY <1>3, <3>1, LeastIs
  <2>2. memcmp(s, t, Len(s)) = s[p] - t[p]
    BY <1>1, <1>3
  <2> HIDE DEF p
  <2>3. p \in 1 .. Len(s) /\ s[p] # t[p]
    BY <2>1
  <2>4. ASSUME NEW j \in 1 .. Len(s), j < p PROVE s[j] = t[j]
    <3>1. j \notin D
      BY <2>1, <2>3, <2>4
    <3> QED
      BY <3>1
  <2>5. Before(s, t) <=> s[p] - t[p] < 0
    BY <2>3, <2>4, FirstDifference
  <2> QED
    BY <2>2, <2>5
<1> QED
  BY <1>2, <1>3

(* The first n characters of a string. *)
LEMMA CutIs ==
  ASSUME NEW s, IsString(s), NEW n \in Nat
  PROVE  LET u == Cut(s, n) IN
         /\ IsString(u) /\ Len(u) = IF Len(s) <= n + 1 THEN Len(s) ELSE n + 1
         /\ \A i \in 1 .. Len(u) : i < Len(u) => u[i] = s[i]
<1> DEFINE u == Cut(s, n)
<1>1. /\ s \in Seq(Int) /\ Len(s) \in Nat /\ Len(s) >= 1 /\ s[Len(s)] = Nul
      /\ \A i \in 1 .. Len(s) : i < Len(s) => s[i] \in 1 .. 127
  BY DEF IsString
<1>2. strlen(s) = Len(s) - 1
  BY StringLen
<1>3. CASE Len(s) <= n + 1
  <2>1. u = s
    BY <1>1, <1>2, <1>3 DEF Cut
  <2> QED
    BY <1>3, <2>1
<1>4. CASE ~(Len(s) <= n + 1)
  <2> DEFINE c == SubSeq(s, 1, n)
  <2>1. u = Append(c, Nul)
    BY <1>1, <1>2, <1>4 DEF Cut
  <2>2. c \in Seq(Int) /\ Len(c) = n /\ \A i \in 1 .. n : c[i] = s[i]
    <3>1. n \in 0 .. Len(s)
      BY <1>1, <1>4
    <3> QED
      BY <1>1, <3>1
  <2> HIDE DEF c
  <2>3. /\ u \in Seq(Int) /\ Len(u) = n + 1 /\ u[n + 1] = Nul
        /\ \A i \in 1 .. n : u[i] = c[i]
    <3>1. Nul \in Int
      BY DEF Nul
    <3> HIDE DEF u
    <3> QED
      BY <2>1, <2>2, <3>1
  <2> HIDE DEF u
  <2>4. ASSUME NEW i \in 1 .. Len(u), i < Len(u)
        PROVE  u[i] = s[i] /\ u[i] \in 1 .. 127
    <3>1. i \in 1 .. n /\ i \in 1 .. Len(s) /\ i < Len(s)
      BY <1>1, <1>4, <2>3, <2>4
    <3> QED
      BY <1>1, <2>2, <2>3, <3>1
  <2>5. IsString(u)
    BY <2>3, <2>4 DEF IsString
  <2> QED
    BY <1>4, <2>3, <2>4, <2>5 DEF u
<1> QED
  BY <1>3, <1>4

(* strncmp is strcmp on the first n characters. *)
LEMMA StrncmpExact ==
  ASSUME NEW s, NEW t, IsString(s), IsString(t), NEW n \in Nat
  PROVE  LET u == Cut(s, n)
             v == Cut(t, n)
         IN /\ strncmp(s, t, n) < 0 <=> Before(u, v)
            /\ strncmp(s, t, n) = 0 <=> u = v
<1> DEFINE u == Cut(s, n)
           v == Cut(t, n)
           p == Stop(s, t)
<1>1. /\ IsString(u) /\ Len(u) = IF Len(s) <= n + 1 THEN Len(s) ELSE n + 1
      /\ \A i \in 1 .. Len(u) : i < Len(u) => u[i] = s[i]
  BY CutIs
<1>2. /\ IsString(v) /\ Len(v) = IF Len(t) <= n + 1 THEN Len(t) ELSE n + 1
      /\ \A i \in 1 .. Len(v) : i < Len(v) => v[i] = t[i]
  BY CutIs
<1>3. /\ p \in 1 .. Len(s) /\ p \in 1 .. Len(t)
      /\ s[p] = Nul \/ t[p] = Nul \/ s[p] # t[p]
      /\ \A j \in 1 .. Len(s) :
           j < p => j \in 1 .. Len(t) /\ s[j] # Nul /\ t[j] # Nul /\ s[j] = t[j]
  BY StopIs
<1>4. /\ Len(s) \in Nat /\ Len(t) \in Nat /\ s[Len(s)] = Nul /\ t[Len(t)] = Nul
      /\ u \in Seq(Int) /\ v \in Seq(Int) /\ Len(u) \in Nat /\ Len(v) \in Nat
      /\ u[Len(u)] = Nul /\ v[Len(v)] = Nul
  BY <1>1, <1>2 DEF IsString
<1>5. strncmp(s, t, n) = IF p > n THEN 0 ELSE strcmp(s, t)
  BY DEF strncmp
<1>6. strcmp(s, t) = s[p] - t[p] /\ strcmp(u, v) = u[Stop(u, v)] - v[Stop(u, v)]
  BY DEF strcmp
<1> HIDE DEF u, v, p
<1>7. CASE p > n
  <2>1. Len(u) = n + 1 /\ Len(v) = n + 1
    BY <1>1, <1>2, <1>3, <1>4, <1>7
  <2>2. ASSUME NEW j \in 1 .. Len(u) PROVE u[j] = v[j]
    <3>1. CASE j = n + 1
      BY <1>4, <2>1, <3>1
    <3>2. CASE j # n + 1
      <4>1. j < Len(u) /\ j < Len(v) /\ j \in 1 .. Len(v) /\ j < p /\ j \in 1 .. Len(s)
        BY <1>3, <1>4, <1>7, <2>1, <3>2, SMTT(30)
      <4>2. u[j] = s[j] /\ v[j] = t[j] /\ s[j] = t[j]
        BY <1>1, <1>2, <1>3, <4>1
      <4> QED
        BY <4>2
    <3> QED
      BY <3>1, <3>2
  <2>3. u = v
    BY <1>4, <2>1, <2>2, SeqEqual
  <2>4. ~Before(u, v)
    BY <1>4, <2>3, NotBeforeItself
  <2>5. strncmp(s, t, n) = 0
    BY <1>5, <1>7
  <2> QED
    BY <2>3, <2>4, <2>5 DEF u, v
<1>8. CASE ~(p > n)
  <2>1. p \in 1 .. Len(u) /\ p \in 1 .. Len(v) /\ p <= n
    BY <1>1, <1>2, <1>3, <1>4, <1>8
  <2>2. u[p] = s[p]
    <3>1. CASE p < Len(u)
      BY <1>1, <2>1, <3>1
    <3>2. CASE p = Len(u)
      <4>1. p = Len(s)
        BY <1>1, <1>4, <2>1, <3>2
      <4> QED
        BY <1>4, <3>2, <4>1
    <3> QED
      BY <1>4, <2>1, <3>1, <3>2
  <2>3. v[p] = t[p]
    <3>1. CASE p < Len(v)
      BY <1>2, <2>1, <3>1
    <3>2. CASE p = Len(v)
      <4>1. p = Len(t)
        BY <1>2, <1>4, <2>1, <3>2
      <4> QED
        BY <1>4, <3>2, <4>1
    <3> QED
      BY <1>4, <2>1, <3>1, <3>2
  <2>4. ASSUME NEW j \in 1 .. Len(u), j < p
        PROVE  u[j] # Nul /\ v[j] # Nul /\ u[j] = v[j]
    <3>0. j \in Nat /\ j >= 1 /\ p \in Nat /\ p <= Len(u) /\ p <= Len(v) /\ p <= Len(s)
      BY <1>3, <2>1
    <3>1. j < Len(u) /\ j < Len(v) /\ j \in 1 .. Len(v) /\ j \in 1 .. Len(s)
      BY <1>4, <2>4, <3>0
    <3>2. u[j] = s[j] /\ v[j] = t[j] /\ s[j] # Nul /\ t[j] # Nul /\ s[j] = t[j]
      BY <1>1, <1>2, <1>3, <2>4, <3>1
    <3> QED
      BY <3>2
  <2>5. Stop(u, v) = p
    <3>1. u[p] = Nul \/ v[p] = Nul \/ u[p] # v[p]
      BY <1>3, <2>2, <2>3
    <3> QED
      BY <1>1, <1>2, <2>1, <2>4, <3>1, StopEq
  <2>6. strncmp(s, t, n) = strcmp(u, v)
    BY <1>5, <1>6, <1>8, <2>2, <2>3, <2>5
  <2>7. /\ strcmp(u, v) < 0 <=> Before(u, v)
        /\ strcmp(u, v) = 0 <=> u = v
    BY <1>1, <1>2, StrcmpExact
  <2> QED
    BY <2>6, <2>7 DEF u, v
<1> QED
  BY <1>7, <1>8

(* What memory that starts with a string holds, read as a string. *)
LEMMA StringAtStart ==
  ASSUME NEW b \in Seq(Int), NEW u, IsString(u), Len(u) <= Len(b),
         \A i \in 1 .. Len(u) : b[i] = u[i]
  PROVE  SubSeq(b, 1, strlen(b) + 1) = u
<1>1. /\ u \in Seq(Int) /\ Len(u) \in Nat /\ Len(u) >= 1 /\ u[Len(u)] = Nul
      /\ \A i \in 1 .. Len(u) : i < Len(u) => u[i] \in 1 .. 127
  BY DEF IsString
<1>2. Len(b) \in Nat /\ Len(u) \in 1 .. Len(b) /\ Len(u) \in 1 .. Len(u)
  BY <1>1
<1>3. b[Len(u)] = Nul
  BY <1>1, <1>2
<1>4. ASSUME NEW i \in 1 .. Len(b), i < Len(u) PROVE b[i] # Nul
  <2>1. i \in 1 .. Len(u)
    BY <1>1, <1>4
  <2>2. b[i] \in 1 .. 127
    BY <1>1, <1>4, <2>1
  <2> QED
    BY <2>2, CharIs
<1>5. strlen(b) = Len(u) - 1
  BY <1>2, <1>3, <1>4, StrlenIs
<1>6. strlen(b) + 1 = Len(u)
  BY <1>1, <1>5
<1> DEFINE c == SubSeq(b, 1, Len(u))
<1>7. c \in Seq(Int) /\ Len(c) = Len(u) /\ \A i \in 1 .. Len(u) : c[i] = b[i]
  BY <1>1, <1>2
<1> HIDE DEF c
<1>8. c = u
  BY <1>1, <1>7, SeqEqual
<1> QED
  BY <1>6, <1>8 DEF c

(* A copy, over memory of any contents, is the string. *)
LEMMA CopyExact ==
  ASSUME NEW s, IsString(s), Len(s) <= MaxLen + 1, NEW old \in Letters
  PROVE  LET c == strcpy(memset([i \in 1 .. MaxLen + 1 |-> Nul], old, MaxLen + 1), s)
         IN SubSeq(c, 1, strlen(c) + 1) = s
<1> DEFINE N == MaxLen + 1
           m == memset([i \in 1 .. MaxLen + 1 |-> Nul], old, MaxLen + 1)
           c == strcpy(m, s)
<1>1. N \in Nat /\ old \in Int /\ Nul \in Int
  BY TextAssumption, CharIs DEF Nul
<1>2. m = [i \in 1 .. N |-> IF i <= N THEN old ELSE [j \in 1 .. N |-> Nul][i]]
  BY DEF memset
<1> HIDE DEF m, N
<1>3. DOMAIN m = 1 .. N /\ \A i \in 1 .. N : m[i] = old
  BY <1>1, <1>2
<1>4. strlen(s) + 1 = Len(s) /\ s \in Seq(Int) /\ Len(s) \in Nat
  BY StringLen DEF IsString
<1>5. c = [i \in 1 .. N |-> IF i <= Len(s) THEN s[i] ELSE m[i]]
  BY <1>3, <1>4 DEF strcpy, memcpy
<1> HIDE DEF c
<1>6. ASSUME NEW i \in 1 .. N PROVE (IF i <= Len(s) THEN s[i] ELSE m[i]) \in Int
  BY <1>1, <1>3, <1>4
<1>7. /\ c \in Seq(Int) /\ Len(c) = N
      /\ \A i \in 1 .. N : c[i] = IF i <= Len(s) THEN s[i] ELSE m[i]
  BY <1>1, <1>5, <1>6
<1>8. Len(s) <= Len(c) /\ \A i \in 1 .. Len(s) : c[i] = s[i]
  BY <1>1, <1>4, <1>7 DEF N
<1>9. SubSeq(c, 1, strlen(c) + 1) = s
  BY <1>7, <1>8, StringAtStart
<1> QED
  BY <1>9 DEF c, m

(* The name of a process is the name given, cut to fit. *)
LEMMA NameExact ==
  ASSUME NEW s, IsString(s), NEW old \in Letters
  PROVE  LET name == ProcessName([i \in 1 .. NameMax |-> old], s)
         IN SubSeq(name, 1, strlen(name) + 1) = Cut(s, NameMax - 1)
<1> DEFINE N == NameMax
           b == [i \in 1 .. N |-> old]
           name == ProcessName(b, s)
           u == Cut(s, N - 1)
<1>1. N \in Nat /\ N >= 1 /\ N - 1 \in Nat /\ old \in Int /\ Nul \in Int
  BY TextAssumption, CharIs DEF Nul
<1>2. strlen(s) = Len(s) - 1 /\ s \in Seq(Int) /\ Len(s) \in Nat /\ Len(s) >= 1
  BY StringLen DEF IsString
<1>3. /\ IsString(u) /\ Len(u) = IF Len(s) <= (N - 1) + 1 THEN Len(s) ELSE (N - 1) + 1
      /\ \A i \in 1 .. Len(u) : i < Len(u) => u[i] = s[i]
  BY <1>1, CutIs
<1>4. name = [i \in 1 .. N |-> IF i = N THEN Nul
                               ELSE IF i <= Len(s) - 1 THEN s[i] ELSE Nul]
  <2>1. strncpy(b, s, N - 1) = [i \in 1 .. N |-> IF i > N - 1 THEN b[i]
                                                 ELSE IF i <= Len(s) - 1 THEN s[i] ELSE Nul]
    BY <1>2 DEF strncpy
  <2>2. \A i \in 1 .. N : i > N - 1 <=> i = N
    BY <1>1
  <2> QED
    BY <1>1, <2>1, <2>2 DEF ProcessName
<1> HIDE DEF name, u, N
<1>5. ASSUME NEW i \in 1 .. N
      PROVE  (IF i = N THEN Nul ELSE IF i <= Len(s) - 1 THEN s[i] ELSE Nul) \in Int
  BY <1>1, <1>2
<1>6. /\ name \in Seq(Int) /\ Len(name) = N
      /\ \A i \in 1 .. N : name[i] = IF i = N THEN Nul
                                     ELSE IF i <= Len(s) - 1 THEN s[i] ELSE Nul
  BY <1>1, <1>4, <1>5
<1>7. Len(u) \in Nat /\ u[Len(u)] = Nul /\ Len(u) <= N /\ Len(u) <= Len(s)
  BY <1>1, <1>2, <1>3 DEF IsString
<1>8. ASSUME NEW i \in 1 .. Len(u) PROVE name[i] = u[i]
  <2>1. i \in 1 .. N
    BY <1>1, <1>7
  <2>2. CASE i < Len(u)
    <3>1. i # N /\ i <= Len(s) - 1 /\ u[i] = s[i]
      BY <1>1, <1>2, <1>3, <1>7, <2>2
    <3> QED
      BY <1>6, <2>1, <3>1
  <2>3. CASE i = Len(u)
    <3>1. i = N \/ ~(i <= Len(s) - 1)
      BY <1>1, <1>2, <1>3, <2>3
    <3> QED
      BY <1>6, <1>7, <2>1, <2>3, <3>1
  <2> QED
    BY <1>7, <2>2, <2>3
<1>9. SubSeq(name, 1, strlen(name) + 1) = u
  BY <1>3, <1>6, <1>7, <1>8, StringAtStart
<1> QED
  BY <1>9 DEF name, u, N

(* The string helpers of string.c and utills.c are exact, for strings of   *)
(* any length and names of any size: the comparisons order as the          *)
(* lexicographic order does, a copy is the string, and the name of a       *)
(* process is the name given, cut to fit and with its end.                 *)
THEOREM StringsAreExact == TextSpec => []StringsExact
<1>1. TextInit => StringsExact
  BY DEF TextInit, StringsExact
<1>2. ASSUME StringsExact, [TextNext]_text_vars PROVE StringsExact'
  <2>1. CASE CallDecimal
    BY <2>1 DEF CallDecimal, Called, StringsExact
  <2>2. CASE CallHex
    BY <2>2 DEF CallHex, Called, StringsExact
  <2>3. CASE CallPrintf
    BY <2>3 DEF CallPrintf, Called, StringsExact
  <2>4. CASE CallCompare
    <3>1. PICK s \in String, t \in String, n \in 0 .. MaxLen + 1 :
            Called("compare", [s |-> s, t |-> t, n |-> n],
                   [cmp |-> strcmp(s, t), ncmp |-> strncmp(s, t, n),
                    mem |-> IF Len(s) = Len(t) THEN memcmp(s, t, Len(s))
                                               ELSE strcmp(s, t)])
      BY <2>4 DEF CallCompare
    <3>2. /\ call' = "compare" /\ arg'.s = s /\ arg'.t = t /\ arg'.n = n
          /\ result'.cmp = strcmp(s, t) /\ result'.ncmp = strncmp(s, t, n)
          /\ result'.mem = IF Len(s) = Len(t) THEN memcmp(s, t, Len(s))
                                              ELSE strcmp(s, t)
      BY <3>1 DEF Called
    <3>3. IsString(s) /\ IsString(t) /\ n \in Nat
      BY TextAssumption, StringIs
    <3>4. s \in Seq(Int) /\ t \in Seq(Int)
      BY <3>3 DEF IsString
    <3>5. strcmp(s, t) < 0 <=> Before(s, t)
      BY <3>3, StrcmpExact
    <3>6. strcmp(s, t) = 0 <=> s = t
      BY <3>3, StrcmpExact
    <3>7. strncmp(s, t, n) < 0 <=> Before(Cut(s, n), Cut(t, n))
      BY <3>3, StrncmpExact
    <3>8. strncmp(s, t, n) = 0 <=> Cut(s, n) = Cut(t, n)
      BY <3>3, StrncmpExact
    <3>9. result'.mem < 0 <=> Before(s, t)
      BY <3>2, <3>4, <3>5, MemcmpExact
    <3>10. Before(s, t) \in BOOLEAN /\ Before(Cut(s, n), Cut(t, n)) \in BOOLEAN
      BY DEF Before
    <3>11. (result'.cmp < 0) = Before(s, t) /\ (result'.mem < 0) = Before(s, t)
      BY <3>2, <3>5, <3>9, <3>10
    <3>12. (result'.ncmp < 0) = Before(Cut(s, n), Cut(t, n))
      BY <3>2, <3>7, <3>10
    <3>13. (result'.cmp = 0) = (s = t) /\ (result'.ncmp = 0) = (Cut(s, n) = Cut(t, n))
      BY <3>2, <3>6, <3>8
    <3> QED
      BY <3>2, <3>11, <3>12, <3>13 DEF StringsExact
  <2>5. CASE CallCopy
    <3>1. PICK s \in String, old \in Letters :
            Called("copy", s,
                   [name |-> ProcessName([i \in 1 .. NameMax |-> old], s),
                    copy |-> strcpy(memset([i \in 1 .. MaxLen + 1 |-> Nul], old, MaxLen + 1), s)])
      BY <2>5 DEF CallCopy
    <3>2. /\ call' = "copy" /\ arg' = s
          /\ result'.name = ProcessName([i \in 1 .. NameMax |-> old], s)
          /\ result'.copy = strcpy(memset([i \in 1 .. MaxLen + 1 |-> Nul], old, MaxLen + 1), s)
      BY <3>1 DEF Called
    <3>3. IsString(s) /\ Len(s) <= MaxLen + 1
      BY StringIs
    <3>4. SubSeq(result'.name, 1, strlen(result'.name) + 1) = Cut(s, NameMax - 1)
      BY <3>2, <3>3, NameExact
    <3>5. SubSeq(result'.copy, 1, strlen(result'.copy) + 1) = s
      BY <3>2, <3>3, CopyExact
    <3> QED
      BY <3>2, <3>4, <3>5 DEF StringsExact
  <2>6. CASE Return
    BY <2>6 DEF Return, StringsExact
  <2>7. CASE UNCHANGED text_vars
    BY <1>2, <2>7 DEF text_vars, StringsExact
  <2> QED
    BY <1>2, <2>1, <2>2, <2>3, <2>4, <2>5, <2>6, <2>7 DEF TextNext
<1> QED
  BY <1>1, <1>2, PTL DEF TextSpec
=============================================================================
