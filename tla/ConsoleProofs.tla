--------------------------- MODULE ConsoleProofs ---------------------------
(* Proofs about drivers/keyboard.c and the reading loop of shell.c for     *)
(* every size of the ring buffer and of the input array: the inductive     *)
(* invariant IInv, and the refinement of the queue of characters.          *)
EXTENDS Console, SequenceTheorems, TLAPS

-----------------------------------------------------------------------------
(* While the buffer is not full and Backspace keeps out of the reader, the *)
(* character being read stays in the buffer until the tail moves.          *)
ReadStands ==
  ~BackspaceInGet /\ MaxTypeAhead < BUFFER_SIZE =>
    /\ pc \in {"load", "advance"} => ~is_keyboard_buffer_Empty
    /\ pc = "advance" => loaded = keyboard_buffer[buffer_tail]

(* The inductive invariant. *)
IInv == TypeOK /\ InputFits /\ ReadStands

-----------------------------------------------------------------------------
(* The arithmetic of the uint8_t indices: at most one wrap-around, upwards *)
(* or downwards.                                                           *)
LEMMA WrapNone ==
  ASSUME NEW B \in Nat \ {0}, NEW x \in 0 .. B - 1 PROVE x % B = x
  OBVIOUS

LEMMA WrapUp ==
  ASSUME NEW B \in Nat \ {0}, NEW x \in B .. 2 * B - 1 PROVE x % B = x - B
  OBVIOUS

LEMMA WrapDown ==
  ASSUME NEW B \in Nat \ {0}, NEW x \in -B .. -1 PROVE x % B = x + B
  OBVIOUS

(* The two moves of an index. *)
LEMMA IndexMoves ==
  ASSUME NEW i \in Index
  PROVE  /\ (i + 1) % BUFFER_SIZE = IF i + 1 = BUFFER_SIZE THEN 0 ELSE i + 1
         /\ (i - 1) % BUFFER_SIZE = IF i = 0 THEN BUFFER_SIZE - 1 ELSE i - 1
         /\ (i + 1) % BUFFER_SIZE \in Index
         /\ (i - 1) % BUFFER_SIZE \in Index
<1>1. BUFFER_SIZE \in Nat \ {0} /\ i \in 0 .. BUFFER_SIZE - 1
  BY ConsoleAssumption DEF Index
<1>2. (i + 1) % BUFFER_SIZE = IF i + 1 = BUFFER_SIZE THEN 0 ELSE i + 1
  <2>1. CASE i + 1 = BUFFER_SIZE
    <3>1. i + 1 \in BUFFER_SIZE .. 2 * BUFFER_SIZE - 1
      BY <1>1, <2>1
    <3>2. (i + 1) % BUFFER_SIZE = (i + 1) - BUFFER_SIZE
      BY <1>1, <3>1, WrapUp, Zenon
    <3> QED
      BY <1>1, <2>1, <3>2
  <2>2. CASE i + 1 # BUFFER_SIZE
    <3>1. i + 1 \in 0 .. BUFFER_SIZE - 1
      BY <1>1, <2>2
    <3> QED
      BY <1>1, <2>2, <3>1, WrapNone, Zenon
  <2> QED
    BY <2>1, <2>2
<1>3. (i - 1) % BUFFER_SIZE = IF i = 0 THEN BUFFER_SIZE - 1 ELSE i - 1
  <2>1. CASE i = 0
    <3>1. i - 1 \in -BUFFER_SIZE .. -1
      BY <1>1, <2>1
    <3>2. (i - 1) % BUFFER_SIZE = (i - 1) + BUFFER_SIZE
      BY <1>1, <3>1, WrapDown, Zenon
    <3> QED
      BY <1>1, <2>1, <3>2
  <2>2. CASE i # 0
    <3>1. i - 1 \in 0 .. BUFFER_SIZE - 1
      BY <1>1, <2>2
    <3> QED
      BY <1>1, <2>2, <3>1, WrapNone, Zenon
  <2> QED
    BY <2>1, <2>2
<1> QED
  BY <1>1, <1>2, <1>3 DEF Index

(* The number of unread characters. *)
LEMMA UnreadIs ==
  ASSUME NEW h \in Index, NEW t \in Index
  PROVE  /\ (h - t) % BUFFER_SIZE = IF h >= t THEN h - t
                                              ELSE h - t + BUFFER_SIZE
         /\ (h - t) % BUFFER_SIZE \in Index
<1>1. /\ BUFFER_SIZE \in Nat \ {0}
      /\ h \in 0 .. BUFFER_SIZE - 1 /\ t \in 0 .. BUFFER_SIZE - 1
  BY ConsoleAssumption DEF Index
<1>2. CASE h >= t
  <2>1. h - t \in 0 .. BUFFER_SIZE - 1
    BY <1>1, <1>2
  <2>2. (h - t) % BUFFER_SIZE = h - t
    BY <1>1, <2>1, WrapNone, Zenon
  <2> QED
    BY <1>1, <1>2, <2>1, <2>2 DEF Index
<1>3. CASE h < t
  <2>1. h - t \in -BUFFER_SIZE .. -1
    BY <1>1, <1>3
  <2>2. (h - t) % BUFFER_SIZE = (h - t) + BUFFER_SIZE
    BY <1>1, <2>1, WrapDown, Zenon
  <2> QED
    BY <1>1, <1>3, <2>1, <2>2 DEF Index
<1> QED
  BY <1>1, <1>2, <1>3

(* The place of the character k places behind the oldest one. *)
LEMMA PlaceIs ==
  ASSUME NEW t \in Index, NEW k \in Index
  PROVE  /\ (t + k) % BUFFER_SIZE = IF t + k < BUFFER_SIZE
                                      THEN t + k ELSE t + k - BUFFER_SIZE
         /\ (t + k) % BUFFER_SIZE \in Index
<1>1. /\ BUFFER_SIZE \in Nat \ {0}
      /\ k \in 0 .. BUFFER_SIZE - 1 /\ t \in 0 .. BUFFER_SIZE - 1
  BY ConsoleAssumption DEF Index
<1>2. CASE t + k < BUFFER_SIZE
  <2>1. t + k \in 0 .. BUFFER_SIZE - 1
    BY <1>1, <1>2
  <2>2. (t + k) % BUFFER_SIZE = t + k
    BY <1>1, <2>1, WrapNone, Zenon
  <2> QED
    BY <1>1, <1>2, <2>1, <2>2 DEF Index
<1>3. CASE t + k >= BUFFER_SIZE
  <2>1. t + k \in BUFFER_SIZE .. 2 * BUFFER_SIZE - 1
    BY <1>1, <1>3
  <2>2. (t + k) % BUFFER_SIZE = (t + k) - BUFFER_SIZE
    BY <1>1, <2>1, WrapUp, Zenon
  <2> QED
    BY <1>1, <1>3, <2>1, <2>2 DEF Index
<1> QED
  BY <1>1, <1>2, <1>3

-----------------------------------------------------------------------------
(* The character of every key. *)
LEMMA CharOfKey ==
  ASSUME NEW key \in Keys, key \notin {"Shift", "CapsLock", "Backspace"}
  PROVE  /\ scancode_to_ascii(key) \in Char
         /\ shift_ascii(scancode_to_ascii(key)) \in Char
<1>1. key \in {"a", "b", "q", "Enter", "Ctrl"}
  BY ConsoleAssumption
<1>2. scancode_to_ascii(key) \in {"a", "b", "q", NL, NUL}
  BY <1>1 DEF scancode_to_ascii, NL, NUL
<1>3. scancode_to_ascii(key) \in Char
  BY <1>2 DEF Char
<1>4. \A ch \in Char : shift_ascii(ch) \in Char
  BY DEF shift_ascii, Char, NL, NUL, BS
<1> QED
  BY <1>3, <1>4

(* The initial states satisfy the invariant. *)
LEMMA InitIInv == Init => IInv
<1> SUFFICES ASSUME Init PROVE IInv
  OBVIOUS
<1>1. NUL \in Char /\ 0 \in Index
  BY ConsoleAssumption DEF Char, Index
<1>2. input \in Seq(Char) /\ Len(input) = 0
  BY DEF Init
<1>3. TypeOK
  BY <1>1, <1>2 DEF Init, TypeOK
<1>4. InputFits /\ ReadStands
  BY <1>2, ConsoleAssumption DEF Init, InputFits, ReadStands
<1> QED
  BY <1>3, <1>4 DEF IInv

(* A character typed while a read is under way goes to another place than  *)
(* the one being read.                                                     *)
LEMMA PutLeavesTail ==
  ASSUME TypeOK, Unread < MaxTypeAhead, MaxTypeAhead < BUFFER_SIZE
  PROVE  (buffer_head + 1) % BUFFER_SIZE # buffer_tail
<1>1. /\ BUFFER_SIZE \in Nat \ {0} /\ MaxTypeAhead \in Nat
      /\ buffer_head \in 0 .. BUFFER_SIZE - 1
      /\ buffer_tail \in 0 .. BUFFER_SIZE - 1
  BY ConsoleAssumption DEF TypeOK, Index
<1>2. Unread = IF buffer_head >= buffer_tail THEN buffer_head - buffer_tail
                                ELSE buffer_head - buffer_tail + BUFFER_SIZE
  BY UnreadIs DEF Unread, TypeOK
<1>3. (buffer_head + 1) % BUFFER_SIZE
        = IF buffer_head + 1 = BUFFER_SIZE THEN 0 ELSE buffer_head + 1
  BY IndexMoves DEF TypeOK
<1> QED
  BY <1>1, <1>2, <1>3

(* A key that gives a character keeps the invariant. *)
LEMMA PressCharKeeps ==
  ASSUME IInv, NEW key \in Keys, PressChar(key)
  PROVE  IInv'
<1> DEFINE ascii == scancode_to_ascii(key)
           ch == IF shift_pressed \/ caps_lock THEN shift_ascii(ascii) ELSE ascii
<1>1. /\ key \notin {"Shift", "CapsLock", "Backspace"}
      /\ Unread < MaxTypeAhead
      /\ keyboard_buffer' = [keyboard_buffer EXCEPT ![buffer_head] = ch]
      /\ buffer_head' = (buffer_head + 1) % BUFFER_SIZE
      /\ typed' = ch
      /\ UNCHANGED <<shift_pressed, caps_lock, buffer_tail, pc, loaded, c, input>>
  BY DEF PressChar, keyboard_buffer_put
<1>2. ch \in Char
  BY <1>1, CharOfKey
<1> HIDE DEF ch
<1>3. TypeOK'
  <2>1. buffer_head' \in Index
    BY <1>1, IndexMoves DEF IInv, TypeOK
  <2> QED
    BY <1>1, <1>2, <2>1 DEF IInv, TypeOK
<1>4. InputFits'
  BY <1>1 DEF IInv, InputFits
<1>5. ReadStands'
  <2> SUFFICES ASSUME ~BackspaceInGet, MaxTypeAhead < BUFFER_SIZE,
                      pc \in {"load", "advance"}
               PROVE  /\ ~is_keyboard_buffer_Empty'
                      /\ pc = "advance" => loaded = keyboard_buffer'[buffer_tail]
    BY <1>1 DEF ReadStands
  <2>1. ~is_keyboard_buffer_Empty'
    BY <1>1, PutLeavesTail DEF is_keyboard_buffer_Empty, IInv
  <2>2. buffer_head # buffer_tail
    BY DEF IInv, ReadStands, is_keyboard_buffer_Empty
  <2>3. keyboard_buffer'[buffer_tail] = keyboard_buffer[buffer_tail]
    BY <1>1, <2>2 DEF IInv, TypeOK
  <2> QED
    BY <2>1, <2>3 DEF IInv, ReadStands
<1> QED
  BY <1>3, <1>4, <1>5 DEF IInv

(* Every step keeps the invariant. *)
LEMMA NextIInv == IInv /\ [Next]_vars => IInv'
<1> SUFFICES ASSUME IInv, [Next]_vars PROVE IInv'
  OBVIOUS
<1> USE DEF IInv
<1>1. ASSUME NEW key \in Keys, PressChar(key) PROVE IInv'
  BY <1>1, PressCharKeeps
<1>2. CASE PressBackspace
  <2>1. buffer_head' \in Index
    BY <1>2, IndexMoves DEF PressBackspace, TypeOK
  <2>2. TypeOK' /\ InputFits'
    BY <1>2, <2>1 DEF PressBackspace, TypeOK, InputFits
  <2>3. ReadStands'
    BY <1>2 DEF PressBackspace, ReadStands
  <2> QED
    BY <2>2, <2>3
<1>3. ASSUME NEW key \in Keys, PressModifier(key) PROVE IInv'
  BY <1>3 DEF PressModifier, TypeOK, InputFits, ReadStands,
              is_keyboard_buffer_Empty
<1>4. CASE ReleaseShift
  BY <1>4 DEF ReleaseShift, TypeOK, InputFits, ReadStands,
              is_keyboard_buffer_Empty
<1>5. CASE GetPoll
  BY <1>5 DEF GetPoll, driver, TypeOK, InputFits, ReadStands,
              is_keyboard_buffer_Empty
<1>6. CASE GetLoad
  BY <1>6 DEF GetLoad, driver, TypeOK, InputFits, ReadStands,
              is_keyboard_buffer_Empty
<1>7. CASE GetAdvance
  <2>1. buffer_tail' \in Index
    BY <1>7, IndexMoves DEF GetAdvance, TailAfterGet, TypeOK
  <2> QED
    BY <1>7, <2>1 DEF GetAdvance, driver, TypeOK, InputFits, ReadStands
<1>8. CASE ShellHandle
  <2>1. input' \in Seq(Char) /\ Len(input') < MAX_INPUT_LENGTH
    <3>0. input \in Seq(Char) /\ Len(input) < MAX_INPUT_LENGTH /\ c \in Char
          /\ MAX_INPUT_LENGTH \in Nat
      BY ConsoleAssumption DEF TypeOK, InputFits
    <3>1. CASE input' = input
      BY <3>0, <3>1
    <3>2. CASE input # <<>> /\ input' = SubSeq(input, 1, Len(input) - 1)
      BY <3>0, <3>2
    <3>3. CASE HasRoom /\ input' = Append(input, c)
      BY <3>0, <3>3 DEF HasRoom
    <3> QED
      BY <1>8, <3>1, <3>2, <3>3 DEF ShellHandle
  <2> QED
    BY <1>8, <2>1 DEF ShellHandle, driver, TypeOK, InputFits, ReadStands
<1>9. CASE ShellExecute
  <2>1. input' \in Seq(Char) /\ Len(input') < MAX_INPUT_LENGTH
    BY <1>9, ConsoleAssumption DEF ShellExecute, TypeOK, InputFits
  <2> QED
    BY <1>9, <2>1 DEF ShellExecute, driver, TypeOK, InputFits, ReadStands
<1>10. CASE UNCHANGED vars
  BY <1>10 DEF vars, driver, TypeOK, InputFits, ReadStands,
               is_keyboard_buffer_Empty
<1> QED
  BY <1>1, <1>2, <1>3, <1>4, <1>5, <1>6, <1>7, <1>8, <1>9, <1>10
     DEF Next, handle_scancode, shell, ShellHalted

(* What the handler and the reader keep at every step: see IInv.           *)
THEOREM InductiveInvariant == Spec => []IInv
<1>1. IInv /\ [Next]_vars => IInv'
  BY NextIInv
<1> QED
  BY <1>1, InitIInv, PTL DEF Spec

(* Whatever is typed and whenever the interrupts come, the terminating NUL *)
(* of the shell's line lies inside its array of any size.                  *)
THEOREM LineFits == Spec => []InputFits
<1>1. IInv => InputFits
  BY DEF IInv
<1> QED
  BY <1>1, InductiveInvariant, PTL

-----------------------------------------------------------------------------
(* Append and Tail, element by element. *)
LEMMA AppendIs ==
  ASSUME NEW s \in Seq(Char), NEW e \in Char
  PROVE  Append(s, e) = [i \in 1 .. Len(s) + 1 |->
                           IF i = Len(s) + 1 THEN e ELSE s[i]]
<1> DEFINE t == [i \in 1 .. Len(s) + 1 |-> IF i = Len(s) + 1 THEN e ELSE s[i]]
<1>1. Len(s) \in Nat /\ \A i \in 1 .. Len(s) : s[i] \in Char
  OBVIOUS
<1>2. t \in [1 .. Len(s) + 1 -> Char]
  BY <1>1
<1>3. t \in Seq(Char) /\ Len(t) = Len(s) + 1
  BY <1>1, <1>2
<1>4. /\ Append(s, e) \in Seq(Char) /\ Len(Append(s, e)) = Len(s) + 1
      /\ \A i \in 1 .. Len(s) : Append(s, e)[i] = s[i]
      /\ Append(s, e)[Len(s) + 1] = e
  BY AppendProperties
<1>5. \A i \in 1 .. Len(s) + 1 : Append(s, e)[i] = t[i]
  BY <1>1, <1>4
<1> HIDE DEF t
<1>6. Append(s, e) = t
  BY <1>3, <1>4, <1>5, SeqEqual
<1> QED
  BY <1>6 DEF t

LEMMA TailIs ==
  ASSUME NEW s \in Seq(Char), s # <<>>
  PROVE  Tail(s) = [i \in 1 .. Len(s) - 1 |-> s[i + 1]]
<1> DEFINE t == [i \in 1 .. Len(s) - 1 |-> s[i + 1]]
<1>1. Len(s) \in Nat \ {0} /\ \A i \in 1 .. Len(s) : s[i] \in Char
  OBVIOUS
<1>2. \A i \in 1 .. Len(s) - 1 : i + 1 \in 1 .. Len(s)
  BY <1>1
<1>3. t \in [1 .. Len(s) - 1 -> Char]
  BY <1>1, <1>2
<1>4. t \in Seq(Char) /\ Len(t) = Len(s) - 1
  BY <1>1, <1>3
<1>5. /\ Tail(s) \in Seq(Char) /\ Len(Tail(s)) = Len(s) - 1
      /\ \A i \in 1 .. Len(Tail(s)) : Tail(s)[i] = s[i + 1]
  BY HeadTailProperties
<1>6. \A i \in 1 .. Len(Tail(s)) : Tail(s)[i] = t[i]
  BY <1>5
<1> HIDE DEF t
<1>7. Tail(s) = t
  BY <1>4, <1>5, <1>6, SeqEqual
<1> QED
  BY <1>7 DEF t

(* The contents of the ring are a sequence of characters. *)
LEMMA PendingType ==
  ASSUME TypeOK
  PROVE  /\ Unread \in Index
         /\ Pending \in Seq(Char) /\ Len(Pending) = Unread
<1>1. BUFFER_SIZE \in Nat \ {0}
  BY ConsoleAssumption
<1>2. Unread \in Index
  BY UnreadIs DEF Unread, TypeOK
<1>3. ASSUME NEW i \in 1 .. Unread
      PROVE  keyboard_buffer[(buffer_tail + i - 1) % BUFFER_SIZE] \in Char
  <2>1. i - 1 \in Index
    BY <1>1, <1>2 DEF Index
  <2>2. (buffer_tail + (i - 1)) % BUFFER_SIZE \in Index
    BY <2>1, PlaceIs DEF TypeOK
  <2>3. buffer_tail + (i - 1) = buffer_tail + i - 1
    BY <1>1, <1>2 DEF TypeOK, Index
  <2> QED
    BY <2>2, <2>3 DEF TypeOK
<1>4. Pending \in [1 .. Unread -> Char]
  BY <1>3 DEF Pending
<1>5. Unread \in Nat
  BY <1>1, <1>2 DEF Index
<1> QED
  BY <1>2, <1>4, <1>5

(* The place of each unread character, and that of the next one. *)
LEMMA Places ==
  ASSUME TypeOK, NEW i \in 1 .. Unread + 1, Unread + 1 < BUFFER_SIZE
  PROVE  LET j == (buffer_tail + i - 1) % BUFFER_SIZE IN
         /\ j \in Index
         /\ (j = buffer_head) <=> (i = Unread + 1)
<1>1. /\ BUFFER_SIZE \in Nat \ {0}
      /\ buffer_head \in 0 .. BUFFER_SIZE - 1
      /\ buffer_tail \in 0 .. BUFFER_SIZE - 1
  BY ConsoleAssumption DEF TypeOK, Index
<1>2. Unread = IF buffer_head >= buffer_tail THEN buffer_head - buffer_tail
                                ELSE buffer_head - buffer_tail + BUFFER_SIZE
  BY UnreadIs DEF Unread, TypeOK
<1>3. i \in Int /\ i - 1 \in Index /\ buffer_tail + (i - 1) = buffer_tail + i - 1
  BY <1>1, <1>2 DEF Index
<1>4. /\ (buffer_tail + (i - 1)) % BUFFER_SIZE
           = IF buffer_tail + (i - 1) < BUFFER_SIZE
               THEN buffer_tail + (i - 1)
               ELSE buffer_tail + (i - 1) - BUFFER_SIZE
      /\ (buffer_tail + (i - 1)) % BUFFER_SIZE \in Index
  BY <1>3, PlaceIs DEF TypeOK
<1> QED
  BY <1>1, <1>2, <1>3, <1>4

(* A step that leaves the buffer and its indices alone leaves its contents. *)
LEMMA SameContents ==
  ASSUME UNCHANGED <<keyboard_buffer, buffer_head, buffer_tail>>
  PROVE  Pending' = Pending
  BY DEF Pending, Unread

(* A key that gives a character appends it. *)
LEMMA PressCharPuts ==
  ASSUME IInv, MaxTypeAhead < BUFFER_SIZE, NEW key \in Keys, PressChar(key)
  PROVE  CQ!Put
<1> DEFINE ascii == scancode_to_ascii(key)
           ch == IF shift_pressed \/ caps_lock THEN shift_ascii(ascii) ELSE ascii
<1>1. /\ key \notin {"Shift", "CapsLock", "Backspace"}
      /\ Unread < MaxTypeAhead
      /\ keyboard_buffer' = [keyboard_buffer EXCEPT ![buffer_head] = ch]
      /\ buffer_head' = (buffer_head + 1) % BUFFER_SIZE
      /\ typed' = ch
      /\ UNCHANGED <<buffer_tail, c>>
  BY DEF PressChar, keyboard_buffer_put
<1>2. ch \in Char
  BY <1>1, CharOfKey
<1> HIDE DEF ch
<1>3. /\ TypeOK /\ BUFFER_SIZE \in Nat \ {0} /\ MaxTypeAhead \in Nat
      /\ buffer_head \in 0 .. BUFFER_SIZE - 1
      /\ buffer_tail \in 0 .. BUFFER_SIZE - 1
  BY ConsoleAssumption DEF IInv, TypeOK, Index
<1>4. Unread = IF buffer_head >= buffer_tail THEN buffer_head - buffer_tail
                                ELSE buffer_head - buffer_tail + BUFFER_SIZE
  BY UnreadIs DEF Unread, IInv, TypeOK
<1>5. Unread + 1 < BUFFER_SIZE
  BY <1>1, <1>3, <1>4
<1>6. Unread' = Unread + 1
  <2>1. buffer_head' \in Index /\ buffer_tail \in Index
    BY <1>1, IndexMoves DEF IInv, TypeOK
  <2>2. Unread' = IF buffer_head' >= buffer_tail THEN buffer_head' - buffer_tail
                                ELSE buffer_head' - buffer_tail + BUFFER_SIZE
    BY <1>1, <2>1, UnreadIs DEF Unread
  <2>3. buffer_head' = IF buffer_head + 1 = BUFFER_SIZE THEN 0 ELSE buffer_head + 1
    BY <1>1, IndexMoves DEF IInv, TypeOK
  <2> QED
    BY <1>3, <1>4, <1>5, <2>2, <2>3
<1>7. Pending' = [i \in 1 .. Unread + 1 |->
                    keyboard_buffer'[(buffer_tail + i - 1) % BUFFER_SIZE]]
  BY <1>1, <1>6 DEF Pending
<1>8. ASSUME NEW i \in 1 .. Unread + 1
      PROVE  keyboard_buffer'[(buffer_tail + i - 1) % BUFFER_SIZE]
               = IF i = Unread + 1 THEN ch ELSE Pending[i]
  <2> DEFINE j == (buffer_tail + i - 1) % BUFFER_SIZE
  <2>1. j \in Index /\ ((j = buffer_head) <=> (i = Unread + 1))
    BY <1>3, <1>5, Places
  <2>2. i # Unread + 1 => Pending[i] = keyboard_buffer[j]
    <3>1. i # Unread + 1 => i \in 1 .. Unread
      BY <1>3, <1>4
    <3> QED
      BY <3>1 DEF Pending
  <2>3. keyboard_buffer'[j] = IF j = buffer_head THEN ch ELSE keyboard_buffer[j]
    BY <1>1, <1>3, <2>1 DEF TypeOK
  <2> HIDE DEF j
  <2>4. keyboard_buffer'[j] = IF i = Unread + 1 THEN ch ELSE Pending[i]
    BY <2>1, <2>2, <2>3
  <2> QED
    BY <2>4 DEF j
<1>9. Pending' = Append(Pending, ch)
  <2>1. Pending \in Seq(Char) /\ Len(Pending) = Unread
    BY <1>3, PendingType
  <2>2. Append(Pending, ch) = [i \in 1 .. Unread + 1 |->
                                 IF i = Unread + 1 THEN ch ELSE Pending[i]]
    BY <1>2, <2>1, AppendIs
  <2> QED
    BY <1>7, <1>8, <2>2
<1> QED
  BY <1>1, <1>2, <1>9 DEF CQ!Put

(* Backspace takes the last one back. *)
LEMMA BackspaceErases ==
  ASSUME IInv, PressBackspace
  PROVE  CQ!Erase
<1>1. /\ buffer_head # buffer_tail
      /\ buffer_head' = (buffer_head - 1) % BUFFER_SIZE
      /\ UNCHANGED <<keyboard_buffer, buffer_tail, typed, c>>
  BY DEF PressBackspace, is_keyboard_buffer_Empty
<1>2. /\ TypeOK /\ BUFFER_SIZE \in Nat \ {0}
      /\ buffer_head \in 0 .. BUFFER_SIZE - 1
      /\ buffer_tail \in 0 .. BUFFER_SIZE - 1
  BY ConsoleAssumption DEF IInv, TypeOK, Index
<1>3. Unread = IF buffer_head >= buffer_tail THEN buffer_head - buffer_tail
                                ELSE buffer_head - buffer_tail + BUFFER_SIZE
  BY UnreadIs DEF Unread, IInv, TypeOK
<1>4. Unread' = Unread - 1 /\ Unread \in Nat \ {0}
  <2>1. buffer_head' \in Index /\ buffer_tail \in Index
    BY <1>1, IndexMoves DEF IInv, TypeOK
  <2>2. Unread' = IF buffer_head' >= buffer_tail THEN buffer_head' - buffer_tail
                                ELSE buffer_head' - buffer_tail + BUFFER_SIZE
    BY <1>1, <2>1, UnreadIs DEF Unread
  <2>3. buffer_head' = IF buffer_head = 0 THEN BUFFER_SIZE - 1 ELSE buffer_head - 1
    BY <1>1, IndexMoves DEF IInv, TypeOK
  <2> QED
    BY <1>1, <1>2, <1>3, <2>2, <2>3
<1>5. Pending \in Seq(Char) /\ Len(Pending) = Unread
  BY <1>2, PendingType
<1>6. Pending' = [i \in 1 .. Unread - 1 |-> Pending[i]]
  <2>1. Pending' = [i \in 1 .. Unread - 1 |->
                      keyboard_buffer[(buffer_tail + i - 1) % BUFFER_SIZE]]
    BY <1>1, <1>4 DEF Pending
  <2>2. \A i \in 1 .. Unread - 1 :
          Pending[i] = keyboard_buffer[(buffer_tail + i - 1) % BUFFER_SIZE]
    <3>1. \A i \in 1 .. Unread - 1 : i \in 1 .. Unread
      BY <1>4
    <3> QED
      BY <3>1 DEF Pending
  <2> QED
    BY <2>1, <2>2
<1>7. SubSeq(Pending, 1, Len(Pending) - 1) = [i \in 1 .. Unread - 1 |-> Pending[i]]
  BY <1>4, <1>5
<1>8. Pending # <<>>
  BY <1>4, <1>5
<1> QED
  BY <1>1, <1>6, <1>7, <1>8 DEF CQ!Erase

(* A read returns the oldest one and takes it out. *)
LEMMA AdvanceGets ==
  ASSUME IInv, ~BackspaceInGet, MaxTypeAhead < BUFFER_SIZE, GetAdvance
  PROVE  CQ!Get
<1>1. /\ buffer_head # buffer_tail
      /\ c' = keyboard_buffer[buffer_tail]
      /\ buffer_tail' = (buffer_tail + 1) % BUFFER_SIZE
      /\ UNCHANGED <<keyboard_buffer, buffer_head, typed>>
  BY DEF GetAdvance, TailAfterGet, driver, IInv, ReadStands,
         is_keyboard_buffer_Empty
<1>2. /\ TypeOK /\ BUFFER_SIZE \in Nat \ {0}
      /\ buffer_head \in 0 .. BUFFER_SIZE - 1
      /\ buffer_tail \in 0 .. BUFFER_SIZE - 1
  BY ConsoleAssumption DEF IInv, TypeOK, Index
<1>3. Unread = IF buffer_head >= buffer_tail THEN buffer_head - buffer_tail
                                ELSE buffer_head - buffer_tail + BUFFER_SIZE
  BY UnreadIs DEF Unread, IInv, TypeOK
<1>4. buffer_tail' = IF buffer_tail + 1 = BUFFER_SIZE THEN 0 ELSE buffer_tail + 1
  BY <1>1, IndexMoves DEF IInv, TypeOK
<1>5. buffer_tail' \in Index /\ buffer_head \in Index
  BY <1>1, IndexMoves DEF IInv, TypeOK
<1>6. Unread' = Unread - 1 /\ Unread \in Nat \ {0} /\ Unread < BUFFER_SIZE
  <2>1. Unread' = IF buffer_head >= buffer_tail' THEN buffer_head - buffer_tail'
                                ELSE buffer_head - buffer_tail' + BUFFER_SIZE
    BY <1>1, <1>5, UnreadIs DEF Unread
  <2> QED
    BY <1>1, <1>2, <1>3, <1>4, <2>1
<1>7. Pending \in Seq(Char) /\ Len(Pending) = Unread
  BY <1>2, PendingType
<1>8. Pending' = [i \in 1 .. Unread - 1 |->
                    keyboard_buffer[(buffer_tail' + i - 1) % BUFFER_SIZE]]
  BY <1>1, <1>6 DEF Pending
<1>9. ASSUME NEW i \in 1 .. Unread - 1
      PROVE  keyboard_buffer[(buffer_tail' + i - 1) % BUFFER_SIZE] = Pending[i + 1]
  <2>1. /\ i + 1 \in 1 .. Unread /\ i \in Index /\ i - 1 \in Index
        /\ buffer_tail' + (i - 1) = buffer_tail' + i - 1
        /\ buffer_tail + i = buffer_tail + (i + 1) - 1
    BY <1>2, <1>4, <1>6 DEF Index
  <2>2. (buffer_tail' + (i - 1)) % BUFFER_SIZE
          = IF buffer_tail' + (i - 1) < BUFFER_SIZE
              THEN buffer_tail' + (i - 1)
              ELSE buffer_tail' + (i - 1) - BUFFER_SIZE
    BY <1>5, <2>1, PlaceIs
  <2>3. (buffer_tail + i) % BUFFER_SIZE
          = IF buffer_tail + i < BUFFER_SIZE
              THEN buffer_tail + i ELSE buffer_tail + i - BUFFER_SIZE
    BY <2>1, PlaceIs DEF IInv, TypeOK
  <2>4. (buffer_tail' + (i - 1)) % BUFFER_SIZE = (buffer_tail + i) % BUFFER_SIZE
    BY <1>2, <1>4, <1>6, <2>2, <2>3
  <2>5. Pending[i + 1] = keyboard_buffer[(buffer_tail + (i + 1) - 1) % BUFFER_SIZE]
    BY <2>1 DEF Pending
  <2> QED
    BY <2>1, <2>4, <2>5
<1>10. Pending # <<>>
  BY <1>6, <1>7
<1>11. Tail(Pending) = [i \in 1 .. Unread - 1 |-> Pending[i + 1]]
  BY <1>7, <1>10, TailIs
<1>12. Head(Pending) = keyboard_buffer[buffer_tail]
  <2>1. buffer_tail + 1 - 1 = buffer_tail
    BY <1>2
  <2>2. buffer_tail % BUFFER_SIZE = buffer_tail
    BY <1>2, WrapNone
  <2>3. Pending[1] = keyboard_buffer[(buffer_tail + 1 - 1) % BUFFER_SIZE]
    BY <1>6 DEF Pending
  <2> QED
    BY <1>6, <1>7, <2>1, <2>2, <2>3
<1> QED
  BY <1>1, <1>8, <1>9, <1>10, <1>11, <1>12 DEF CQ!Get

(* The ring buffer of any size, with the interrupt between any two         *)
(* accesses of the reader, is a queue of characters, as long as it never   *)
(* fills and Backspace does not come inside a read.                        *)
THEOREM RingIsQueue ==
  ASSUME ~BackspaceInGet, MaxTypeAhead < BUFFER_SIZE
  PROVE  Spec => ImplementsCharQueue
<1>1. Init => CQ!Init
  <2> SUFFICES ASSUME Init PROVE CQ!Init
    OBVIOUS
  <2>1. TypeOK
    BY InitIInv DEF IInv
  <2>2. Unread = 0
    BY <2>1, UnreadIs, ConsoleAssumption DEF Unread, Init, TypeOK
  <2>3. Pending = <<>>
    BY <2>1, <2>2, PendingType
  <2> QED
    BY <2>1, <2>3 DEF CQ!Init, TypeOK
<1>2. IInv /\ [Next]_vars => [CQ!Next]_(CQ!vars)
  <2> SUFFICES ASSUME IInv, [Next]_vars PROVE [CQ!Next]_(CQ!vars)
    OBVIOUS
  <2>1. ASSUME NEW key \in Keys, PressChar(key) PROVE CQ!Next
    BY <2>1, PressCharPuts DEF CQ!Next
  <2>2. CASE PressBackspace
    BY <2>2, BackspaceErases DEF CQ!Next
  <2>3. CASE GetAdvance
    BY <2>3, AdvanceGets DEF CQ!Next
  <2>4. ASSUME UNCHANGED <<keyboard_buffer, buffer_head, buffer_tail, typed, c>>
        PROVE  UNCHANGED CQ!vars
    BY <2>4, SameContents DEF CQ!vars
  <2>5. ASSUME NEW key \in Keys, PressModifier(key) PROVE UNCHANGED CQ!vars
    BY <2>4, <2>5 DEF PressModifier
  <2>6. CASE ReleaseShift
    BY <2>4, <2>6 DEF ReleaseShift
  <2>7. CASE GetPoll \/ GetLoad \/ ShellHandle \/ ShellExecute
    BY <2>4, <2>7 DEF GetPoll, GetLoad, ShellHandle, ShellExecute, driver
  <2>8. CASE UNCHANGED vars
    BY <2>4, <2>8 DEF vars, driver
  <2> QED
    BY <2>1, <2>2, <2>3, <2>5, <2>6, <2>7, <2>8
       DEF Next, handle_scancode, shell, ShellHalted
<1> QED
  BY <1>1, <1>2, InductiveInvariant, PTL
     DEF Spec, CQ!Spec, ImplementsCharQueue
=============================================================================
