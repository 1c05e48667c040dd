-------------------------------- MODULE Text --------------------------------
(* The conversions and string helpers of std/stdlib.c, std/stdio.c,        *)
(* std/string.c and memory/utills.c as operators; a caller applies one to  *)
(* any small input and the properties compare the result with a reference  *)
(* definition.  A character of a number is its distance from '0'; a C      *)
(* string is a sequence that ends with its only Nul.                       *)
EXTENDS Integers, Sequences, FiniteSets, SequencesExt

CONSTANTS IntMax,      \* largest int; the smallest is -IntMax - 1
          HEXA_SIZE,   \* characters of a printed address
          Letters,     \* characters of strings, all of them ASCII
          MaxLen,      \* bound: characters of a string or a format
          NameMax      \* PROCESS_NAME_MAX_LENGTH

ASSUME TextAssumption ==
  /\ IntMax \in Nat \ {0} /\ HEXA_SIZE \in Nat \ {0}
  /\ Letters \subseteq 1 .. 127
  /\ MaxLen \in Nat /\ NameMax \in Nat \ {0}

IntMin == -IntMax - 1
IntRange == IntMin .. IntMax
UIntMax == 2 * IntMax + 1    \* the largest unsigned int
Nul == 0
Minus == -3           \* '-' - '0'

-----------------------------------------------------------------------------
(* Negation of an int: the smallest one has no opposite and stays. *)
Negate(n) == IF n = IntMin THEN IntMin ELSE -n

(* The remainder and the quotient of C truncate towards zero. *)
Rem10(n) == IF n >= 0 THEN n % 10 ELSE -((-n) % 10)

(* Mutant of Digits: a while loop, which writes nothing for zero. *)
DigitsWhile ==
  LET f[m \in IntRange] == IF m <= 0 THEN <<>> ELSE <<Rem10(m)>> \o f[m \div 10]
  IN f

(* The do-while loop: least significant digit first. *)
Digits ==
  LET f[m \in IntRange] ==
        <<Rem10(m)>> \o (IF m < 10 THEN <<>> ELSE f[m \div 10])
  IN f

int_to_string(num) ==
  IF num < 0 THEN Reverse(Append(Digits[Negate(num)], Minus))
             ELSE Reverse(Digits[num])

(* The number that the first i digits make, most significant first. *)
Horner(base, digits) ==
  LET v[i \in 0 .. Len(digits)] == IF i = 0 THEN 0 ELSE v[i - 1] * base + digits[i]
  IN v

ValueOf(base, digits) == Horner(base, digits)[Len(digits)]

atoi(str) ==
  LET negative == str # <<>> /\ str[1] = Minus
      digits == IF negative THEN Tail(str) ELSE str
  IN IF negative THEN -ValueOf(10, digits) ELSE ValueOf(10, digits)

(* num after i turns of int_to_hex_string's loop. *)
Shifted(num) ==
  LET q[i \in 0 .. HEXA_SIZE] == IF i = 0 THEN num ELSE q[i - 1] \div 16
  IN q

(* int_to_hex_string writes one digit more than the string keeps: the loop *)
(* fills the places HEXA_SIZE down to 0, and the end of the string then    *)
(* overwrites the last one.                                                *)
int_to_hex_string(num) ==
  [i \in 1 .. HEXA_SIZE |-> Shifted(num)[HEXA_SIZE + 1 - i] % 16]

(* Every address has at most HEXA_SIZE hexadecimal digits. *)
ASSUME HexaAssumption == Shifted(UIntMax)[HEXA_SIZE] = 0

-----------------------------------------------------------------------------
(* printf, one character of the format at a time: esc after a '%', k the   *)
(* arguments taken, out the pieces printed: 0 for a character, k for the   *)
(* k-th argument.  "d" stands for the letters of the conversions that take *)
(* an argument, "a" for any other character.                               *)
Format == SeqOf({"%", "d", "a"}, MaxLen)

(* The switch on the character after '%'. *)
Converted(st, c) ==
  CASE c = "d" -> [esc |-> FALSE, k |-> st.k + 1, out |-> Append(st.out, st.k + 1)]
    [] c = "%" -> [st EXCEPT !.esc = FALSE, !.out = Append(@, 0)]
    [] c = "a" -> [st EXCEPT !.esc = FALSE, !.out = @ \o <<0, 0>>]

(* The body of the loop. *)
Printed(st, c) ==
  IF st.esc THEN Converted(st, c)
  ELSE IF c = "%" THEN [st EXCEPT !.esc = TRUE]
  ELSE [st EXCEPT !.out = Append(@, 0)]

(* Where printf is after i characters of the format. *)
Walk(format) ==
  LET w[i \in 0 .. Len(format)] ==
        IF i = 0 THEN [esc |-> FALSE, k |-> 0, out |-> <<>>]
                 ELSE Printed(w[i - 1], format[i])
  IN w

printf(format) == Walk(format)[Len(format)]

(* The length of the run of '%' that ends at place i. *)
RunAt(format) ==
  LET f[i \in 0 .. Len(format)] ==
        IF i = 0 THEN 0 ELSE IF format[i] # "%" THEN 0 ELSE f[i - 1] + 1
  IN f

(* A 'd' is a conversion exactly when an odd run of '%' is before it. *)
Conversions(format) ==
  {i \in 1 .. Len(format) : format[i] = "d" /\ RunAt(format)[i - 1] % 2 = 1}

-----------------------------------------------------------------------------
String == {Append(s, Nul) : s \in SeqOf(Letters, MaxLen)}
Least(S) == CHOOSE i \in S : \A j \in S : i <= j

strlen(s) == Least({i \in 1 .. Len(s) : s[i] = Nul}) - 1

(* Where the loop of a comparison stops: a difference or an end. *)
Stop(s, t) == Least({i \in 1 .. Len(s) : i \in DOMAIN t
                       /\ (s[i] = Nul \/ t[i] = Nul \/ s[i] # t[i])})

strcmp(s, t) == s[Stop(s, t)] - t[Stop(s, t)]

(* Mutant of strncmp: one character too many is compared. *)
strncmp_inclusive(s, t, n) == IF Stop(s, t) > n + 1 THEN 0 ELSE strcmp(s, t)

strncmp(s, t, n) == IF Stop(s, t) > n THEN 0 ELSE strcmp(s, t)

memcmp(b, c, n) ==
  LET D == {i \in 1 .. n : b[i] # c[i]}
  IN IF D = {} THEN 0 ELSE b[Least(D)] - c[Least(D)]

memcpy(dest, src, n) ==
  [i \in DOMAIN dest |-> IF i <= n THEN src[i] ELSE dest[i]]

memset(ptr, value, n) ==
  [i \in DOMAIN ptr |-> IF i <= n THEN value ELSE ptr[i]]

strcpy(dest, src) == memcpy(dest, src, strlen(src) + 1)

strncpy(dest, src, n) ==
  [i \in DOMAIN dest |-> IF i > n THEN dest[i]
                         ELSE IF i <= strlen(src) THEN src[i]
                         ELSE Nul]

(* process_create and processes_init: strncpy, then the last byte. *)
ProcessName(old, name) ==
  [strncpy(old, name, NameMax - 1) EXCEPT ![NameMax] = Nul]

(* The first n characters of a string. *)
Cut(s, n) == IF strlen(s) <= n THEN s ELSE Append(SubSeq(s, 1, n), Nul)

(* Lexicographic order, from its definition. *)
Before(s, t) ==
  \E i \in 1 .. Len(s) : /\ i <= Len(t) /\ s[i] < t[i]
                         /\ \A j \in 1 .. i - 1 : s[j] = t[j]

-----------------------------------------------------------------------------
VARIABLES call,    \* the function called, "none" before the first call
          arg,     \* its argument
          result

text_vars == <<call, arg, result>>

TextInit == call = "none" /\ arg = <<>> /\ result = <<>>

(* A caller applies function f to a, with result v. *)
Called(f, a, v) == call = "none" /\ call' = f /\ arg' = a /\ result' = v

CallDecimal == \E n \in IntRange : Called("int_to_string", n, int_to_string(n))

CallHex == \E n \in 0 .. UIntMax : Called("put_hexa", n, int_to_hex_string(n))

CallPrintf == \E format \in Format : Called("printf", format, printf(format))

CallCompare ==
  \E s, t \in String, n \in 0 .. MaxLen + 1 :
    Called("compare", [s |-> s, t |-> t, n |-> n],
           [cmp |-> strcmp(s, t), ncmp |-> strncmp(s, t, n),
            mem |-> IF Len(s) = Len(t) THEN memcmp(s, t, Len(s))
                                       ELSE strcmp(s, t)])

(* A name and a copy, made over memory filled with old. *)
CallCopy ==
  \E s \in String, old \in Letters :
    Called("copy", s,
           [name |-> ProcessName([i \in 1 .. NameMax |-> old], s),
            copy |-> strcpy(memset([i \in 1 .. MaxLen + 1 |-> Nul], old, MaxLen + 1), s)])

Return == call # "none" /\ call' = "none" /\ arg' = <<>> /\ result' = <<>>

TextNext == CallDecimal \/ CallHex \/ CallPrintf \/ CallCompare \/ CallCopy \/ Return

TextSpec == TextInit /\ [][TextNext]_text_vars

-----------------------------------------------------------------------------
(* The pieces printed take the arguments 1 .. k once each and in order. *)
TakesInOrder(out, k) ==
  /\ \A i \in 1 .. Len(out) : out[i] \in 0 .. k
  /\ \A a \in 1 .. k : \E i \in 1 .. Len(out) : out[i] = a
  /\ \A i, j \in 1 .. Len(out) :
       i < j /\ out[i] > 0 /\ out[j] > 0 => out[i] < out[j]

(* Every int but the smallest is printed as a numeral, without leading     *)
(* zeros, that atoi reads back; and printf takes one argument for each     *)
(* conversion of its format, in order, however '%' signs are doubled or    *)
(* left at the end.  Nothing is said here of the smallest int and of       *)
(* put_hexa: neither prints its number (the theorems SmallestIntMisprinted *)
(* and PrintedAddressLosesDigit say what they print).                      *)
ConversionsExact ==
  /\ call = "int_to_string" /\ arg # IntMin
       => /\ atoi(result) = arg
          /\ Len(result) = 1 \/ (Len(result) > 1 /\ result[1] # 0)
  /\ call = "printf"
       => /\ result.k = Cardinality(Conversions(arg))
          /\ TakesInOrder(result.out, result.k)

(* strcmp and strncmp order strings as the lexicographic order of their    *)
(* first n characters does, memcmp finds the same for equal lengths; a     *)
(* copy is the string; and the name of a process, whatever the memory held *)
(* and however long the name given, is the name cut to fit, with its end.  *)
StringsExact ==
  /\ call = "compare"
       => LET s == arg.s
              t == arg.t
              u == Cut(s, arg.n)
              v == Cut(t, arg.n)
          IN /\ (result.cmp < 0) = Before(s, t) /\ (result.cmp = 0) = (s = t)
             /\ (result.ncmp < 0) = Before(u, v) /\ (result.ncmp = 0) = (u = v)
             /\ (result.mem < 0) = Before(s, t)
  /\ call = "copy"
       => /\ SubSeq(result.name, 1, strlen(result.name) + 1) = Cut(arg, NameMax - 1)
          /\ SubSeq(result.copy, 1, strlen(result.copy) + 1) = arg
=============================================================================
