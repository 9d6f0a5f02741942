-------------------------------- MODULE Printk --------------------------------
(***************************************************************************)
(* The formatting of libs/printk.c and the number conversions of           *)
(* libs/string.c, as functions on texts.  A text is a sequence of          *)
(* characters without its final '\0'; offsets count from 0 as in the code. *)
(***************************************************************************)
EXTENDS Integers, SequencesExt

CONSTANTS
  Calls,     \* arguments of printk, <<input_str, args>>
  Numbers    \* arguments of the number conversions, not negative

Digit == <<"0", "1", "2", "3", "4", "5", "6", "7",
           "8", "9", "A", "B", "C", "D", "E", "F">>

\* Mutant: the loop ends one division too early for the powers of ten.
uintTostring_MoreThanTen(num) ==
  LET digits[n \in Nat] == IF n <= 10 THEN <<Digit[n + 1]>>
                           ELSE <<Digit[(n % 10) + 1]>> \o digits[n \div 10]
  IN  Reverse(digits[num])

\* The digits are produced from the last to the first and then reversed.
uintTostring(num) ==
  LET digits[n \in Nat] == IF n < 10 THEN <<Digit[n + 1]>>
                           ELSE <<Digit[(n % 10) + 1]>> \o digits[n \div 10]
  IN  Reverse(digits[num])

\* The recursion of func yields no digit for 0; the result is padded to eight.
\* (A negative number would index bit[] with a negative remainder.)
num2hexstr(number, need0x) ==
  LET func[n \in Nat] == IF n = 0 THEN << >>
                         ELSE Append(func[n \div 16], Digit[(n % 16) + 1])
      text == func[number]
  IN  (IF need0x THEN <<"0", "x">> ELSE << >>)
        \o [i \in 1..(8 - Len(text)) |-> "0"] \o text

\* The directive at offset, two characters long, is replaced.
insert_str(str, inserting, offset) ==
  SubSeq(str, 1, offset) \o inserting \o SubSeq(str, offset + 3, Len(str))

Directive == {"s", "d", "H", "h"}

\* printk reads a directive at character i of str.
directive(str, i) ==
  i \in 1..(Len(str) - 1) /\ str[i] = "%" /\ str[i + 1] \in Directive

directives(str, i) == Cardinality({j \in 1..i : directive(str, j)})

IsText(s) == s \in Seq(Range(s))

\* The conversions of numbers are right for what an int and an unsigned int
\* have in common.  A call has an argument for each directive of its text.
Int31 == {n \in Nat : n <= 2147483647}

ASSUME PrintkAssumption ==
  /\ Numbers \subseteq Int31
  /\ \A call \in Calls :
       /\ IsText(call[1]) /\ IsText(call[2])
       /\ \A arg \in Range(call[2]) : IsText(arg.str) /\ arg.num \in Int31
       /\ directives(call[1], Len(call[1])) <= Len(call[2])

\* An argument is read as what the directive asks for.
converted(kind, arg) ==
  CASE kind = "s" -> arg.str
    [] kind = "d" -> uintTostring(arg.num)
    [] kind = "H" -> num2hexstr(arg.num, TRUE)
    [] kind = "h" -> num2hexstr(arg.num, FALSE)

\* Where printk's loop is: the text in its buffer, the character it is at, and
\* the arguments that va_arg has not taken yet.
Scan(str, offset, rest) == [str |-> str, offset |-> offset, rest |-> rest]

at_directive(s) == directive(s.str, s.offset + 1)

\* Mutant: after a directive the scan goes on one character too far.
printk_turn_SkipsOne(s) ==
  IF at_directive(s)
  THEN LET text == converted(s.str[s.offset + 2], Head(s.rest))
       IN  Scan(insert_str(s.str, text, s.offset), s.offset + Len(text) + 1, Tail(s.rest))
  ELSE Scan(s.str, s.offset + 1, s.rest)

\* The body of the loop: the scan goes on behind the inserted text.
printk_turn(s) ==
  IF at_directive(s)
  THEN LET text == converted(s.str[s.offset + 2], Head(s.rest))
       IN  Scan(insert_str(s.str, text, s.offset), s.offset + Len(text), Tail(s.rest))
  ELSE Scan(s.str, s.offset + 1, s.rest)

\* printk up to the call of kputs: output_str is scanned up to its '\0' while
\* its directives are replaced.  Each turn passes a character of input_str, so
\* there are no more turns than characters.
printk(input_str, args) ==
  LET turns[i \in Nat] ==
        IF i = 0 THEN Scan(input_str, 0, args)
        ELSE LET s == turns[i - 1]
             IN  IF s.offset >= Len(s.str) THEN s ELSE printk_turn(s)
  IN  turns[Len(input_str)].str

-----------------------------------------------------------------------------
\* The number that the digits of text stand for.
Value(text, radix) ==
  LET digit(c) == CHOOSE d \in 0..15 : Digit[d + 1] = c
      value[i \in 0..Len(text)] ==
        IF i = 0 THEN 0 ELSE value[i - 1] * radix + digit(text[i])
  IN  value[Len(text)]

\* What is to be shown of a number: its digits, without leading zeros in decimal
\* and with eight digits in hexadecimal.
Converted(n) ==
  /\ Range(uintTostring(n)) \subseteq {Digit[d + 1] : d \in 0..9}
  /\ Value(uintTostring(n), 10) = n
  /\ n >= 10 => Head(uintTostring(n)) # "0"
  /\ Len(num2hexstr(n, FALSE)) = 8 /\ Value(num2hexstr(n, FALSE), 16) = n
  /\ num2hexstr(n, TRUE) = <<"0", "x">> \o num2hexstr(n, FALSE)

\* What is to be printed: the characters of the format, each directive
\* replaced by its argument, whatever the arguments' texts contain.
Expansion(input_str, args) ==
  FlattenSeq([i \in 1..Len(input_str) |->
    IF directive(input_str, i)
    THEN converted(input_str[i + 1], args[directives(input_str, i)])
    ELSE IF directive(input_str, i - 1) THEN << >>
    ELSE <<input_str[i]>>])

=============================================================================
