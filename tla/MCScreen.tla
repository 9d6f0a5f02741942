------------------------------- MODULE MCScreen -------------------------------
(***************************************************************************)
(* TLC instances of Screen: three rows of three columns, VGA registers of  *)
(* two bits, and so a cursor that needs both of them.                      *)
(***************************************************************************)
EXTENDS Screen

Text(s) == [str |-> s, num |-> 0]
Number(n) == [str |-> << >>, num |-> n]

\* A line that wraps, a number without newline, and a tab.
MCMessages ==
  { <<<<"%", "s">>, <<Text(<<"a", "b", "a", "b", "NL">>)>>>>,
    <<<<"%", "d", "NL">>, <<Number(12)>>>>,
    <<<<"TAB", "a">>, << >>>> }

\* put_str("Unkown key.\n"), shortened.
MCUnknown == <<"u", "NL">>

\* Every format of up to five of the characters that matter to printk, with
\* texts that are empty or look like directives, and numbers of one to four digits.
MCFormats == UNION {[1..n -> {"a", "%", "s", "d", "H"}] : n \in 0..5}
MCArgs == { <<Text(<< >>), Text(<<"%", "s">>)>>,
            <<Text(<<"a", "%">>), Text(<<"d">>)>>,
            <<Number(0), Number(4096)>>,
            <<Number(10), Text(<<"b", "b", "b">>)>> }
MCCalls == MCMessages \cup (MCFormats \X MCArgs)
MCNumbers == 0..300 \cup {999, 1000, 1001, 4095, 4096, 65535, 65536, 1048576,
                          99999999, 2147483647}

MCKey == {"other", "enter", "backspace"}

=============================================================================
