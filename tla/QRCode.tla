------------------------------- MODULE QRCode -------------------------------
(***************************************************************************)
(* The evaluation of the arithmetic expression in a QR code:               *)
(* QR_Data_Handle(), Check() and judge() of Openmv/Openmv.cpp.             *)
(*                                                                         *)
(* The camera reads an expression of four numbers of at most two digits    *)
(* and three signs.  What QR_Distinguish() hands over is its text followed *)
(* by the tail byte of the camera's message.  The text is read character   *)
(* by character; the order of operations is written out by hand for every  *)
(* set of places where a '*' stands.                                       *)
(***************************************************************************)
EXTENDS Integers, Sequences

CONSTANTS
  Numbers,   \* the numbers that occur in the expressions
  W,         \* a uint16_t counts modulo W (65536)
  Rubbish    \* what local variables may hold before they are set

ASSUME QRAssumption == /\ Numbers \subseteq 0..99
                       /\ W \in Nat \ {0} /\ W % 4 = 0 /\ W >= 256
                       /\ Rubbish \subseteq 0..255

Plus == 43
Minus == 45
Times == 42
Signs == {Plus, Minus, Times}
Tail8 == 187                     \* the message's tail, 0xBB

Expressions == [n : [0..3 -> Numbers], s : [0..2 -> Signs]]

Digit(d) == 48 + d
Printed(n) == IF n < 10 THEN <<Digit(n)>> ELSE <<Digit(n \div 10), Digit(n % 10)>>
Text(e) == Printed(e.n[0]) \o <<e.s[0]>> \o Printed(e.n[1]) \o <<e.s[1]>>
             \o Printed(e.n[2]) \o <<e.s[2]>> \o Printed(e.n[3]) \o <<Tail8>>

VARIABLES
  shown,       \* the expression in the QR code
  i,           \* characters read
  value,
  num_flag,    \* digits of the number under way, modulo two
  cont,        \* numbers read
  symbol_buf,
  num_value,
  result       \* what is returned, 0 before

qrVars == <<shown, i, value, num_flag, cont, symbol_buf, num_value, result>>

QRInit ==
  /\ shown \in Expressions
  /\ i = 0 /\ value = 0 /\ num_flag = 0 /\ cont = 0
  /\ \E r \in Rubbish : /\ symbol_buf = [j \in 0..2 |-> r]
                        /\ num_value = [j \in 0..7 |-> r]
  /\ result = 0

Char == Text(shown)[i + 1]
Left == i < Len(Text(shown))

-----------------------------------------------------------------------------
(* A digit: the first of a number, or the second.  The last character is   *)
(* never a digit, so that the branch for it never stores.  The variant     *)
(* before it does not end the number after its second digit.               *)
ReadDigitOpen ==
  /\ Left /\ Char \in Digit(0)..Digit(9)
  /\ num_flag' = 1
  /\ value' = IF num_flag = 1 THEN (value * 10 + (Char - Digit(0))) % W
              ELSE Char - Digit(0)
  /\ i' = i + 1
  /\ UNCHANGED <<shown, cont, symbol_buf, num_value, result>>

ReadDigit ==
  /\ Left /\ Char \in Digit(0)..Digit(9)
  /\ num_flag' = 1 - num_flag
  /\ value' = IF num_flag = 1 THEN (value * 10 + (Char - Digit(0))) % W
              ELSE Char - Digit(0)
  /\ i' = i + 1
  /\ UNCHANGED <<shown, cont, symbol_buf, num_value, result>>

(* Any other character ends a number; the first three are the signs.       *)
ReadSign ==
  /\ Left /\ Char \notin Digit(0)..Digit(9)
  /\ num_flag' = IF cont <= 2 THEN 0 ELSE num_flag
  /\ symbol_buf' = IF cont <= 2 THEN [symbol_buf EXCEPT ![cont] = Char] ELSE symbol_buf
  /\ num_value' = [num_value EXCEPT ![cont] = value % 256]
  /\ cont' = cont + 1
  /\ i' = i + 1
  /\ UNCHANGED <<shown, value, result>>

(* judge(): one operation in uint16_t.                                     *)
judge(a, b, sign) ==
  CASE sign = Plus  -> (a + b) % W
    [] sign = Minus -> (a - b) % W
    [] sign = Times -> (a * b) % W
    [] OTHER        -> 0

(* Check(): the places where a '*' stands.                                 *)
Check(s) == {j \in 0..2 : s[j] = Times}

(* The order of operations.  The variant before it goes from left to right *)
(* when the only '*' is the second sign.                                   *)
FromLeft(n, s) == judge(judge(judge(n[0], n[1], s[0]), n[2], s[1]), n[3], s[2])

EvaluateFromLeft(n, s) ==
  IF Check(s) = {2}
  THEN judge(judge(n[0], n[1], s[0]), judge(n[2], n[3], s[2]), s[1])
  ELSE FromLeft(n, s)

Evaluate(n, s) ==
  CASE Check(s) \in {{}, {0}, {0, 1}} -> FromLeft(n, s)
    [] Check(s) = {1} ->
         judge(judge(n[0], judge(n[1], n[2], s[1]), s[0]), n[3], s[2])
    [] Check(s) \in {{2}, {0, 2}} ->
         judge(judge(n[0], n[1], s[0]), judge(n[2], n[3], s[2]), s[1])
    [] Check(s) = {1, 2} ->
         judge(n[0], judge(judge(n[1], n[2], s[1]), n[3], s[2]), s[0])
    [] Check(s) = {0, 1, 2} ->
         judge(judge(judge(n[2], n[3], s[2]), n[1], s[1]), n[0], s[0])

Return ==
  /\ ~Left /\ result = 0
  /\ value' = Evaluate(num_value, symbol_buf)
  /\ result' = (value' % 4) + 1
  /\ UNCHANGED <<shown, i, num_flag, cont, symbol_buf, num_value>>

QRNext == ReadDigit \/ ReadSign \/ Return

QRSpec == QRInit /\ [][QRNext]_qrVars

-----------------------------------------------------------------------------
(***************************************************************************)
(* Type invariant of the evaluation.  Beyond the widths of the variables   *)
(* it says that nothing is cut off before the evaluation: a number under   *)
(* way is below ten where a second digit is to follow and below a hundred  *)
(* always, so that neither the uint16_t nor the byte it is stored in loses *)
(* anything, and every store goes to one of the first four places.         *)
(***************************************************************************)
QRTypeOK ==
  /\ shown \in Expressions /\ i \in 0..Len(Text(shown))
  /\ value \in 0..(W - 1) /\ num_flag \in {0, 1} /\ cont \in 0..4
  /\ symbol_buf \in [0..2 -> 0..255] /\ num_value \in [0..7 -> 0..255]
  /\ result \in 0..4
  /\ result = 0 => value < 100 /\ (num_flag = 1 => value < 10)
  /\ Left => cont < 4

(***************************************************************************)
(* The value of an expression, by the usual precedence, in the integers:   *)
(* the sum of what is complete and the product under way.                  *)
(***************************************************************************)
Extend(part, sign, n) ==
  IF sign = Times THEN [sum |-> part.sum, term |-> part.term * n]
  ELSE [sum |-> part.sum + part.term, term |-> IF sign = Plus THEN n ELSE -n]

Meaning(e) ==
  LET part == Extend(Extend(Extend([sum |-> 0, term |-> e.n[0]],
                                   e.s[0], e.n[1]), e.s[1], e.n[2]), e.s[2], e.n[3])
  IN  part.sum + part.term

(* The result is the expression's true value modulo four, plus one: though *)
(* the code computes modulo W, below zero and in an order of its own.      *)
ResultIsRight == result # 0 => result = (Meaning(shown) % 4) + 1
=============================================================================
