-------------------------------- MODULE CLib --------------------------------
(***************************************************************************)
(* The C library of lib/string.c, lib/stdlib.c and lib/ctype.c.            *)
(*                                                                         *)
(* The functions that only compute are operators on strings: sequences of  *)
(* character codes that end with a NUL.  strtok, which keeps a pointer     *)
(* between calls, has a module of its own, Strtok.                         *)
(***************************************************************************)
EXTENDS Integers, Sequences

CONSTANT INT_MAX  \* the largest int: 2 ^ 31 - 1

ASSUME IntAssumption == INT_MAX \in Nat

NUL == 0
NULL == 0   \* a pointer into a string is an index

\* Two's complement: the other half of the ints is below zero.
INT_MIN == -INT_MAX - 1
Int32(v) == ((v - INT_MIN) % (2 * (INT_MAX + 1))) + INT_MIN

\* Division and remainder of C, which round towards zero.
Quot(a, b) == IF a >= 0 THEN a \div b ELSE -((-a) \div b)
Rem(a, b) == a - b * Quot(a, b)

isspace(c) == c \in {32, 10, 13, 12, 9, 11}

IsDigit(c) == 48 <= c /\ c <= 57

\* The string that begins at b[i].
From(b, i) == SubSeq(b, i, Len(b))

strlen(s) ==
  LET len[i \in 1 .. Len(s)] == IF s[i] = NUL THEN 0 ELSE 1 + len[i + 1]
  IN  len[1]

strcmp(s, t) ==
  LET cmp[i \in 1 .. Len(s)] == IF s[i] # NUL /\ s[i] = t[i] THEN cmp[i + 1]
                                                             ELSE s[i] - t[i]
  IN  cmp[1]

\* What the loop over the digits makes of s from first on: res[i] is the number
\* in front of s[i].
Number(s, first) ==
  LET res[i \in first .. Len(s)] ==
        IF i = first THEN 0 ELSE Int32(res[i - 1] * 10 + (s[i - 1] - 48))
  IN  res[CHOOSE i \in first .. Len(s) :
            ~IsDigit(s[i]) /\ \A j \in first .. i - 1 : IsDigit(s[j])]

\* Mutant: the sign is not looked for.
atoi_Unsigned(s) == Number(s, 1)

atoi(s) ==
  LET skip[i \in 1 .. Len(s)] == IF isspace(s[i]) THEN skip[i + 1] ELSE i
      start == skip[1]
      res == Number(s, IF s[start] \in {45, 43} THEN start + 1 ELSE start)
  IN  IF s[start] = 45 THEN Int32(-res) ELSE res

\* The string that itoa stores.
itoa(num, base) ==
  LET isNegative == num < 0 /\ base = 10
      digits[n \in Int] ==
        IF n = 0 THEN << >>
        ELSE <<IF Rem(n, base) > 9 THEN Rem(n, base) - 10 + 97 ELSE Rem(n, base) + 48>>
             \o digits[Quot(n, base)]
      str == digits[IF isNegative THEN Int32(-num) ELSE num]
             \o (IF isNegative THEN <<45>> ELSE << >>)
  IN  IF num = 0 THEN <<48, NUL>> ELSE [i \in DOMAIN str |-> str[Len(str) + 1 - i]] \o <<NUL>>

\* Mutant: the NUL overwrites the last character.
strcpy_Short(m, src) ==
  [i \in DOMAIN m |-> IF i < strlen(src) THEN src[i]
                      ELSE IF i = strlen(src) THEN NUL ELSE m[i]]

\* strcpy, to the beginning of the memory m.
strcpy(m, src) == [i \in DOMAIN m |-> IF i <= strlen(src) + 1 THEN src[i] ELSE m[i]]
=============================================================================
