--------------------------------- MODULE VictronConfig -------------------------------
(***************************************************************************)
(* The two texts of the configuration that BluetoothScanner.cpp parses:    *)
(* the address of the shunt and its key.  A character is a hexadecimal     *)
(* digit, given by its value, a separator (colon, dash or space) or some   *)
(* other character; arrays are indexed from 0 as in the code.              *)
(***************************************************************************)
EXTENDS Naturals, Sequences

CONSTANTS AddrLen, KeyLen   \* bytes of an address and of a key: 6 and 16

ASSUME LengthsAssumption == AddrLen \in Nat \ {0} /\ KeyLen \in Nat \ {0}

Digit == 0 .. 15
Separator == 16
Other == 17
Char == Digit \cup {Separator, Other}

Zeros(n) == [i \in 0 .. n - 1 |-> 0]

--------------------------------------------------------------------------------------
(* parseBleAddrString()                                                      *)

\* The digits are gathered first: hex_digits[], and whether to go on.
GatherDigit(s, ch) ==
    IF s.ok /\ ch \in Digit /\ Len(s.digits) < 2 * AddrLen
      THEN [s EXCEPT !.digits = Append(@, ch)]
      ELSE [s EXCEPT !.ok = @ /\ ch = Separator]

\* NimBLE keeps an address from its last byte to its first.
Reversed(i) == AddrLen - 1 - i

ParsedAddr(text) ==
    LET after[n \in 0 .. Len(text)] ==
            IF n = 0 THEN [digits |-> <<>>, ok |-> TRUE] ELSE GatherDigit(after[n - 1], text[n])
        s == after[Len(text)]
        whole == s.ok /\ Len(s.digits) = 2 * AddrLen
        byte(i) == 16 * s.digits[2 * i + 1] + s.digits[2 * i + 2]
    IN  [ok    |-> whole,
         value |-> IF whole THEN [i \in 0 .. AddrLen - 1 |-> byte(Reversed(i))] ELSE Zeros(AddrLen)]

--------------------------------------------------------------------------------------
(* parseHexKeyString()                                                       *)

\* Each digit goes straight into the key, of which a text that turns out to be
\* wrong leaves a part: out[], hex_count, and whether to go on.
WriteDigit(s, ch) ==
    IF s.ok /\ ch \in Digit /\ s.count \div 2 < KeyLen
      THEN [s EXCEPT !.count = @ + 1,
                     !.out[s.count \div 2] = IF s.count % 2 = 0 THEN 16 * ch ELSE @ + ch]
      ELSE [s EXCEPT !.ok = @ /\ ch = Separator]

\* Broken variant: a key may end with half a byte.
FilledToHalf(count) == (count + 1) \div 2 = KeyLen

Filled(count) == count = 2 * KeyLen

ParsedKey(text) ==
    LET after[n \in 0 .. Len(text)] ==
            IF n = 0 THEN [out |-> Zeros(KeyLen), count |-> 0, ok |-> TRUE]
                     ELSE WriteDigit(after[n - 1], text[n])
        s == after[Len(text)]
    IN  [ok |-> s.ok /\ Filled(s.count), value |-> s.out]

--------------------------------------------------------------------------------------
(* What the texts mean (Kconfig.projbuild:28-42), to check the parsers by.   *)

DigitsOf(text) ==
    LET upTo[n \in 0 .. Len(text)] ==
            IF n = 0 THEN <<>>
            ELSE IF text[n] \in Digit THEN Append(upTo[n - 1], text[n]) ELSE upTo[n - 1]
    IN  upTo[Len(text)]

\* The bytes, first to last, that a text spells with separators wherever one
\* likes, or <<>> if it spells no n bytes.
Spelled(text, n) ==
    LET digits == DigitsOf(text)
    IN  IF (\E i \in 1 .. Len(text) : text[i] = Other) \/ Len(digits) # 2 * n
          THEN <<>>
          ELSE [i \in 1 .. n |-> 16 * digits[2 * i - 1] + digits[2 * i]]
======================================================================================
