-------------------------------- MODULE Utf16 --------------------------------
(***************************************************************************)
(* The conversion of the strings of a minidump, UTF16ToUTF8                *)
(* (src/minidump/minidump.cpp), on words of 16 bits and bytes.             *)
(***************************************************************************)
EXTENDS Integers, Sequences

\* The words of 16 bits, and the texts of them.
Word == 0 .. 65535
Texts == Seq(Word)

HighSurrogates == 55296 .. 56319   \* 0xd800 .. 0xdbff

\* What the code takes for low surrogates, 0xdc00 .. 0xdcff: a quarter of them.
LowSurrogates == 56320 .. 56575

\* The code point of a surrogate pair.
Unichar(high, low) == (high - 55232) * 1024 + (low % 1024)

Tail6(n) == 128 + (n % 64)

\* The bytes that are appended for a code point.
Encoded(n) ==
  IF n < 128 THEN <<n>>
  ELSE IF n < 2048 THEN <<192 + (n \div 64), Tail6(n)>>
  ELSE IF n < 65536 THEN <<224 + (n \div 4096), Tail6(n \div 64), Tail6(n)>>
  ELSE <<240 + (n \div 262144), Tail6(n \div 4096), Tail6(n \div 64), Tail6(n)>>

\* The whole string is given up for a low surrogate that stands alone or a high
\* one without a low one behind it.
UTF16ToUTF8(words) ==
  LET n == Len(words)
      given(i) == \/ words[i] \in LowSurrogates
                  \/ words[i] \in HighSurrogates /\ (i = n \/ words[i + 1] \notin LowSurrogates)
      out[i \in 1 .. (n + 1)] ==   \* from the i-th word on: the bytes, and whether to give up
        IF i > n THEN [bytes |-> <<>>, fails |-> FALSE]
        ELSE IF given(i) THEN [bytes |-> <<>>, fails |-> TRUE]
        ELSE IF words[i] \in HighSurrogates
        THEN [out[i + 2] EXCEPT !.bytes = Encoded(Unichar(words[i], words[i + 1])) \o @]
        ELSE [out[i + 1] EXCEPT !.bytes = Encoded(words[i]) \o @]
  IN  IF out[1].fails THEN <<>> ELSE out[1].bytes

-----------------------------------------------------------------------------
(***************************************************************************)
(* The standards, by other means.                                          *)
(***************************************************************************)
Surrogates == 55296 .. 57343

\* The code points of UTF-16 text: a pair of surrogates is one, any other word
\* is one of its own.
CodePoints(words) ==
  LET paired(i) == i < Len(words) /\ words[i] \in 55296 .. 56319 /\ words[i + 1] \in 56320 .. 57343
      from[i \in 1 .. (Len(words) + 1)] ==
        IF i > Len(words) THEN <<>>
        ELSE IF paired(i)
        THEN <<65536 + (words[i] - 55296) * 1024 + (words[i + 1] - 56320)>> \o from[i + 2]
        ELSE <<words[i]>> \o from[i + 1]
  IN  from[1]

\* The code points of UTF-8 text: each byte that is no continuation begins one.
Decoded(bytes) ==
  LET lead(i) == bytes[i] < 128 \/ bytes[i] >= 192
      payload(b) == IF b < 128 THEN b ELSE IF b < 192 THEN b % 64
                    ELSE IF b < 224 THEN b % 32 ELSE IF b < 240 THEN b % 16 ELSE b % 8
      upto[i \in 0 .. Len(bytes)] ==
        IF i = 0 THEN <<>>
        ELSE IF lead(i) THEN Append(upto[i - 1], payload(bytes[i]))
        ELSE LET seen == upto[i - 1] IN
             [seen EXCEPT ![Len(seen)] = @ * 64 + payload(bytes[i])]
  IN  upto[Len(bytes)]
=============================================================================
