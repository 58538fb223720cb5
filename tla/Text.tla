-------------------------------- MODULE Text --------------------------------
(***************************************************************************)
(* Strings between the script and the host.  The engine keeps UTF-16       *)
(* units, in 8 bits each when all of them are small; what crosses the      *)
(* boundary is a C string of UTF-8 bytes that ends with a 0; a Dart string *)
(* is UTF-16 again.  A string of the script is read by the host            *)
(* (JSString.value) and handed back to the engine (JSString.create).       *)
(***************************************************************************)
EXTENDS Integers, Sequences, SequencesExt, FiniteSetsExt

CONSTANTS
  Units,    \* the UTF-16 units the strings are made of
  MaxLen    \* bound: units of a string

ASSUME TextAssumption == Units \subseteq 0 .. 65535 /\ MaxLen \in Nat

VARIABLES
  script,  \* the string the script has
  stage,   \* how far it has got
  bytes,   \* the C string under way, without its final 0
  dart,    \* the Dart string
  back     \* the string the engine makes of it

vars == <<script, stage, bytes, dart, back>>

Init ==
  /\ script \in SeqOf(Units, MaxLen)
  /\ stage = "script"
  /\ bytes = <<>>
  /\ dart = <<>>
  /\ back = <<>>

-----------------------------------------------------------------------------
(* UTF-8 *)

High(u) == u \in 55296 .. 56319   \* D800 .. DBFF
Low(u)  == u \in 56320 .. 57343   \* DC00 .. DFFF

\* The code point of a surrogate pair, and back.
Joined(h, l) == (h % 1024) * 1024 + (l % 1024) + 65536
Split(c)     == IF c < 65536 THEN <<c>>
                ELSE <<(c - 65536) \div 1024 + 55296, (c % 1024) + 56320>>

\* Per number of continuation bytes: the smallest code and the first byte of
\* the smallest code (utf8_min_code, utf8_first_code_mask).
MinCode == <<128, 2048, 65536, 2097152, 67108864>>
Lead    == <<192, 224, 240, 248, 252, 254>>

unicode_to_utf8(c) ==
  LET l == Len(SelectSeq(MinCode, LAMBDA m : m <= c))
  IN  [i \in 1 .. l + 1 |->
         CASE l = 0 -> c
           [] l > 0 /\ i = 1 -> Lead[l] + c \div 64 ^ l
           [] OTHER -> 128 + ((c \div 64 ^ (l + 1 - i)) % 64)]

Bad == -1

\* The code that starts at p[i] and the bytes it takes, or Bad.
unicode_from_utf8(p, i) ==
  LET l == Len(SelectSeq(Lead, LAMBDA b : b <= p[i]))
      rest == SubSeq(p, i + 1, i + l)
      c == FoldLeft(LAMBDA a, b : a * 64 + (b % 64), p[i] - Lead[l], rest)
  IN  CASE p[i] < 128 -> [code |-> p[i], size |-> 1]
        [] p[i] >= 128 /\ (l \notin 1 .. 5 \/ i + l > Len(p)) -> [code |-> Bad, size |-> 0]
        [] OTHER -> IF (\E j \in DOMAIN rest : rest[j] \notin 128 .. 191) \/ c < MinCode[l]
                    THEN [code |-> Bad, size |-> 0]
                    ELSE [code |-> c, size |-> l + 1]

\* The first byte of p from i on that starts a sequence, or the end.
NextStart(p, i) ==
  LET starts == {j \in i .. Len(p) : p[j] \notin 128 .. 191}
  IN  IF starts = {} THEN Len(p) + 1 ELSE Min(starts)

\* The codes of p, Bad for what cannot be read: the bytes up to the next
\* sequence but one are skipped.
Decoded(p) ==
  LET decode[i \in 1 .. Len(p) + 1] ==
        IF i = Len(p) + 1 THEN <<>>
        ELSE LET r == unicode_from_utf8(p, i)
                 j == NextStart(p, i)
             IN  IF r.code \in 0 .. 1114111 THEN <<r.code>> \o decode[i + r.size]
                 ELSE <<Bad>> \o decode[IF j > Len(p) THEN j ELSE NextStart(p, j + 1)]
  IN  decode[1]

Encoded(cs) == FlattenSeq([i \in DOMAIN cs |-> unicode_to_utf8(cs[i])])

-----------------------------------------------------------------------------
(* The engine *)

\* Mutant: a surrogate pair is written as two code points, as with cesu8.
CodesApart(s) == s

\* The code points of s: surrogates that do not match stay as they are.
Codes(s) ==
  LET pair(i) == i \in 1 .. Len(s) - 1 /\ High(s[i]) /\ Low(s[i + 1])
  IN  FoldLeftDomain(LAMBDA a, i : CASE pair(i) -> Append(a, Joined(s[i], s[i + 1]))
                                     [] pair(i - 1) -> a
                                     [] OTHER -> Append(a, s[i]),
                     <<>>, s)

\* A string of 8 bit units has no surrogates to look for.
JS_ToCStringLen2(s) == Encoded(IF \A i \in DOMAIN s : s[i] < 256 THEN s ELSE Codes(s))

\* JS_NewString: up to the 0 that ends it.
JS_NewStringLen(p) ==
  LET cs == Decoded(p)
  IN  FlattenSeq([i \in DOMAIN cs |-> IF cs[i] = Bad THEN <<65533>> ELSE Split(cs[i])])

-----------------------------------------------------------------------------
(* package:ffi and dart:convert *)

\* A C string ends at its first 0.
UpToNul(p) == SubSeq(p, 1, SelectInSeq(Append(p, 0), LAMBDA b : b = 0) - 1)

Surrogate(c) == High(c) \/ Low(c)
Bom == 65279

\* utf8.decode: throws when a code is not a character; a byte order mark in
\* front is dropped.
Decodable(p)    == \A i \in DOMAIN Decoded(p) : Decoded(p)[i] # Bad /\ ~Surrogate(Decoded(p)[i])
WithoutBom(s)   == IF s # <<>> /\ Head(s) = Bom THEN Tail(s) ELSE s
toDartString(p) == LET cs == Decoded(p) IN WithoutBom(FlattenSeq([i \in DOMAIN cs |-> Split(cs[i])]))

\* utf8.encode: a surrogate that does not match becomes U+FFFD.
toNativeUtf8(s) ==
  LET cs == Codes(s)
  IN  Encoded([i \in DOMAIN cs |-> IF Surrogate(cs[i]) THEN 65533 ELSE cs[i]])

-----------------------------------------------------------------------------
(* The string crosses, and crosses back *)

\* JSToCString
JSToCString ==
  /\ stage = "script"
  /\ bytes' = JS_ToCStringLen2(script)
  /\ stage' = "out"
  /\ UNCHANGED <<script, dart, back>>

\* JSObject.toString
ReadByHost ==
  LET p == UpToNul(bytes) IN
  /\ stage = "out"
  /\ stage' = IF Decodable(p) THEN "host" ELSE "thrown"
  /\ dart' = IF Decodable(p) THEN toDartString(p) ELSE <<>>
  /\ UNCHANGED <<script, bytes, back>>

\* JSString.create
Create ==
  /\ stage = "host"
  /\ bytes' = toNativeUtf8(dart)
  /\ stage' = "in"
  /\ UNCHANGED <<script, dart, back>>

\* NewString
NewString ==
  /\ stage = "in"
  /\ back' = JS_NewStringLen(UpToNul(bytes))
  /\ stage' = "back"
  /\ UNCHANGED <<script, bytes, dart>>

Next == JSToCString \/ ReadByHost \/ Create \/ NewString

Spec == Init /\ [][Next]_vars

-----------------------------------------------------------------------------
(* Properties *)

\* What the host is to see: everything before the first 0, without a byte
\* order mark in front.
Visible == WithoutBom(UpToNul(script))

\* A surrogate without its other half, before the first 0.
Torn ==
  LET s == UpToNul(script)
  IN  \E i \in DOMAIN s :
        \/ High(s[i]) /\ (i = Len(s) \/ ~Low(s[i + 1]))
        \/ Low(s[i]) /\ (i = 1 \/ ~High(s[i - 1]))

\* A string of the script reaches the host (JSString.value) and comes back
\* (JSString.create) unit for unit, but for what a C string and utf8.decode
\* cannot carry: it ends at the first 0, and reading it throws exactly when
\* it has a surrogate without its other half.
CrossesFaithfully ==
  /\ stage = "thrown" => Torn
  /\ stage \in {"host", "in", "back"} => ~Torn /\ dart = Visible
  /\ stage = "back" => back = Visible

=============================================================================
