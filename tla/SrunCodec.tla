----------------------------- MODULE SrunCodec -----------------------------
(***************************************************************************)
(* The portal's encodings, src/src/srun.go: the cipher of the login's      *)
(* "info" field, the parameters of a login, and the JSON or JSONP text of  *)
(* a reply.  Texts are sequences of bytes; a 32-bit word is a pair of      *)
(* 16-bit halves, since TLC's own integers are narrower.                   *)
(***************************************************************************)
EXTENDS Integers, SequencesExt

Byte == 0..255
Half == 65536

\* Exclusive or, bit by bit: the one of weight w is set in one of a and b.
XorBit(a, b, w) == ((a \div w + b \div w) % 2) * w
XorByte ==
  [a \in Byte |-> [b \in Byte |->
     XorBit(a, b, 1) + XorBit(a, b, 2) + XorBit(a, b, 4) + XorBit(a, b, 8)
     + XorBit(a, b, 16) + XorBit(a, b, 32) + XorBit(a, b, 64) + XorBit(a, b, 128)]]
XorHalf(a, b) == XorByte[a \div 256][b \div 256] * 256 + XorByte[a % 256][b % 256]

\* uint32: exclusive or, sum and difference modulo 2^32, and the shifts.
XorWord(a, b) == <<XorHalf(a[1], b[1]), XorHalf(a[2], b[2])>>
Add(a, b) == <<(a[1] + b[1] + (a[2] + b[2]) \div Half) % Half, (a[2] + b[2]) % Half>>
Minus(a) == Add(<<Half - 1 - a[1], Half - 1 - a[2]>>, <<0, 1>>)
ShiftLeft(a, k) ==
  <<(a[1] * 2^k + a[2] \div 2^(16 - k)) % Half, (a[2] * 2^k) % Half>>
ShiftRight(a, k) ==
  <<a[1] \div 2^k, (a[2] + (a[1] % 2^k) * Half) \div 2^k>>
Zero == <<0, 0>>

\* uint32 of a length.
LengthWord(n) == <<(n \div Half) % Half, n % Half>>

\* Four bytes make a word, the lowest first; a text that ends early is
\* filled with zeros, and its length may follow as a word of its own.
StringToUint32(s, includeLength) ==
  LET At(i) == IF i <= Len(s) THEN s[i] ELSE 0
      words == [w \in 1..((Len(s) + 3) \div 4) |->
                  <<At(4 * w) * 256 + At(4 * w - 1), At(4 * w - 2) * 256 + At(4 * w - 3)>>]
  IN IF includeLength THEN Append(words, LengthWord(Len(s))) ELSE words

ByteOf(v, i) ==
  CASE i = 0 -> v[2] % 256 [] i = 1 -> v[2] \div 256
    [] i = 2 -> v[1] % 256 [] i = 3 -> v[1] \div 256
Uint32ToBytes(values) ==
  [j \in 1..(4 * Len(values)) |-> ByteOf(values[((j - 1) \div 4) + 1], (j - 1) % 4)]

-----------------------------------------------------------------------------
Delta == <<40503, 31161>>  \* 0x86014019 | 0x183639A0

\* A bug: the passes counted from the last index instead of the length.
Passes_LastIndex(n) == 6 + 52 \div (n - 1)

Passes(n) == 6 + 52 \div n

\* A bug: the running sum does not select the key word.
Mix_SameKey(z, y, d, k, p) ==
  LET m == XorWord(ShiftRight(z, 5), ShiftLeft(y, 2))
      n == XorWord(XorWord(ShiftRight(y, 3), ShiftLeft(z, 4)), XorWord(d, y))
  IN Add(Add(m, n), XorWord(k[((p - 1) % 4) + 1], z))

\* What is added to word p, 1 for the first: z is the word before it and y the
\* word after it, around the ring; d selects the key word.
Mix(z, y, d, k, p) ==
  LET e == (d[2] \div 4) % 4
      m == XorWord(ShiftRight(z, 5), ShiftLeft(y, 2))
      n == XorWord(XorWord(ShiftRight(y, 3), ShiftLeft(z, 4)), XorWord(d, y))
  IN Add(Add(m, n), XorWord(k[XorByte[(p - 1) % 4][e] + 1], z))

Before(v, p) == v[IF p = 1 THEN Len(v) ELSE p - 1]
After(v, p) == v[IF p = Len(v) THEN 1 ELSE p + 1]

\* One pass over the words, and as many as it takes; d is the sum of as many
\* Deltas as there were passes.
Mixed(v, d, k, p) == [v EXCEPT ![p] = Add(@, Mix(Before(v, p), After(v, p), d, k, p))]
Pass(v, d, k) ==
  LET f[p \in 0..Len(v)] == IF p = 0 THEN v ELSE Mixed(f[p - 1], d, k, p)
  IN f[Len(v)]

Sum(n) ==
  LET f[q \in 0..n] == IF q = 0 THEN Zero ELSE Add(f[q - 1], Delta)
  IN f[n]

Encipher(v, k, n) ==
  LET f[q \in 0..n] == IF q = 0 THEN v ELSE Pass(f[q - 1], Sum(q), k)
  IN f[n]

KeyWords(key) ==
  LET k == StringToUint32(key, FALSE)
  IN [i \in 1..(IF Len(k) < 4 THEN 4 ELSE Len(k)) |-> IF i <= Len(k) THEN k[i] ELSE Zero]

XEncode(value, key) ==
  LET v == StringToUint32(value, TRUE)
  IN IF value = <<>> THEN <<>>
     ELSE Uint32ToBytes(Encipher(v, KeyWords(key), Passes(Len(v))))

-----------------------------------------------------------------------------
(***************************************************************************)
(* The portal, external: it undoes the passes from the last to the first,  *)
(* each from the last word to the first, and cuts the text to its length.  *)
(***************************************************************************)
Unmixed(v, d, k, p) ==
  [v EXCEPT ![p] = Add(@, Minus(Mix(Before(v, p), After(v, p), d, k, p)))]
Unpass(v, d, k) ==
  LET f[p \in 0..Len(v)] == IF p = 0 THEN v ELSE Unmixed(f[p - 1], d, k, Len(v) + 1 - p)
  IN f[Len(v)]

Decipher(v, k, n) ==
  LET f[q \in 0..n] == IF q = 0 THEN v ELSE Unpass(f[q - 1], Sum(n + 1 - q), k)
  IN f[n]

\* No text, when the length does not fit the number of words.
PortalDecode(code, key) ==
  LET v == StringToUint32(code, FALSE)
      plain == Decipher(v, KeyWords(key), 6 + 52 \div Len(v))
      room == 4 * (Len(v) - 1)
  IN IF code = <<>> THEN {<<>>}
     ELSE {SubSeq(Uint32ToBytes(plain), 1, n) :
             n \in {n \in (room - 3)..room : n >= 0 /\ Last(plain) = LengthWord(n)}}

-----------------------------------------------------------------------------
(***************************************************************************)
(* A login.  The keyed digest is a term, equal only for equal arguments,   *)
(* and the checksum is the term of the pieces it is taken over.  What is   *)
(* the same in every login (the system's name and the like) is left out.   *)
(***************************************************************************)

\* A UTF-8 character of n bytes begins at i.
IsRune(s, i, n) ==
  /\ i + n - 1 <= Len(s)
  /\ \A j \in (i + 1)..(i + n - 1) : s[j] \in 128..191
  /\ CASE n = 1 -> s[i] < 128
       [] n = 2 -> s[i] \in 194..223
       [] n = 3 -> /\ s[i] \in 224..239
                   /\ s[i] = 224 => s[i + 1] >= 160
                   /\ s[i] = 237 => s[i + 1] < 160
       [] n = 4 -> /\ s[i] \in 240..244
                   /\ s[i] = 240 => s[i + 1] >= 144
                   /\ s[i] = 244 => s[i + 1] < 144

\* A text as json.Marshal writes it: each byte that is of no character becomes
\* U+FFFD.  Escapes, which the reader undoes, are left out.
InRune(s, i) == \E n \in 1..4 : \E j \in (i - n + 1)..i : j > 0 /\ IsRune(s, j, n)
JsonText(s) ==
  <<34>> \o FlattenSeq([i \in DOMAIN s |-> IF InRune(s, i) THEN <<s[i]>> ELSE <<239, 191, 189>>])
         \o <<34>>

\* Its punctuation and names, in bytes.
Username == <<123, 34, 117, 115, 101, 114, 110, 97, 109, 101, 34, 58>>
Password == <<44, 34, 112, 97, 115, 115, 119, 111, 114, 100, 34, 58>>
IP == <<44, 34, 105, 112, 34, 58>>
Acid == <<44, 34, 97, 99, 105, 100, 34, 58>>
EncVer == <<44, 34, 101, 110, 99, 95, 118, 101, 114, 34, 58,
            34, 115, 114, 117, 110, 95, 98, 120, 49, 34, 125>>
Payload(info) ==
  Username \o JsonText(info.username) \o Password \o JsonText(info.password)
  \o IP \o JsonText(info.ip) \o Acid \o JsonText(info.acid) \o EncVer

\* Three bytes are four characters of the portal's alphabet; "=" fills the last four.
SrunBase64Alphabet == <<
  76, 86, 111, 74, 80, 105, 67, 78, 50, 82, 56, 71, 57, 48, 121, 103, 43, 104, 109, 70,
  72, 117, 97, 99, 90, 49, 79, 87, 77, 110, 114, 115, 83, 84, 88, 107, 89, 112, 85, 113,
  47, 51, 100, 108, 98, 102, 75, 119, 118, 54, 120, 122, 116, 106, 73, 55, 68, 101, 66,
  69, 52, 53, 81, 65>>
Base64(code) ==
  LET At(i) == IF i <= Len(code) THEN code[i] ELSE 0
      Sixth(j) == LET i == 3 * ((j - 1) \div 4) + 1 IN
                  CASE j % 4 = 1 -> At(i) \div 4
                    [] j % 4 = 2 -> (At(i) % 4) * 16 + At(i + 1) \div 16
                    [] j % 4 = 3 -> (At(i + 1) % 16) * 4 + At(i + 2) \div 64
                    [] j % 4 = 0 -> At(i + 2) % 64
  IN [j \in 1..(4 * ((Len(code) + 2) \div 3)) |->
        IF 6 * (j - 1) < 8 * Len(code) THEN SrunBase64Alphabet[Sixth(j) + 1] ELSE 61]

HmacMD5(key, message) == <<"hmac", <<key, message>>>>
Sha1(pieces) == <<"sha1", pieces>>
N == <<50, 48, 48>>
Typ == <<49>>

\* What the code is tagged with: {SRBX1}.
EncodeUserInfo(info, token) ==
  <<123, 83, 82, 66, 88, 49, 125>> \o Base64(XEncode(Payload(info), token))

\* A bug: the address is added to the sum before the access controller.
BuildLoginParams_Swapped(username, password, ip, acid, token) ==
  LET hmd5 == HmacMD5(token, password)
      info == EncodeUserInfo([username |-> username, password |-> password,
                              ip |-> ip, acid |-> acid], token)
  IN [username |-> username, password |-> hmd5, info |-> info, ac_id |-> acid, ip |-> ip,
      chksum |-> Sha1(<<token, username, token, hmd5, token, ip, token, acid,
                        token, N, token, Typ, token, info>>)]

\* The chksum covers the fields in this order, the token before each of them.
BuildLoginParams(username, password, ip, acid, token) ==
  LET hmd5 == HmacMD5(token, password)
      info == EncodeUserInfo([username |-> username, password |-> password,
                              ip |-> ip, acid |-> acid], token)
  IN [username |-> username, password |-> hmd5, info |-> info, ac_id |-> acid, ip |-> ip,
      chksum |-> Sha1(<<token, username, token, hmd5, token, acid, token, ip,
                        token, N, token, Typ, token, info>>)]

-----------------------------------------------------------------------------
(***************************************************************************)
(* Replies are texts of the character classes that UnwrapJSONP tells apart.*)
(***************************************************************************)
TrimSpace(text) ==
  LET from == SelectInSeq(text, LAMBDA c : c # "blank")
  IN IF from = 0 THEN <<>>
     ELSE SubSeq(text, from, SelectLastInSeq(text, LAMBDA c : c # "blank"))

\* A bug: the first closing parenthesis is taken for the callback's.
UnwrapJSONP_First(body) ==
  LET text == TrimSpace(body)
      open == SelectInSeq(text, LAMBDA c : c = "(")
      close == SelectInSeq(text, LAMBDA c : c = ")")
  IN IF text # <<>> /\ Head(text) = "obrace" THEN {text}
     ELSE IF open = 0 \/ close <= open THEN {}
     ELSE {SubSeq(text, open + 1, close - 1)}

\* The error, or the one text to decode.
UnwrapJSONP(body) ==
  LET text == TrimSpace(body)
      open == SelectInSeq(text, LAMBDA c : c = "(")
      close == SelectLastInSeq(text, LAMBDA c : c = ")")
  IN IF text # <<>> /\ Head(text) = "obrace" THEN {text}
     ELSE IF open = 0 \/ close <= open THEN {}
     ELSE {SubSeq(text, open + 1, close - 1)}
=============================================================================
