----------------------------- MODULE SecureHash -----------------------------
(***************************************************************************)
(* crypto/sha1, external: the digest that src/src/srun.go sums a login     *)
(* with, as FIPS 180-4 defines it, on the 32-bit words of SrunCodec.       *)
(***************************************************************************)
EXTENDS SrunCodec

AndWord(a, b) == [i \in 1..2 |-> (a[i] + b[i] - XorHalf(a[i], b[i])) \div 2]
Rotate(a, k) == XorWord(ShiftLeft(a, k), <<0, a[1] \div 2^(16 - k)>>)

\* The message, a one bit, zeros, and the length in bits, as words in blocks of 16.
Padded(message) ==
  LET zeros == [i \in 1..((55 - Len(message)) % 64) |-> 0]
      length == LengthWord(8 * Len(message))
      bytes == message \o <<128>> \o zeros \o <<0, 0, 0, 0>>
      words == [w \in 1..(Len(bytes) \div 4) |->
                  <<bytes[4 * w - 3] * 256 + bytes[4 * w - 2],
                    bytes[4 * w - 1] * 256 + bytes[4 * w]>>]
  IN Append(words, length)

\* The 80 words that a block is stretched to.
Schedule(block) ==
  LET f[t \in 16..80] ==
        IF t = 16 THEN block
        ELSE LET w == f[t - 1]
             IN Append(w, Rotate(XorWord(XorWord(w[t - 3], w[t - 8]),
                                         XorWord(w[t - 14], w[t - 16])), 1))
  IN f[80]

\* Choice, parity, majority and parity, each for twenty rounds.
Blend(t, b, c, d) ==
  IF t <= 20 THEN XorWord(d, AndWord(b, XorWord(c, d)))
  ELSE IF t \in 41..60 THEN XorWord(AndWord(b, c), AndWord(d, XorWord(b, c)))
  ELSE XorWord(b, XorWord(c, d))
Round == <<<<23170, 31129>>, <<28377, 60321>>, <<36635, 48348>>, <<51810, 49622>>>>

\* The five words stand in reverse order, e to a.
OneRound(h, w, t) ==
  <<h[2], h[3], Rotate(Rotate(h[4], 15), 15), h[5],
    Add(Add(Add(Rotate(h[5], 5), Blend(t, h[4], h[3], h[2])), Add(h[1], Round[(t + 19) \div 20])),
        w[t])>>
Compress(h, block) ==
  LET w == Schedule(block)
      f[t \in 0..80] == IF t = 0 THEN h ELSE OneRound(f[t - 1], w, t)
      last == f[80]
  IN <<Add(h[1], last[1]), Add(h[2], last[2]), Add(h[3], last[3]), Add(h[4], last[4]),
       Add(h[5], last[5])>>

Start == <<<<50130, 57840>>, <<4146, 21622>>, <<39098, 56574>>, <<61389, 43913>>, <<26437, 8961>>>>
Digest(message) ==
  LET words == Padded(message)
      f[b \in 0..(Len(words) \div 16)] ==
        IF b = 0 THEN Start ELSE Compress(f[b - 1], SubSeq(words, 16 * b - 15, 16 * b))
  IN f[Len(words) \div 16]

\* sha1Hex: eight characters for a word, in ASCII.
HexDigest(message) ==
  LET digest == Digest(message)
      Nibble(j) == LET word == digest[5 - (j - 1) \div 8]
                       half == word[IF (j - 1) % 8 < 4 THEN 1 ELSE 2]
                   IN (half \div 16^(3 - ((j - 1) % 4))) % 16
  IN [j \in 1..40 |-> IF Nibble(j) < 10 THEN 48 + Nibble(j) ELSE 87 + Nibble(j)]
=============================================================================
