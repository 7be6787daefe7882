------------------------------- MODULE Codec -------------------------------
(* src/util/encode.c and encrypt.c, and the programs that chain them: mkpass,*)
(* encfile and decfile, mkkey and the key feeder of syscmd.  A byte is a     *)
(* number; on its way through the encoder it is its bits, lowest first, and  *)
(* an encoded character is the tuple of its six bits.                        *)
EXTENDS Naturals, Sequences, SequencesExt

CONSTANT SboxSize       \* entries of the encryptor's permutation, 256 in the code

Mask == <<1, 2, 4, 8, 16, 32, 64, 128>>
BitsOf(n, width) == [k \in 1..width |-> (n \div Mask[k]) % 2]
NumberOf(bits) == bits[1] + 2 * bits[2] + 4 * bits[3] + 8 * bits[4]
                  + 16 * bits[5] + 32 * bits[6] + 64 * bits[7] + 128 * bits[8]

-----------------------------------------------------------------------------
(* The encoder: och and omask are the pending bits, out what func was given. *)

NoContext == [pending |-> <<>>, out |-> <<>>]

PushBit(ctx, bit, width) ==
  LET pending == Append(ctx.pending, bit)
  IN  IF Len(pending) < width THEN [ctx EXCEPT !.pending = pending]
      ELSE [pending |-> <<>>, out |-> Append(ctx.out, pending)]

Push(ctx, bits, width) == FoldLeft(LAMBDA c, bit : PushBit(c, bit, width), ctx, bits)

EncodeByte(ctx, byte) == Push(ctx, BitsOf(byte, 8), 6)

(* Seeded fault: what is pending at the end is dropped.                      *)
EncodeEndDrops(ctx) == [ctx EXCEPT !.pending = <<>>]

EncodeEnd(ctx) ==
  IF ctx.pending = <<>> THEN ctx
  ELSE [pending |-> <<>>,
        out |-> Append(ctx.out, [k \in 1..6 |-> IF k \in DOMAIN ctx.pending
                                                THEN ctx.pending[k] ELSE 0])]

(* A character that etab does not have decodes like the first that it has.   *)
Newline == <<>>           \* a character that is not in etab
Dec(ch) == IF ch = Newline THEN BitsOf(0, 6) ELSE ch
DecodeByte(ctx, ch) == Push(ctx, Dec(ch), 8)
DecodeEnd(ctx) == [ctx EXCEPT !.pending = <<>>]

Encode(bytes) == EncodeEnd(FoldLeft(EncodeByte, NoContext, bytes)).out
Decode(text) ==
  LET out == DecodeEnd(FoldLeft(DecodeByte, NoContext, text)).out
  IN  [k \in DOMAIN out |-> NumberOf(out[k])]

-----------------------------------------------------------------------------
(* The encryptor: the permutation sbox with its two counters.                *)

Places == 0..SboxSize - 1
Swap(f, i, j) == [f EXCEPT ![i] = f[j], ![j] = f[i]]

(* encryptor_init; the key is not empty.                                     *)
KeySchedule(key) ==
  LET turn[n \in 0..SboxSize] ==
        IF n = 0 THEN [j |-> 0, sbox |-> [i \in Places |-> i]]
        ELSE LET c == turn[n - 1]
                 j == (c.j + c.sbox[n - 1] + key[((n - 1) % Len(key)) + 1]) % SboxSize
             IN  [j |-> j, sbox |-> Swap(c.sbox, n - 1, j)]
  IN  [i |-> 0, j |-> 0, out |-> <<>>, sbox |-> turn[SboxSize].sbox]

Xor(a, b) ==
  LET p == BitsOf(a, 8) q == BitsOf(b, 8)
  IN  NumberOf([k \in 1..8 |-> (p[k] + q[k]) % 2])

DoByte(ctx, byte) ==
  LET i == (ctx.i + 1) % SboxSize
      j == (ctx.j + ctx.sbox[i]) % SboxSize
      sbox == Swap(ctx.sbox, i, j)
  IN  [i |-> i, j |-> j, sbox |-> sbox,
       out |-> Append(ctx.out, Xor(byte, sbox[(sbox[i] + sbox[j]) % SboxSize]))]

EncryptByte(ctx, byte) == DoByte(ctx, byte)
DecryptByte(ctx, byte) == DoByte(ctx, byte)

Encrypt(start, bytes) == FoldLeft(EncryptByte, start, bytes).out
Decrypt(start, bytes) == FoldLeft(DecryptByte, start, bytes).out

-----------------------------------------------------------------------------
(* The programs; start is KeySchedule of their key.                          *)

Encfile(start, bytes) == Encode(Encrypt(start, bytes))
Decfile(start, text) == Decrypt(start, Decode(text))

(* The key of mkkey, and its optional phrase, each under a fresh key.        *)
Mkkey(start, bytes) == Encode(Encrypt(start, bytes))
FeedKey(start, text) == Decrypt(start, Decode(text))

(* mkpass encrypts a -1 at the end, of which the encoder takes the low byte, *)
(* and does not flush.                                                       *)
Mkpass(start, bytes) ==
  FoldLeft(EncodeByte, NoContext, Encrypt(start, Append(bytes, 255))).out

-----------------------------------------------------------------------------
(* decfile and the feeder of syscmd undo encfile and mkkey for every length, *)
(* although three bytes become four characters and a rest is padded, and     *)
(* also if a newline follows the text; what mkpass makes decodes to its      *)
(* string, with the byte 255 behind it when the bits come out even.          *)
ProgramsRoundTrip(start, bytes) ==
  /\ Decfile(start, Encfile(start, bytes)) = bytes
  /\ FeedKey(start, Mkkey(start, bytes)) = bytes
  /\ Decfile(start, Mkpass(start, bytes)) =
       (IF Len(bytes) % 3 = 2 THEN Append(bytes, 255) ELSE bytes)
  /\ LET more == Decfile(start, Append(Encfile(start, bytes), Newline))
     IN  SubSeq(more, 1, Len(bytes)) = bytes /\ Len(more) <= Len(bytes) + 1

(* The state of the encryptor stays a permutation.                           *)
SboxIsPermutation(start, bytes) ==
  LET ctx == FoldLeft(DoByte, start, bytes)
  IN  {ctx.sbox[k] : k \in Places} = Places
=============================================================================
