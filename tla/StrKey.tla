------------------------------- MODULE StrKey -------------------------------
(***************************************************************************)
(* The StrKey codec of agent-tx (src/tools/agent-tx/src/base32.rs and      *)
(* strkey.rs): a version byte, the payload and a CRC16-XModem checksum, in *)
(* base 32.  A byte is a number, a character its position in the alphabet  *)
(* B32; NotB32 stands for any character outside it (lowercase too).        *)
(***************************************************************************)
EXTENDS Integers, SequencesExt

CONSTANTS
    NotB32,      \* a character outside the alphabet
    PayloadLen   \* 32 in the code

(* Eight characters hold five bytes: with a multiple of five there is no   *)
(* padding, as in the code (35 bytes, 56 characters).                      *)
ASSUME StrKeyConstants == PayloadLen \in Nat /\ (PayloadLen + 3) % 5 = 0

Byte == 0 .. 255
B32  == 0 .. 31
VER_ACCOUNT  == 48
VER_CONTRACT == 16
VER_SECRET   == 144

STRKEY_LEN == ((PayloadLen + 3) * 8) \div 5

-----------------------------------------------------------------------------
(* A bit of x, named by its weight, and x with that bit flipped. *)
Bit(x, weight) == (x \div weight) % 2 = 1
Flip(x, weight) == IF Bit(x, weight) THEN x - weight ELSE x + weight

(* Seeded fault: the polynomial is never applied. *)
CrcShiftOnly(crc) == (crc * 2) % 65536

(* One turn of the inner loop, on a u16; the polynomial is 0x1021. *)
CrcShift(crc) ==
    IF Bit(crc, 32768) THEN Flip(Flip(Flip((crc * 2) % 65536, 1), 32), 4096) ELSE crc * 2

(* A byte is xored into the high byte and shifted through. *)
crc16_xmodem(data) ==
    LET Weights == <<1, 2, 4, 8, 16, 32, 64, 128>>
        CrcByte(crc, b) ==
            FoldLeft(LAMBDA c, w : CrcShift(c),
                     FoldLeft(LAMBDA c, w : IF Bit(b, w) THEN Flip(c, w * 256) ELSE c, crc, Weights),
                     Weights)
    IN  FoldLeft(CrcByte, 0, data)

(* The bit accumulator of both codecs: `in` bits are shifted in, whole     *)
(* groups of `out` bits are taken off the top, the rest is kept.           *)
Regroup(in, out, s, v) ==
    LET acc  == s.acc * 2 ^ in + v
        bits == s.bits + in
        rest == bits % out
    IN  [acc  |-> acc % 2 ^ rest,
         bits |-> rest,
         out  |-> s.out \o [i \in 1 .. bits \div out |-> (acc \div 2 ^ (bits - out * i)) % 2 ^ out]]

NoBits == [acc |-> 0, bits |-> 0, out |-> <<>>]

(* Left-over bits that do not make a byte are dropped. *)
base32_decode(input) == FoldLeft(LAMBDA s, v : Regroup(5, 8, s, v), NoBits, input).out

(* Left-over bits are padded to a last character. *)
base32_encode(data) ==
    LET s == FoldLeft(LAMBDA t, v : Regroup(8, 5, t, v), NoBits, data)
    IN  IF s.bits > 0 THEN Append(s.out, (s.acc * 2 ^ (5 - s.bits)) % 32) ELSE s.out

(* The checksum follows low byte first. *)
strkey_encode(version, payload) ==
    LET raw == <<version>> \o payload
        crc == crc16_xmodem(raw)
    IN  base32_encode(raw \o <<crc % 256, crc \div 256>>)

-----------------------------------------------------------------------------
Malformed == [version |-> -1, payload |-> <<>>]

(* decode_strkey: every character is in the alphabet, the length fits and  *)
(* the checksum matches.                                                   *)
decode_strkey(value) ==
    IF value = <<>> \/ (\E i \in DOMAIN value : value[i] = NotB32) \/ Len(value) # STRKEY_LEN
    THEN Malformed
    ELSE LET raw  == base32_decode(value)
             body == SubSeq(raw, 1, PayloadLen + 1)
         IN  IF crc16_xmodem(body) = raw[PayloadLen + 3] * 256 + raw[PayloadLen + 2]
             THEN [version |-> body[1], payload |-> Tail(body)]
             ELSE Malformed

(* Seeded fault: any well-formed key passes for any kind. *)
any_version(kind) == {VER_ACCOUNT, VER_CONTRACT, VER_SECRET}

(* KeyKind::versions *)
versions(kind) ==
    CASE kind = "Contract"  -> {VER_CONTRACT}
      [] kind = "Account"   -> {VER_ACCOUNT}
      [] kind = "Recipient" -> {VER_ACCOUNT, VER_CONTRACT}
      [] kind = "Secret"    -> {VER_SECRET}

validate_key(kind, value) == decode_strkey(value).version \in versions(kind)
=============================================================================
