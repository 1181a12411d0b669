-------------------------------- MODULE StrKey --------------------------------
(***************************************************************************)
(* Destinations: src/src/StrKeyCodec.ts and DestinationValidator.ts, pure. *)
(*                                                                         *)
(* A text is the sequence of its characters: 0..31 are the values of the   *)
(* base32 alphabet (all of them alphanumeric), 32 is the colon, 33 any     *)
(* other alphanumeric character, 34 any other character.  The lengths of a *)
(* key (32 bytes) and of a subaccount id (8) are parameters: with lengths  *)
(* of the same remainder modulo 5 an address leaves as many bits over.     *)
(***************************************************************************)
EXTENDS Integers, Sequences, FiniteSets

CONSTANTS
  KeyLength,   \* the bytes of a public key, a contract id or a pool id
  IdLength     \* the bytes of the id of a subaccount

ASSUME LengthAssumption == {KeyLength, IdLength} \subseteq Nat \ {0}

Base32       == 0..31
Colon        == 32
Alphanumeric == Base32 \cup {33}

-----------------------------------------------------------------------------
(* Base32.  Bytes are only ever regrouped, so a string of bytes is the     *)
(* sequence of its bits, most significant first.                           *)

Bits(words, w) ==
  [i \in 1 .. (w * Len(words)) |->
     (words[(i - 1) \div w + 1] \div (2 ^ (w - 1 - ((i - 1) % w)))) % 2]
Zeros(n) == [i \in 1 .. n |-> 0]

\* The bits left over after the last whole byte must be too few for another
\* character, and zero.  Mutant: their value is never looked at.
AnyPadding(bits)  == Len(bits) % 8 < 5
ZeroPadding(bits) ==
  Len(bits) % 8 < 5 /\ \A i \in Len(bits) - (Len(bits) % 8) + 1 .. Len(bits) : bits[i] = 0

IsBase32(text) ==
  /\ text # <<>>
  /\ \A i \in DOMAIN text : text[i] \in Base32
  /\ ZeroPadding(Bits(text, 5))

decodeBase32(text) == LET bits == Bits(text, 5) IN SubSeq(bits, 1, Len(bits) - (Len(bits) % 8))
encodeBase32(bits) ==
  LET padded == bits \o Zeros(4)
  IN  [k \in 1 .. Len(padded) \div 5 |->
         CHOOSE x \in Base32 : Bits(<<x>>, 5) = SubSeq(padded, 5 * k - 4, 5 * k)]

-----------------------------------------------------------------------------
(* CRC16-XModem: a bit at a time is a byte at a time.                      *)

\* Shifting left, and exclusive or with 0x1021 (bits 12, 5 and 0 of 15 .. 0).
Shift(crc, bit) ==
  LET shifted == Tail(crc) \o <<0>>
  IN  IF crc[1] = bit THEN shifted
      ELSE [k \in 1 .. 16 |-> IF k \in {4, 11, 16} THEN 1 - shifted[k] ELSE shifted[k]]

crc16XModem(bits) ==
  LET crc[i \in 0 .. Len(bits)] == IF i = 0 THEN Zeros(16) ELSE Shift(crc[i - 1], bits[i])
  IN  crc[Len(bits)]

\* The low byte comes first.
Checksum(bits) == LET crc == crc16XModem(bits) IN SubSeq(crc, 9, 16) \o SubSeq(crc, 1, 8)

-----------------------------------------------------------------------------
(* Strkeys.                                                                *)

StrKeyType == {"ed25519PublicKey", "med25519PublicKey", "contract", "liquidityPool"}

versionByte ==
  [ed25519PublicKey |-> 6 * 8, med25519PublicKey |-> 12 * 8, contract |-> 2 * 8, liquidityPool |-> 11 * 8]
VersionBits(type) == Bits(<<versionByte[type]>>, 8)

payloadLength(type) == IF type = "med25519PublicKey" THEN KeyLength + IdLength ELSE KeyLength

encodeStrKey(type, payload) ==
  LET framed == VersionBits(type) \o payload IN encodeBase32(framed \o Checksum(framed))

\* Is text a strkey of that type?  No two types share a version byte.
isValidStrKey(text, type) ==
  IsBase32(text) /\
  LET bits == decodeBase32(text)
      body == SubSeq(bits, 1, Len(bits) - 16)
  IN  /\ Len(bits) >= 24
      /\ SubSeq(bits, 1, 8) = VersionBits(type)
      /\ Len(body) - 8 = 8 * payloadLength(type)
      /\ bits = body \o Checksum(body)

Payload(text) == LET bits == decodeBase32(text) IN SubSeq(bits, 9, Len(bits) - 16)

-----------------------------------------------------------------------------
(* Destinations.                                                           *)

Colons(text) == {i \in DOMAIN text : text[i] = Colon}

validateAsset(text) ==
  \E i \in Colons(text) :
    /\ Colons(text) = {i}
    /\ i - 1 \in 1 .. 12
    /\ \A j \in 1 .. i - 1 : text[j] \in Alphanumeric
    /\ isValidStrKey(SubSeq(text, i + 1, Len(text)), "ed25519PublicKey")

validateDestination(text) ==
  IF Colons(text) # {} THEN validateAsset(text)
  ELSE \E type \in StrKeyType : isValidStrKey(text, type)

\* What a valid destination is looked up as: itself, but the account behind it
\* if it names a subaccount.
canonical(text) ==
  IF isValidStrKey(text, "med25519PublicKey")
    THEN encodeStrKey("ed25519PublicKey", SubSeq(Payload(text), 1, 8 * KeyLength))
    ELSE text
=============================================================================
