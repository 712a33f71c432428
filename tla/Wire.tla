--------------------------------- MODULE Wire ---------------------------------
(***************************************************************************)
(* What the page's script (logger.js) and the server serialize and sign.   *)
(* Both have to come to the same bytes for the same message, each with     *)
(* conversions of its own: an HMAC is over bytes, and the message travels  *)
(* as JSON.                                                                *)
(*                                                                         *)
(* A hex string is a sequence of digits, a byte is worth two of them.  A   *)
(* double is the number that its bits spell; in JSON it is a text in       *)
(* decimals.  A byte array's HMAC is the record of what it was made from:  *)
(* HMACs are taken to be injective, and their own hex strings, which       *)
(* nobody takes apart, stand for them.                                     *)
(***************************************************************************)
EXTENDS Integers, Sequences, SequencesExt

CONSTANTS
  Base,      \* of the digits: 16 in the code
  FloatSize  \* the bytes of a double: 8 in the code

ASSUME SizesAssumption == Base \in Nat \ {0, 1} /\ FloatSize \in Nat \ {0}

ByteBase == Base * Base
HexString == Seq(0..(Base - 1))
ByteArray == Seq(0..(ByteBase - 1))

(* Weight[i]: what a one is worth in the byte after i others. *)
Weight[i \in Nat] == IF i = 0 THEN 1 ELSE ByteBase * Weight[i - 1]

(* The doubles. *)
Double == 0..(Weight[FloatSize] - 1)

LittleEndian(n, size) == [i \in 1..size |-> (n \div Weight[i - 1]) % ByteBase]

HMAC(secret, bytes) == [keyedWith |-> secret, over |-> bytes]

-----------------------------------------------------------------------------
(* logger.js *)

(* y.toString(16): no leading zero. *)
ToDigits(y) == IF y < Base THEN <<y>> ELSE <<y \div Base, y % Base>>

(* Mutant: a byte below 16 is one digit. *)
UnpaddedByteArrayToHex(x) == FlattenSeq([i \in DOMAIN x |-> ToDigits(x[i])])

byteArrayToHex(x) ==
  LET slice(s) == SubSeq(s, Len(s) - 1, Len(s))
  IN  FlattenSeq([i \in DOMAIN x |-> slice(<<0>> \o ToDigits(x[i]))])

serializeFloat64(x) == LittleEndian(x, FloatSize)

(* forge.util.bytesToHex: two digits for every byte. *)
bytesToHex(x) ==
  [i \in 1..(2 * Len(x)) |->
     IF i % 2 = 1 THEN x[(i + 1) \div 2] \div Base ELSE x[i \div 2] % Base]

(* forge.util.hexToBytes: the first digit of an odd number is a byte. *)
hexToBytes(s) ==
  LET odd == Len(s) % 2
  IN  [i \in 1..((Len(s) + odd) \div 2) |->
         IF odd = 1 /\ i = 1 THEN s[1] ELSE Base * s[2*i - 1 - odd] + s[2*i - odd]]

(* forge's putInt32Le: the lower 32 bits. *)
putInt32Le(n) == LittleEndian(n, 4)

serialize(m) ==
  hexToBytes(m.contents) \o hexToBytes(m.id) \o hexToBytes(m.salt)
    \o putInt32Le(m.unixTime) \o putInt32Le(0)

getSignature(credential, m) == HMAC(credential.secret, serialize(m))

trueByte == <<0, 1>>

(* The contents of a location, in hex for signing. *)
LocationToHex(location) ==
  byteArrayToHex(serializeFloat64(location.latitude))
    \o byteArrayToHex(serializeFloat64(location.longitude))

(* The double of which only the first bit is set. *)
NegativeZero == Weight[FloatSize] \div 2

(* What the server parses out of what JSON.stringify wrote, which is "0"    *)
(* for -0; any other number is written with as many digits as tell it from  *)
(* the others, and is taken to be parsed to the double nearest to them.     *)
ThroughJSON(x) == IF x = NegativeZero THEN 0 ELSE x

Arrived(location) ==
  [latitude |-> ThroughJSON(location.latitude), longitude |-> ThroughJSON(location.longitude)]

-----------------------------------------------------------------------------
(* The server *)

(* ByteArrayExtensions.FromHexStringAsync: the last digit of an odd number  *)
(* is dropped.                                                              *)
FromHexString(s) == [i \in 1..(Len(s) \div 2) |-> Base * s[2*i - 1] + s[2*i]]

(* ToHexString, by way of BitConverter: two digits for every byte. *)
ToHexString(x) ==
  [i \in 1..(2 * Len(x)) |->
     IF i % 2 = 1 THEN x[(i + 1) \div 2] \div Base ELSE x[i \div 2] % Base]

SerializeBool(b) == <<IF b THEN 1 ELSE 0>>

SerializeLocation(location) ==
  LittleEndian(location.latitude, FloatSize) \o LittleEndian(location.longitude, FloatSize)

SerializeMessage(contents, m) ==
  contents \o FromHexString(m.id) \o FromHexString(m.salt) \o LittleEndian(m.unixTime, 8)

(* The secret that goes with an ID: it is all the server needs to know. *)
GenerateSecret(key, id) == HMAC(key, id)

=============================================================================
