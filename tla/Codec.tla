-------------------------------- MODULE Codec --------------------------------
(***************************************************************************)
(* The size prefix of a frame, encode_u32 and decode_u32 of both programs  *)
(* (client_config.cpp:31-40, server_config.cpp:23-32), and the sizes that  *)
(* the writer and the two read loops let through.                          *)
(*                                                                         *)
(* A prefix is four bytes.  Byte is 256 in the code; everything holds for  *)
(* any base, so that TLC can take a small one and go through all numbers.  *)
(***************************************************************************)
EXTENDS Integers

CONSTANTS
  Byte,      \* values of a byte: 256
  MAX_MSG    \* the limit of both programs: 64 MiB

ASSUME CodecAssumption ==
  /\ Byte \in Nat \ {0}
  /\ MAX_MSG \in Nat /\ MAX_MSG < Byte * Byte * Byte * Byte

U8 == 0..Byte - 1
U32 == 0..Byte * Byte * Byte * Byte - 1

Prefix == U8 \X U8 \X U8 \X U8

\* A shift to the right by 24, 16, 8 or no bits, and the last byte of what is left.
encode_u32(h) ==
  <<(h \div (Byte * Byte * Byte)) % Byte,
    (h \div (Byte * Byte)) % Byte,
    (h \div Byte) % Byte,
    h % Byte>>

\* Mistakes: the bytes in the order of the machine; the first byte cut off.
decode_swapped(p) == p[4] * Byte * Byte * Byte + p[3] * Byte * Byte + p[2] * Byte + p[1]
decode_u24(p) == p[2] * Byte * Byte + p[3] * Byte + p[4]

\* The bytes shifted to their places; their bits do not meet, so that | is a sum.
decode_u32(p) == p[1] * Byte * Byte * Byte + p[2] * Byte * Byte + p[3] * Byte + p[4]

\* Mistake: the limit itself is refused by the writer only.
BelowLimit(size) == size # 0 /\ size < MAX_MSG

\* client::write throws for any other size.
Writable(size) == size # 0 /\ size <= MAX_MSG

\* Both read loops: any other size ends the connection.
Readable(n) == n # 0 /\ n <= MAX_MSG

\* static_cast<uint32_t>(data.size()), encoded.
WrittenPrefix(size) == encode_u32(size % (Byte * Byte * Byte * Byte))

-----------------------------------------------------------------------------
\* What a program writes, the other reads: the number read is the size of the
\* message exactly if the size is one that the reader accepts, and a message of
\* any size that the writer lets through is accepted.
PrefixIsSize(size) ==
  LET n == decode_u32(WrittenPrefix(size)) IN
    /\ Writable(size) => n = size /\ Readable(n)
    /\ Readable(size) => Writable(size)

\* Any four bytes, such as a reader that is out of step takes for a prefix, are
\* some 32-bit number, and the server, which encodes again what it decoded
\* (server_config.cpp:95-104), passes the same four bytes on.
PrefixSurvives(p) == decode_u32(p) \in U32 /\ encode_u32(decode_u32(p)) = p
=============================================================================
