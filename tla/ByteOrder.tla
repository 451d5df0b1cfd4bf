----------------------------- MODULE ByteOrder -----------------------------
(***************************************************************************)
(* Conversions between bytes and unsigned integers, in each byte order, on *)
(* the little-endian machines that base runs on                            *)
(* (base/numerics/byte_conversions.h, basic_ops_impl.h, sys_byteorder.h).  *)
(*                                                                         *)
(* The functions for 1, 2, 4 and 8 bytes are one operator with the size as *)
(* a parameter.  A float is the integer of the same bits.                  *)
(***************************************************************************)
EXTENDS Integers, Sequences

CONSTANT ByteBits      \* bits of a byte

Shift(i) == 2^(ByteBits * i)

(* (value >> (8 * i)) & 0xff *)
ByteAt(value, i) == (value \div Shift(i)) % Shift(1)

(* The sum of what the shifted bytes give. *)
Sum(n, term) ==
  LET sum[i \in 0 .. n] == IF i = 0 THEN 0 ELSE sum[i - 1] + term[i - 1]
  IN  sum[n]

SwapBytes(size, value) ==
  Sum(size, [i \in 0 .. size - 1 |-> ByteAt(value, i) * Shift(size - 1 - i)])

FromLittleEndian(bytes) ==
  Sum(Len(bytes), [i \in 0 .. Len(bytes) - 1 |-> bytes[i + 1] * Shift(i)])

ToLittleEndian(size, value) == [i \in 1 .. size |-> ByteAt(value, i - 1)]

(* Native order is the little-endian one: these are the functions that     *)
(* programs call by either name.                                           *)
FromNativeEndian(bytes) == FromLittleEndian(bytes)
ToNativeEndian(size, value) == ToLittleEndian(size, value)

FromBigEndian(bytes) ==
  IF Len(bytes) = 1 THEN bytes[1] ELSE SwapBytes(Len(bytes), FromLittleEndian(bytes))

ToBigEndian(size, value) ==
  IF size = 1 THEN <<value>> ELSE ToLittleEndian(size, SwapBytes(size, value))

(* ByteSwap of sys_byteorder.h, on the way in and on the way out. *)
NetToHost(size, value) == SwapBytes(size, value)
HostToNet(size, value) == SwapBytes(size, value)
=============================================================================
