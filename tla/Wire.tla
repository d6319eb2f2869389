-------------------------------- MODULE Wire --------------------------------
(***************************************************************************)
(* What the handlers compute with the bytes of a datagram, in the widths   *)
(* of the code: the part of a record a client reads, the part of a record  *)
(* it adds, the words that stand for session ids, the free space of the    *)
(* repository and the check byte of a message.                             *)
(***************************************************************************)
EXTENDS Integers

U8(x) == x % 256
U16(x) == x % 65536

-----------------------------------------------------------------------------
(* The expression data[from:to] on an array of size bytes panics. *)
SliceFails(from, to, size) == ~(from <= to /\ to <= size)

(* Faulty: a read that ends with the record is one byte too long. *)
ReadCountOneMore(offset, count, length) ==
    IF U8(offset + count) > length THEN U8(length - offset) + 1 ELSE count

(* Get SDR and Get SEL Entry: the bytes of a record of the given length that
   are returned for an offset below it and a count, both uint8. *)
ReadCount(offset, count, length) ==
    IF U8(offset + count) > length THEN U8(length - offset) ELSE count

ReadEnd(offset, count, length) == U8(offset + ReadCount(offset, count, length))

ReadFailsAt(offset, count, length) ==
    SliceFails(offset, ReadEnd(offset, count, length), length)

(* The arrays that hold a sensor record and an event. *)
SDR_BYTES == 64
SEL_BYTES == 16

(* Add SDR: byte 4 is the length of the record behind its header of five
   bytes. The copy starts at the third byte and takes as many as there are. *)
AddedLength(byte4) == U8(byte4 + 5)
AddFails(byte4) == SliceFails(2, U8(2 + AddedLength(byte4)), SDR_BYTES)

-----------------------------------------------------------------------------
(* Session ids. A counter is shifted left by 7 of the 32 bits, so 25 bits of
   it are left; the operands of the bitwise or share no bit. *)
KEPT == 32768 * 1024
Shifted(seq) == (seq % KEPT) * 128

SessionWord(seq, slot) == Shifted(seq) + 2 * slot
TempWord(seq, user) == Shifted(seq) + 2 * user + 1

(* What sidToSession and activateSession take out of an id. *)
IsTemporary(word) == word % 2 = 1
IndexOf(word) == (word \div 2) % 64

-----------------------------------------------------------------------------
MAX_SDR_LENGTH == 261
MAX_NUM_SDRS == 1024

(* The space Get SDR Repository Info reports: the product is an uint16. *)
FreeSpace(sdrCount) ==
    LET space == U16(MAX_SDR_LENGTH * U16(MAX_NUM_SDRS - sdrCount))
    IN  IF space > 65534 THEN 65534 ELSE space

(* ipmiChecksum of bytes with the given sum, and the check byte of a message:
   the header's sum is carried over into that of the data. *)
ipmiChecksum(sum, start) == U8(0 - (start + sum))
CheckByte(headerSum, dataSum) == ipmiChecksum(dataSum, U8(0 - ipmiChecksum(headerSum, 0)))

(* What a receiver would find: a message is sound when its bytes and the
   check byte add up to 0. *)
Sound(sum, check) == U8(sum + check) = 0

=============================================================================
