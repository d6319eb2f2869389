----------------------------- MODULE WireProofs -----------------------------
(***************************************************************************)
(* What the byte arithmetic of Wire gives for every input, and where it    *)
(* stops being what a client would expect.                                 *)
(***************************************************************************)
EXTENDS Wire, TLAPS

Byte == 0 .. 255

(* A read inside eight bits returns the part of the record that is asked for,
   cut at its end, and does not fail (getSdr, getSelEntry). *)
THEOREM ReadExact ==
    ASSUME NEW offset \in Byte, NEW count \in Byte, NEW length \in 1 .. SDR_BYTES,
           offset < length, offset + count <= 255
    PROVE  /\ ~ReadFailsAt(offset, count, length)
           /\ ReadEnd(offset, count, length) =
                 IF offset + count > length THEN length ELSE offset + count
<1>1. U8(offset + count) = offset + count
  BY DEF U8, Byte
<1>2. U8(length - offset) = length - offset
  BY DEF U8, Byte, SDR_BYTES
<1>3. CASE offset + count > length
  <2>1. ReadCount(offset, count, length) = length - offset
    BY <1>1, <1>2, <1>3 DEF ReadCount
  <2>2. ReadEnd(offset, count, length) = length
    BY <2>1 DEF ReadEnd, U8, Byte, SDR_BYTES
  <2> QED
    BY <1>3, <2>2 DEF ReadFailsAt, SliceFails, Byte, SDR_BYTES
<1>4. CASE offset + count <= length
  <2>1. ReadEnd(offset, count, length) = offset + count
    BY <1>1, <1>4 DEF ReadCount, ReadEnd, SDR_BYTES, Byte
  <2> QED
    BY <1>4, <2>1 DEF ReadFailsAt, SliceFails, Byte, SDR_BYTES
<1> QED
  BY <1>3, <1>4 DEF Byte, SDR_BYTES

(* A read that leaves eight bits passes the test against the length of the
   record and then always panics: the end wrapped to before the start. *)
THEOREM ReadWraps ==
    ASSUME NEW offset \in Byte, NEW count \in Byte, NEW length \in 1 .. SDR_BYTES,
           offset < length, offset + count > 255
    PROVE  ReadFailsAt(offset, count, length)
<1>1. U8(offset + count) = offset + count - 256
  BY DEF U8, Byte
<1>2. ReadCount(offset, count, length) = count
  BY <1>1 DEF ReadCount, Byte, SDR_BYTES
<1>3. ReadEnd(offset, count, length) = offset + count - 256
  BY <1>1, <1>2 DEF ReadEnd
<1> QED
  BY <1>3 DEF ReadFailsAt, SliceFails, Byte, SDR_BYTES

(* Add SDR takes records of up to 62 bytes; a longer one, which the array
   would hold up to 64 bytes of, panics, because the copy starts two bytes
   into the array and is not cut by them (addSdr). *)
THEOREM AddFits ==
    ASSUME NEW byte4 \in 0 .. 250
    PROVE  AddFails(byte4) <=> AddedLength(byte4) > SDR_BYTES - 2
<1>1. AddedLength(byte4) = byte4 + 5
  BY DEF AddedLength, U8
<1>2. CASE byte4 + 7 <= 255
  BY <1>1, <1>2 DEF AddFails, SliceFails, U8, SDR_BYTES
<1>3. CASE byte4 + 7 > 255
  <2>1. U8(2 + (byte4 + 5)) = byte4 - 249
    BY <1>3 DEF U8
  <2> QED
    BY <1>1, <1>3, <2>1 DEF AddFails, SliceFails, SDR_BYTES
<1> QED
  BY <1>2, <1>3

(* The fields of a word that is put together of a counter's 25 bits, six bits
   of index and one that tells temporary ids. *)
Packed(w, s, i, t) == w = s * 128 + 2 * i + t
Unpacked(w, s, i, t) ==
    /\ w % 2 = t /\ IndexOf(w) = i /\ w \div 128 = s
    /\ w < 128 * (s + 1) /\ w \in Nat

LEMMA Fields ==
    ASSUME NEW s \in Nat, NEW i \in 0 .. 63, NEW t \in 0 .. 1,
           NEW w, Packed(w, s, i, t)
    PROVE  Unpacked(w, s, i, t)
<1> USE DEF Packed
<1>1. w \in Nat /\ w = 2 * (s * 64 + i) + t /\ s * 64 + i \in Nat
  BY SMT
<1>2. w % 2 = t /\ w \div 2 = s * 64 + i
  BY <1>1, SMT
<1>3. (s * 64 + i) % 64 = i
  BY SMT
<1>4. w \div 128 = s
  BY <1>1, SMT
<1>5. w < 128 * (s + 1)
  BY SMT
<1> QED
  BY <1>1, <1>2, <1>3, <1>4, <1>5, SMT DEF IndexOf, Unpacked

(* A session id names its slot, never looks like a temporary id, and keeps 25
   bits of the counter: the three fields the session layer is modelled with
   (sidToSession, activateSession). *)
THEOREM SessionWordFields ==
    ASSUME NEW seq \in Nat, NEW slot \in 0 .. 63, NEW w, w = SessionWord(seq, slot)
    PROVE  /\ ~IsTemporary(w) /\ IndexOf(w) = slot
           /\ w \div 128 = seq % KEPT
           /\ w \in 0 .. 128 * KEPT - 1
<1>1. KEPT \in Nat \ {0}
  BY SMT DEF KEPT
<1>2. seq % KEPT \in 0 .. KEPT - 1
  BY <1>1, SMT
<1>3. PICK s \in Nat : s = seq % KEPT
  BY <1>2
<1>4. Packed(w, s, slot, 0)
  BY <1>3, SMT DEF SessionWord, Shifted, Packed
<1>5. slot \in 0 .. 63 /\ 0 \in 0 .. 1
  BY SMT
<1>6. Unpacked(w, s, slot, 0)
  BY <1>4, <1>5, Fields, Zenon
<1> QED
  BY <1>1, <1>2, <1>3, <1>6, SMT DEF IsTemporary, Unpacked

(* A temporary id names its user and is told from every session id. *)
THEOREM TempWordFields ==
    ASSUME NEW seq \in Nat, NEW user \in 0 .. 63, NEW w, w = TempWord(seq, user)
    PROVE  /\ IsTemporary(w) /\ IndexOf(w) = user
           /\ w \div 128 = seq % KEPT
           /\ w \in 0 .. 128 * KEPT - 1
<1>1. KEPT \in Nat \ {0}
  BY SMT DEF KEPT
<1>2. seq % KEPT \in 0 .. KEPT - 1
  BY <1>1, SMT
<1>3. PICK s \in Nat : s = seq % KEPT
  BY <1>2
<1>4. Packed(w, s, user, 1)
  BY <1>3, SMT DEF TempWord, Shifted, Packed
<1>5. user \in 0 .. 63 /\ 1 \in 0 .. 1
  BY SMT
<1>6. Unpacked(w, s, user, 1)
  BY <1>4, <1>5, Fields, Zenon
<1> QED
  BY <1>1, <1>2, <1>3, <1>6, SMT DEF IsTemporary, Unpacked

(* Get SDR Repository Info reports the space there is only for the last 251
   records; with fewer in use the product leaves its sixteen bits. *)
THEOREM FreeSpaceExact ==
    ASSUME NEW sdrCount \in 0 .. MAX_NUM_SDRS
    PROVE  FreeSpace(sdrCount) = MAX_SDR_LENGTH * (MAX_NUM_SDRS - sdrCount)
              <=> sdrCount >= MAX_NUM_SDRS - 251
<1> DEFINE left == MAX_NUM_SDRS - sdrCount
<1>1. left \in 0 .. 1024 /\ U16(left) = left
  BY DEF MAX_NUM_SDRS, U16
<1>2. 261 * left \in Nat
  BY <1>1
<1>3. CASE left <= 251
  <2>1. U16(261 * left) = 261 * left /\ 261 * left <= 65534
    BY <1>1, <1>3 DEF U16
  <2> QED
    BY <1>1, <1>3, <2>1 DEF FreeSpace, MAX_SDR_LENGTH, MAX_NUM_SDRS
<1>4. CASE left > 251
  <2>1. 261 * left > 65535
    BY <1>1, <1>4
  <2>2. FreeSpace(sdrCount) <= 65534
    BY <1>1, <1>2 DEF FreeSpace, MAX_SDR_LENGTH, U16
  <2>3. FreeSpace(sdrCount) \in Int
    BY <1>1, <1>2 DEF FreeSpace, MAX_SDR_LENGTH, U16
  <2> QED
    BY <1>1, <1>4, <2>1, <2>2, <2>3 DEF MAX_SDR_LENGTH, MAX_NUM_SDRS
<1> QED
  BY <1>1, <1>3, <1>4

(* Every message carries a check byte that makes it sound, whatever its
   header and data (returnRsp, clientBuildMsg). *)
THEOREM MessagesSound ==
    ASSUME NEW headerSum \in Nat, NEW dataSum \in Nat
    PROVE  Sound(headerSum + dataSum, CheckByte(headerSum, dataSum))
<1>1. U8(0 - ipmiChecksum(headerSum, 0)) = U8(headerSum)
  BY DEF U8, ipmiChecksum
<1>2. CheckByte(headerSum, dataSum) = U8(0 - (U8(headerSum) + dataSum))
  BY <1>1 DEF CheckByte, ipmiChecksum
<1> QED
  BY <1>2 DEF Sound, U8

(* A message whose oem byte is set after its check byte was computed is
   unsound (pollSensors); nothing that receives it looks. *)
THEOREM PatchedUnsound ==
    ASSUME NEW headerSum \in Nat, NEW dataSum \in Nat, NEW value \in 1 .. 255
    PROVE  ~Sound(headerSum + dataSum + value, CheckByte(headerSum, dataSum))
<1> DEFINE check == CheckByte(headerSum, dataSum)
           sum == headerSum + dataSum + check
<1>1. sum % 256 = 0
  BY MessagesSound DEF Sound, U8
<1>2. check \in Nat
  BY SMT DEF CheckByte, ipmiChecksum, U8
<1>3. sum \in Nat
  BY <1>2, SMT
<1>4. ASSUME NEW n \in Nat, n % 256 = 0 PROVE (n + value) % 256 # 0
  BY <1>4, SMT
<1>5. (sum + value) % 256 # 0
  BY <1>1, <1>3, <1>4
<1>6. sum + value = (headerSum + dataSum + value) + check
  BY <1>2, SMT
<1> HIDE DEF check
<1> QED
  BY <1>5, <1>6, SMT DEF Sound, U8, check
=============================================================================
