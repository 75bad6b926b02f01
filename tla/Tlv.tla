-------------------------------- MODULE Tlv --------------------------------
(***************************************************************************)
(* tlv.c on a little-endian host: a value with its number, type and length *)
(* is packed into a buffer, and the buffer is unpacked, whole or cut.      *)
(***************************************************************************)
EXTENDS Integers, Sequences, SequencesExt

CONSTANTS Tlvs,   \* what is packed: [id, type, value], value a sequence of bytes
          Sizes   \* the sizes of buffers

Short == 0 .. 65535   \* uint16_t

ASSUME TlvAssumption ==
  /\ Tlvs \subseteq [id : Short, type : Short, value : Seq(0 .. 255)]
  /\ \A t \in Tlvs : Len(t.value) \in Short
  /\ Sizes \subseteq Nat

IntTypes == 1 .. 6     \* TLV_TYPE_INT8 .. TLV_TYPE_UINT32
TLV_TYPE_BYTES == 7
Width(type) == CASE type \in {1, 2} -> 1 [] type \in {3, 4} -> 2 [] type \in {5, 6} -> 4
HeaderSize == 6
Undefined == -1   \* no byte: what is beyond the packet

VARIABLES tlv,      \* what is packed
          packet,   \* the bytes tlv_pack has written, of a refused value the header at most
          phase,    \* "new", "packed", "refused", "done" or "failed"
          sz,       \* how much tlv_unpack is told there is
          unpacked  \* what it has unpacked

packetsVars == <<tlv, packet, phase, sz, unpacked>>

PacketsInit ==
  /\ tlv \in Tlvs
  /\ packet = <<>> /\ phase = "new" /\ sz = 0
  /\ unpacked = [id |-> 0, type |-> 0, value |-> <<>>]

\* htons, and ntohs of the bytes at p
Htons(x) == <<x \div 256, x % 256>>
Ntohs(bytes, p) == bytes[p] * 256 + bytes[p + 1]

tlv_get_packed_size(t) == HeaderSize + Len(t.value)

\* pack_value, of the bytes from p: whether there is room, and what is written.
Fits(type, length, room) ==
  \/ type = TLV_TYPE_BYTES /\ length <= room
  \/ type \in IntTypes /\ Width(type) <= room
\* mutant: numbers are left in the order of the host
PackedHost(type, value) ==
  IF type = TLV_TYPE_BYTES THEN value ELSE SubSeq(value, 1, Width(type))
Packed(type, value) ==
  IF type = TLV_TYPE_BYTES THEN value ELSE Reverse(SubSeq(value, 1, Width(type)))

Header(t) == Htons(t.id) \o Htons(t.type) \o Htons(Len(t.value))

\* A number packs when its length is its width or more; the length goes out as it is.
\* The header of a value that is refused by pack_value is written already.
tlv_pack(out_sz) ==
  LET room == tlv_get_packed_size(tlv) - HeaderSize
  IN  /\ phase = "new"
      /\ \/ /\ tlv_get_packed_size(tlv) > out_sz
            /\ phase' = "refused" /\ UNCHANGED packet
         \/ /\ tlv_get_packed_size(tlv) <= out_sz /\ ~ Fits(tlv.type, Len(tlv.value), room)
            /\ phase' = "refused" /\ packet' = Header(tlv)
         \/ /\ tlv_get_packed_size(tlv) <= out_sz /\ Fits(tlv.type, Len(tlv.value), room)
            /\ phase' = "packed" /\ packet' = Header(tlv) \o Packed(tlv.type, tlv.value)
      /\ UNCHANGED <<tlv, sz, unpacked>>

\* unpack_value: the numbers are given no room (out_sz = 0), so that they never unpack.
Unpacks(type, length) == Fits(type, length, IF type = TLV_TYPE_BYTES THEN length ELSE 0)

tlv_unpack(size) ==
  LET at(p)  == IF p <= Len(packet) /\ p <= size THEN packet[p] ELSE Undefined
      length == Ntohs(packet, 5)
      type   == Ntohs(packet, 3)
  IN  /\ phase = "packed" /\ size >= HeaderSize
      /\ sz' = size
      /\ IF length <= size /\ Unpacks(type, length)
         THEN /\ phase' = "done"
              /\ unpacked' = [id |-> Ntohs(packet, 1), type |-> type,
                               value |-> Packed(type, [i \in 1 .. length |-> at(HeaderSize + i)])]
         ELSE phase' = "failed" /\ UNCHANGED unpacked
      /\ UNCHANGED <<tlv, packet>>

PacketsNext == \E n \in Sizes : tlv_pack(n) \/ tlv_unpack(n)

PacketsSpec == PacketsInit /\ [][PacketsNext]_packetsVars

-----------------------------------------------------------------------------
\* A packet is its header and its bytes, high byte first, within the size that was
\* computed for it; bytes unpack as they were packed when the whole packet is there,
\* and never when less than their length is. (tlv_pack, tlv_unpack)
RoundTrip ==
  /\ phase \in {"packed", "done", "failed"} =>
       /\ Len(packet) <= tlv_get_packed_size(tlv)
       /\ tlv.type \in IntTypes =>
            \A i \in 1 .. Width(tlv.type) :
               packet[HeaderSize + i] = tlv.value[Width(tlv.type) + 1 - i]
  /\ phase \in {"done", "failed"} /\ sz >= tlv_get_packed_size(tlv) =>
       (phase = "done" <=> tlv.type = TLV_TYPE_BYTES)
  /\ phase = "done" =>
       /\ sz >= Len(tlv.value)
       /\ \/ unpacked = tlv
          \/ sz < tlv_get_packed_size(tlv) /\ Undefined \in ToSet(unpacked.value)
=============================================================================
