---------------------------- MODULE ReaderLayout ----------------------------
(***************************************************************************)
(* Where HedgedReader<T> puts the copies of an element                     *)
(* (tailslayer/include/tailslayer/hedged_reader.hpp).  The replica page is *)
(* cut into chunks of channel_offset bytes; replica i owns every chunk     *)
(* whose number is i modulo num_channels.  The constructor precomputes a   *)
(* shift and a mask, so that the address of a logical index takes no       *)
(* division.  Addresses are counted in elements from m_replica_page.       *)
(***************************************************************************)
EXTENDS Integers, FiniteSetsExt

CONSTANTS SizeOfT,        \* sizeof(T)
          ChannelOffset,  \* m_channel_offset, in bytes
          NumChannels,    \* m_num_channels
          Replicas,       \* N
          PageBytes       \* kHUGEPAGE_SIZE

\* The constructor's two assertions, and what the types of its arguments give.
ASSUME LayoutAssumption ==
  /\ SizeOfT \in Nat \ {0} /\ ChannelOffset \in Nat \ {0}
  /\ NumChannels \in Nat \ {0} /\ Replicas \in Nat \ {0} /\ PageBytes \in Nat
  /\ ChannelOffset % SizeOfT = 0
  /\ Replicas <= NumChannels

elements_per_chunk == ChannelOffset \div SizeOfT
stride_bytes == NumChannels * ChannelOffset
max_strides == PageBytes \div stride_bytes

\* __builtin_ctzll: the largest power of two that divides n.
Ctz(n) == Max({k \in 0 .. n : n % (2 ^ k) = 0})

\* Bitwise and of a and b, up to the bits that b has.
Bit(a, k) == (a \div (2 ^ k)) % 2
And(a, b) == MapThenSumSet(LAMBDA k : Bit(a, k) * Bit(b, k) * (2 ^ k), 0 .. b)

m_capacity == max_strides * elements_per_chunk
m_chunk_shift == Ctz(elements_per_chunk)
m_chunk_mask == elements_per_chunk - 1
m_stride_in_elements == stride_bytes \div SizeOfT

\* mutant: the mask is the chunk's size, its - 1 is forgotten.
MaskTooWide(replica, logical_index) ==
  replica * elements_per_chunk
    + (logical_index \div (2 ^ m_chunk_shift)) * m_stride_in_elements
    + And(logical_index, m_chunk_mask + 1)

\* mutant: the replicas lie a stride apart, not a channel offset.
ReplicasAStrideApart(replica, logical_index) ==
  replica * m_stride_in_elements
    + (logical_index \div (2 ^ m_chunk_shift)) * Replicas * m_stride_in_elements
    + And(logical_index, m_chunk_mask)

get_next_logical_index_address(replica, logical_index) ==
  LET chunk_idx == logical_index \div (2 ^ m_chunk_shift)
      offset_in_chunk == And(logical_index, m_chunk_mask)
  IN replica * elements_per_chunk
       + chunk_idx * m_stride_in_elements + offset_in_chunk

\* Shift and mask do what a division by the chunk would: what the layout relies on,
\* and what holds if the number of elements in a chunk is a power of two.
ChunkIsPowerOfTwo ==
  /\ 2 ^ m_chunk_shift = elements_per_chunk
  /\ \A n \in 0 .. m_capacity - 1 : And(n, m_chunk_mask) = n % elements_per_chunk

ReplicaIds == 0 .. Replicas - 1
Indices == 0 .. m_capacity - 1
PageElements == PageBytes \div SizeOfT

\* The chunk of an address, hence the channel slot it is meant to be in.
ChannelSlot(address) == (address \div elements_per_chunk) % NumChannels
=============================================================================
