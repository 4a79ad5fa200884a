----------------------------- MODULE Addresses -----------------------------
(***************************************************************************)
(* class Address (libsponge/util/address.hh, address.cc): a socket address *)
(* as the kernel lays it out, and its conversions to and from numbers.     *)
(*                                                                         *)
(* storage is the memory of a sockaddr_storage, of which the first `size`  *)
(* bytes are the address.  The layout of sockaddr_in is the platform's:    *)
(* here a byte for the family, one for the port and four for the number.   *)
(* A byte has B values (256 in the code).                                  *)
(***************************************************************************)
EXTENDS Bytes, SequencesExt

StorageSize == 8
SockaddrInSize == 6
AF_INET == 1

Threw == [size |-> -1, storage |-> <<>>]

\* Address(addr, size): a size that does not fit throws.
AddressOf(addr, size) ==
  IF size > StorageSize THEN Threw
  ELSE [size |-> size,
        storage |-> [i \in 1..StorageSize |-> IF i <= size THEN addr[i] ELSE 0]]

\* The memory of a uint32_t on a little-endian host.
host32(number) == [i \in 1..4 |-> (number \div Weight(i - 1)) % B]

\* The memory of htobe32(number), and the number be32toh() makes of it.
htobe32(number) == Reverse(host32(number))
be32toh(bytes) == FoldLeft(LAMBDA number, byte : number * B + byte, 0, bytes)

s_addr_in_host_order(ip_address) == host32(ip_address)

s_addr(ip_address) == htobe32(ip_address)

from_ipv4_numeric(ip_address) ==
  AddressOf(<<AF_INET, 0>> \o s_addr(ip_address), SockaddrInSize)

\* -1 stands for the exception.
ipv4_numeric(address) ==
  IF address.storage[1] # AF_INET \/ address.size # SockaddrInSize THEN -1
  ELSE be32toh(SubSeq(address.storage, 3, SockaddrInSize))

\* operator==: the sizes, then that many bytes.
Equal(a, b) ==
  /\ a.size = b.size
  /\ SubSeq(a.storage, 1, a.size) = SubSeq(b.storage, 1, a.size)
=============================================================================
