-------------------------- MODULE PrefixBloomFilter --------------------------
(***************************************************************************)
(* The filter that tells which data blocks may hold a key                  *)
(* (prefixBloomFilter.hpp) over the bitmap that has a column per block     *)
(* (bitMap.hpp).  A bitmap is the set of its bits that are 1, each named   *)
(* by its byte and its place in the byte.  A port is a number, an address  *)
(* the sequence of its bytes, the most significant first; the hash is any  *)
(* function.                                                               *)
(***************************************************************************)
EXTENDS Integers, Sequences

CONSTANTS
    Slice,      \* SLICE_VALUE_COUNT: values of a byte
    PortLen,    \* PORT_BIT_LEN: number of ports
    BloomLen,   \* IPV4_BLOOM_LEN and IPV6_BLOOM_LEN, which are equal
    SixLen,     \* bytes of an IPv6 address
    Hashes,     \* how many hash functions
    Hash(_, _), \* hashFunction of a prefix, by number, modulo BloomLen
    Cols        \* columns of the bitmap

(* The constructor of BitMap refuses other numbers of columns.             *)
ASSUME FilterAssumption ==
    /\ {Slice, PortLen, BloomLen, Hashes, Cols} \subseteq Nat \ {0}
    /\ SixLen \in Nat /\ SixLen > 2 /\ Cols % 8 = 0

PortTypes == {"srcport", "dstport"}
IPv4Types == {"srcip", "dstip"}
IPv6Types == {"srcipv6", "dstipv6"}

IPv4BitLen == Slice * Slice * 2 + Slice * BloomLen * 2
IPv6BitLen == Slice * Slice + Slice * BloomLen * (SixLen - 2)
RowCount   == (PortLen + IPv4BitLen + IPv6BitLen) * 2

(* The byte of a row and column, and the bit in it.                        *)
Width == Cols \div 8

(* Mutant of GetByteIndex: eight neighbouring columns share a byte.        *)
GetByteIndexUsual(row, col) == row * Width + col \div 8

GetByteIndex(row, col) == row * Width + (col % Width)
GetBitIndex(col) == col \div Width
Bit(row, col) == <<GetByteIndex(row, col), GetBitIndex(col)>>

InRange(row, col) == row < RowCount /\ col < Cols

GetBit(bitmap, row, col) == InRange(row, col) /\ Bit(row, col) \in bitmap

(* Sets the rows of a key.  The code stops at a row out of range, here the *)
(* rows in range are set all the same: no key has a row out of range.      *)
SetRows(bitmap, rows, col) ==
    bitmap \cup {Bit(row, col) : row \in {r \in rows : InRange(r, col)}}

(* Where the rows of a type of key begin.                                  *)
Offset(type) ==
    CASE type = "srcport" -> 0
      [] type = "dstport" -> PortLen
      [] type = "srcip"   -> PortLen * 2
      [] type = "dstip"   -> PortLen * 2 + IPv4BitLen
      [] type = "srcipv6" -> PortLen * 2 + IPv4BitLen * 2
      [] type = "dstipv6" -> PortLen * 2 + IPv4BitLen * 2 + IPv6BitLen

(* Level l of the filter: byte l + 3 of the address, hashed with the bytes *)
(* before it.                                                              *)
BloomRows(ip, begin, l) ==
    {begin + Slice * BloomLen * l + ip[l + 3] * Slice + Hash(SubSeq(ip, 1, l + 2), i) :
        i \in 0 .. Hashes - 1}

(* The first two bytes, the last two (IPv4 only) and the levels.           *)
FirstPair(ip) == ip[1] * Slice + ip[2]
LastPair(a, b) == Slice * Slice + a * Slice + b

IPv4Rows(ip, begin) ==
    {begin + FirstPair(ip), begin + LastPair(ip[3], ip[4])}
        \cup UNION {BloomRows(ip, begin + Slice * Slice * 2, l) : l \in 0 .. 1}

IPv6Rows(ip, begin) ==
    {begin + FirstPair(ip)}
        \cup UNION {BloomRows(ip, begin + Slice * Slice, l) : l \in 0 .. SixLen - 3}

Rows(type, key) ==
    CASE type \in PortTypes -> {Offset(type) + key}
      [] type \in IPv4Types -> IPv4Rows(key, Offset(type))
      [] type \in IPv6Types -> IPv6Rows(key, Offset(type))

Insert(bitmap, type, key, col) == SetRows(bitmap, Rows(type, key), col)

CheckKey(bitmap, type, key, col) ==
    \A row \in Rows(type, key) : GetBit(bitmap, row, col)

(* Whether an address may be there that begins with the first n bytes.     *)
CheckPrefix4(bitmap, ip, n, begin, col) ==
    \/ n = 0
    \/ n = 1 /\ \E b \in 0 .. Slice - 1 : GetBit(bitmap, begin + ip[1] * Slice + b, col)
    \/ /\ GetBit(bitmap, begin + FirstPair(ip), col)
       /\ \/ n <= 2
          \/ n = 3 /\ \E b \in 0 .. Slice - 1 : GetBit(bitmap, begin + LastPair(ip[3], b), col)
          \/ n = 4 /\ GetBit(bitmap, begin + LastPair(ip[3], ip[4]), col)
       /\ \A l \in 0 .. n - 3 : \A row \in BloomRows(ip, begin + Slice * Slice * 2, l) :
            GetBit(bitmap, row, col)

CheckPrefix6(bitmap, ip, n, begin, col) ==
    \/ n = 0
    \/ n = 1 /\ \E b \in 0 .. Slice - 1 : GetBit(bitmap, begin + ip[1] * Slice + b, col)
    \/ /\ GetBit(bitmap, begin + FirstPair(ip), col)
       /\ \A l \in 0 .. n - 3 : \A row \in BloomRows(ip, begin + Slice * Slice, l) :
            GetBit(bitmap, row, col)

CheckPrefix(bitmap, type, ip, n, col) ==
    IF type \in IPv4Types THEN CheckPrefix4(bitmap, ip, n, Offset(type), col)
                          ELSE CheckPrefix6(bitmap, ip, n, Offset(type), col)
=============================================================================
