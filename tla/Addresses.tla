----------------------------- MODULE Addresses ------------------------------
(***************************************************************************)
(* The arithmetic of address.cpp: splitting host:port for Address::Lookup, *)
(* the order and equality of addresses, the network masks of IPv4 and      *)
(* IPv6, the text of an IPv6 address and the length of a Unix address.     *)
(*                                                                         *)
(* Memory is a sequence of bytes in address order, a 32-bit value the      *)
(* sequence of its four bytes with the most significant one first: on the  *)
(* little-endian machine modelled here the value of a field is the reverse *)
(* of its memory.                                                          *)
(***************************************************************************)
EXTENDS Integers, Sequences, SequencesExt, Bitwise

CONSTANT MaxPath      \* sizeof(sun_path), 108 in the system headers

ASSUME MaxPathAssumption == MaxPath \in Nat \ {0}

-----------------------------------------------------------------------------
\* Address::Lookup, before getaddrinfo: node and service of a host string over
\* the characters [ ] : and letters; service is a pointer into it, or NULL.

NoService == [given |-> FALSE, text |-> <<>>]
Service(text) == [given |-> TRUE, text |-> text]

\* A bracketed node, [node] or [node]:service.
SplitBracket(host) ==
    LET e == SelectInSubSeq(host, 2, Len(host), LAMBDA c : c = "]")
    IN  IF host = <<>> \/ host[1] # "[" \/ e = 0 THEN [node |-> <<>>, service |-> NoService]
        ELSE [node |-> SubSeq(host, 2, e - 1),
              service |-> IF e < Len(host) /\ host[e + 1] = ":"
                          THEN Service(SubSeq(host, e + 2, Len(host))) ELSE NoService]

\* node:service with a single colon. With several the node stays empty and the
\* service pointer is left on the first colon.
SplitColon(host) ==
    LET c == SelectInSeq(host, LAMBDA x : x = ":")
        again == SelectInSubSeq(host, c + 1, Len(host), LAMBDA x : x = ":")
    IN  IF c = 0 THEN [node |-> <<>>, service |-> NoService]
        ELSE IF again = 0 THEN [node |-> SubSeq(host, 1, c - 1),
                                service |-> Service(SubSeq(host, c + 1, Len(host)))]
        ELSE [node |-> <<>>, service |-> Service(SubSeq(host, c, Len(host)))]

SplitHost(host) ==
    LET b == SplitBracket(host)
        r == IF b.node = <<>> THEN SplitColon(host) ELSE b
    IN  [r EXCEPT !.node = IF @ = <<>> THEN host ELSE @]

-----------------------------------------------------------------------------
\* operator< and operator==: memcmp over the shorter length, then the lengths.

Memcmp(a, b, n) ==
    LET d == SelectInSubSeq([i \in 1..n |-> a[i] # b[i]], 1, n, LAMBDA x : x)
    IN  IF d = 0 THEN 0 ELSE IF a[d] < b[d] THEN -1 ELSE 1

MinLen(a, b) == IF Len(a) < Len(b) THEN Len(a) ELSE Len(b)

AddrLess(a, b) ==
    LET r == Memcmp(a, b, MinLen(a, b))
    IN  r = -1 \/ (r = 0 /\ Len(a) < Len(b))

AddrEqual(a, b) == Len(a) = Len(b) /\ Memcmp(a, b, Len(a)) = 0

-----------------------------------------------------------------------------
\* Masks.

ByteOr(a, b) == [i \in DOMAIN a |-> a[i] | b[i]]
ByteNot(a) == [i \in DOMAIN a |-> 255 - a[i]]

\* Mutant: the swap is left out on a little-endian machine.
ByteswapNot(v) == v

\* byteswapOnLittleEndian, which swaps on the machine modelled.
Byteswap(v) == Reverse(v)

\* CreateMask<uint32_t>(bits): the 32 - bits low bits set. (1 << (32 - bits)) - 1
\* is computed in int: with bits = 0 the shift is undefined and with bits = 1 the
\* subtraction overflows, so the callers' prefix is at least 2 here.
CreateMask32(bits) ==
    [k \in 1..4 |-> LET n == (32 - bits) - 8 * (4 - k)
                    IN  2 ^ (IF n < 0 THEN 0 ELSE IF n > 8 THEN 8 ELSE n) - 1]

\* CreateMask<uint8_t>(bits) for bits below 8, cut to a byte.
CreateMask8(bits) == (2 ^ (8 - bits) - 1) % 256

\* The bytes in memory of a 32-bit value, and the value of the memory.
Memory(value) == Reverse(value)
ValueOf(mem) == Reverse(mem)

\* A prefix longer than the address gives no address (nullptr).
NoAddress == <<>>

IPv4Broadcast(mem, prefix) ==
    IF prefix > 32 THEN NoAddress
    ELSE Memory(ByteOr(ValueOf(mem), Byteswap(CreateMask32(prefix))))

IPv4SubnetMask(prefix) == Memory(ByteNot(Byteswap(CreateMask32(prefix))))

\* Byte prefix / 8 is masked and the ones behind it are filled. A prefix of 128
\* would index the byte behind the array, so it is below 128 here.
IPv6Broadcast(mem, prefix) ==
    [i \in 1..16 |-> CASE i - 1 < prefix \div 8 -> mem[i]
                       [] i - 1 = prefix \div 8 -> mem[i] | CreateMask8(prefix % 8)
                       [] OTHER -> 255]

IPv6SubnetMask(prefix) ==
    [i \in 1..16 |-> CASE i - 1 < prefix \div 8 -> 255
                       [] i - 1 = prefix \div 8 -> 255 - CreateMask8(prefix % 8)
                       [] OTHER -> 0]

-----------------------------------------------------------------------------
\* IPv6Address::insert between the brackets: the text is a sequence of groups,
\* which are numbers, and of colons. used is used_zeros.

Colon == -1

\* A group that follows skipped zeros is preceded by a second colon.
Group(addr, i, used) ==
    (IF i > 1 /\ addr[i - 1] = 0 /\ ~used THEN <<Colon>> ELSE <<>>)
    \o (IF i > 1 THEN <<Colon>> ELSE <<>>) \o <<addr[i]>>

RECURSIVE Groups(_, _, _)
Groups(addr, i, used) ==
    IF i > 8 THEN IF ~used /\ addr[8] = 0 THEN <<Colon, Colon>> ELSE <<>>
    ELSE IF addr[i] = 0 /\ ~used THEN Groups(addr, i + 1, used)
    ELSE Group(addr, i, used)
         \o Groups(addr, i + 1, used \/ (i > 1 /\ addr[i - 1] = 0))

IPv6Text(addr) == Groups(addr, 1, FALSE)

-----------------------------------------------------------------------------
\* UnixAddress(path), the text of it and its length. A path is a sequence of
\* characters, 0 for NUL. sun_path is zeroed first.

Family == <<1, 0>>      \* AF_UNIX in sun_family, offsetof(sun_path) = 2

UnixLength(path) == IF path # <<>> /\ path[1] = 0 THEN Len(path) ELSE Len(path) + 1

\* throw std::logic_error("path too long").
UnixFits(path) == UnixLength(path) <= MaxPath

\* getAddr() cut at getAddrLen(); memcpy takes the terminating NUL of c_str().
UnixMemory(path) == Family \o SubSeq(path \o <<0>>, 1, UnixLength(path))

\* getPath: an abstract name is printed in full behind a backslash and
\* a zero; a file name up to its NUL, which is searched for in sun_path.
UnixPath(mem) ==
    LET p == SubSeq(mem, 3, Len(mem))
        e == SelectInSeq(p, LAMBDA c : c = 0)
    IN  IF p # <<>> /\ p[1] = 0 THEN <<92, 48>> \o Tail(p)
        ELSE IF e = 0 THEN p ELSE SubSeq(p, 1, e - 1)
=============================================================================
