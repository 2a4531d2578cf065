----------------------------- MODULE Algorithms -----------------------------
(***************************************************************************)
(* The sequential helpers of sylar put side by side: the parsers of Text,  *)
(* the conversions of Casts and the arithmetic of Addresses, each applied  *)
(* to one input picked from a bounded set, and the file operations of      *)
(* Files. A behaviour either evaluates one input or works on the tree.     *)
(* Every function is compared with a definition of its result that is      *)
(* written without its loops: an inverse, an order, a table of bits.       *)
(***************************************************************************)
EXTENDS Text, Casts, Addresses, Files

CONSTANTS Urls, Patterns, Argvs, Values, Nodes, Defines,
          Hosts, AddrTriples, Prefixes4, Prefixes6, V6Addrs, UnixPaths

VARIABLE input

vars == <<fs, call, input>>

Idle == [fn |-> "idle"]

Init == FilesInit /\ input = Idle

Evaluate ==
    /\ input = Idle /\ call = NoCall /\ DOMAIN fs = {}
    /\ \/ \E x \in Urls : input' = [fn |-> "url", x |-> x]
       \/ \E x \in Patterns : input' = [fn |-> "pattern", x |-> x]
       \/ \E x \in Argvs : input' = [fn |-> "argv", x |-> x]
       \/ \E x \in Values : input' = [fn |-> "value", x |-> x]
       \/ \E x \in Nodes : input' = [fn |-> "node", x |-> x]
       \/ \E x \in Defines : input' = [fn |-> "define", x |-> x]
       \/ \E x \in Hosts : input' = [fn |-> "host", x |-> x]
       \/ \E x \in AddrTriples : input' = [fn |-> "order", x |-> x]
       \/ \E x \in Prefixes4 : input' = [fn |-> "mask4", x |-> x]
       \/ \E x \in Prefixes6 : input' = [fn |-> "mask6", x |-> x]
       \/ \E x \in V6Addrs : input' = [fn |-> "v6", x |-> x]
       \/ \E x \in UnixPaths : input' = [fn |-> "unix", x |-> x]
    /\ UNCHANGED <<fs, call>>

WorkOnFiles == input = Idle /\ FilesNext /\ UNCHANGED input

Next == Evaluate \/ WorkOnFiles

Spec == Init /\ [][Next]_vars

-----------------------------------------------------------------------------
\* UrlDecode undoes UrlEncode for every string, with spaces as plus signs or
\* escaped, and the encoded form holds nothing but unreserved characters,
\* escapes and plus signs (StringUtil::UrlEncode, StringUtil::UrlDecode).
UrlRoundTrip ==
    input.fn = "url" =>
        LET e == UrlEncode(input.x.str, input.x.plus)
        IN  /\ UrlDecode(e, input.x.plus) = input.x.str
            /\ ToSet(e) \subseteq Unreserved \cup {Percent, Plus}

\* The text an item of a pattern was read from.
Source(it) ==
    IF it.type = "text" THEN it.str
    ELSE <<"%">> \o it.str \o (IF it.fmt = <<>> THEN <<>> ELSE <<"{">> \o it.fmt \o <<"}">>)

Occurs(sub, s) == \E i \in 1..(Len(s) - 1) : SubSeq(s, i, i + 1) = sub

\* A pattern that init accepts is taken apart without loss: its items, written
\* back, give the pattern, so that no literal text or format is dropped or moved
\* to another item. Left out are the empty format %d{}, which gives the item of
\* %d, and the doubled percent sign, which init has a branch for that does not do
\* what it announces: it keeps one sign as text and then reads the second as the
\* start of a directive (LogFormatter::init).
PatternItemsComplete ==
    input.fn = "pattern" =>
        LET p == input.x
        IN  ~IsError(p) /\ ~Occurs(<<"%", "%">>, p) /\ ~Occurs(<<"{", "}">>, p)
                => FlattenSeq([k \in DOMAIN Items(p) |-> Source(Items(p)[k])]) = p

\* The command line is accepted exactly when every value stands behind a key,
\* and then args_ holds each key with what stood behind its last occurrence, or
\* with an empty string when that was another key or nothing (Env::init).
ArgsReadBack ==
    input.fn = "argv" =>
        LET argv == input.x.argv
            r == EnvInit(argv, input.x.readable)
            keys == {i \in DOMAIN argv : argv[i].dash}
            Last1(k) == CHOOSE i \in keys : argv[i].text = k /\
                            \A j \in keys : argv[j].text = k => j <= i
            valid == \A i \in DOMAIN argv :
                        IF argv[i].dash THEN argv[i].text # "" ELSE i - 1 \in keys
        IN  /\ r.ok <=> input.x.readable /\ valid
            /\ r.ok =>
                /\ DOMAIN r.args = {argv[i].text : i \in keys}
                /\ \A k \in DOMAIN r.args :
                      LET i == Last1(k)
                      IN  r.args[k] = IF i < Len(argv) /\ ~argv[i + 1].dash
                                      THEN argv[i + 1].text ELSE ""

\* The value with every string that YAML loads replaced by what YAML reads.
RECURSIVE Reading(_, _)
Reading(T, v) ==
    CASE T[1] = "string" -> Load(Raw(v))
      [] T[1] \in {"set", "unordered_set"} -> {Reading(T[2], x) : x \in v}
      [] OTHER -> [i \in DOMAIN v |-> Reading(T[2], v[i])]

\* The value holds only strings that YAML prints as they are.
RECURSIVE AsPrinted(_, _)
AsPrinted(T, v) ==
    CASE T[1] = "string" -> Emit(Load(Raw(v))) = Raw(v)
      [] T[1] \in {"set", "unordered_set"} -> \A x \in v : AsPrinted(T[2], x)
      [] OTHER -> \A i \in DOMAIN v : AsPrinted(T[2], v[i])

\* A value of a configuration variable printed as YAML and read again is the
\* same value when its strings are written as YAML prints them, for containers
\* nested in containers. Otherwise its strings change, quotes, blanks and
\* comments being lost and an empty one becoming "~", but they still read the
\* same, at the same places, and a second conversion changes nothing more: every
\* element is loaded as a document of its own. A string outside a container is
\* kept whatever it is (the LexicalCast templates of config.h).
ValueRoundTrip ==
    input.fn = "value" =>
        LET T == input.x[1]
            Again(v) == From(T, To(T, v))
            once == Again(input.x[2])
        IN  /\ T = <<"string">> \/ AsPrinted(T, input.x[2]) => once = input.x[2]
            /\ Reading(T, once) = Reading(T, input.x[2])
            /\ Again(once) = once

\* The node with everything JSON has no value for written as an empty string.
RECURSIVE Blanked(_)
Blanked(y) ==
    CASE y.node = "scalar" -> y
      [] y.node = "null" \/ DOMAIN y.v = {} -> Scalar("")
      [] y.node = "seq" -> Sequence([i \in DOMAIN y.v |-> Blanked(y.v[i])])
      [] OTHER -> Mapping([k \in DOMAIN y.v |-> Blanked(y.v[k])])

\* A document converted to JSON and back keeps its structure, its keys and its
\* scalars; null, and a sequence or map without elements, come back as an empty
\* string and as nothing else (YamlToJson, JsonToYaml).
DocumentKept ==
    input.fn = "node" => JsonToYaml(YamlToJson(input.x)) = Blanked(input.x)

\* A logger's definition printed and read again is the same definition, so that
\* reloading an unchanged file changes no logger; only the level of an appender
\* does not survive (LexicalCast of LogDefine).
DefineRoundTrip ==
    input.fn = "define" =>
        LogDefineFrom(LogDefineTo(input.x))
            = [input.x EXCEPT !.appenders =
                [i \in DOMAIN @ |-> [@[i] EXCEPT !.level = "UNKNOW"]]]

\* Lookup hands getaddrinfo the node and the service of a host string in each of
\* the four ways one is written: node, node:service, [node], [node]:service
\* (Address::Lookup).
HostSplit ==
    input.fn = "host" =>
        LET h == input.x
            name == IF h.bracket THEN <<"[">> \o h.node \o <<"]">> ELSE h.node
            s == SplitHost(IF h.service.given THEN name \o <<":">> \o h.service.text ELSE name)
        IN  s.node = h.node /\ s.service = h.service

\* Addresses of any length are totally ordered by operator< in agreement with
\* operator==, as a map with addresses for keys needs (Address).
TotalOrder ==
    input.fn = "order" =>
        LET a == input.x[1]
            b == input.x[2]
            c == input.x[3]
        IN  /\ AddrEqual(a, b) <=> a = b
            /\ Cardinality({r \in {"<", "=", ">"} :
                    \/ r = "<" /\ AddrLess(a, b)
                    \/ r = "=" /\ AddrEqual(a, b)
                    \/ r = ">" /\ AddrLess(b, a)}) = 1
            /\ AddrLess(a, b) /\ AddrLess(b, c) => AddrLess(a, c)

\* Bit k of memory, the first byte's highest bit being bit 1.
Bit(mem, k) == (mem[(k - 1) \div 8 + 1] \div 2 ^ (7 - ((k - 1) % 8))) % 2

\* The broadcast address keeps the prefix bit by bit and sets every bit behind
\* it, in network order, and the subnet mask is the prefix: for IPv4 and IPv6
\* (broadcastAddress, subnetMask).
PrefixBits ==
    /\ input.fn = "mask4" => \A k \in 1..32 :
          /\ Bit(IPv4Broadcast(input.x.mem, input.x.prefix), k)
                = IF k <= input.x.prefix THEN Bit(input.x.mem, k) ELSE 1
          /\ Bit(IPv4SubnetMask(input.x.prefix), k) = IF k <= input.x.prefix THEN 1 ELSE 0
    /\ input.fn = "mask6" => \A k \in 1..128 :
          /\ Bit(IPv6Broadcast(input.x.mem, input.x.prefix), k)
                = IF k <= input.x.prefix THEN Bit(input.x.mem, k) ELSE 1
          /\ Bit(IPv6SubnetMask(input.x.prefix), k) = IF k <= input.x.prefix THEN 1 ELSE 0

\* What inet_pton reads from the text of an IPv6 address: a doubled colon stands
\* for the zeros that are missing to eight groups.
GroupsOf(text) == SelectSeq(text, LAMBDA g : g # Colon)
Doubled(text) == {i \in 1..(Len(text) - 1) : text[i] = Colon /\ text[i + 1] = Colon}

\* The text of an IPv6 address holds at most one doubled colon and denotes the
\* address it was printed from, wherever its zeros are (IPv6Address::insert).
V6TextExact ==
    input.fn = "v6" =>
        LET text == IPv6Text(input.x)
            n == Len(GroupsOf(text))
        IN  IF Doubled(text) = {} THEN GroupsOf(text) = input.x
            ELSE \E i \in Doubled(text) :
                /\ Doubled(text) = {i} /\ n < 8
                /\ GroupsOf(SubSeq(text, 1, i)) \o [k \in 1..(8 - n) |-> 0]
                        \o GroupsOf(SubSeq(text, i, Len(text))) = input.x

\* A Unix address fits sun_path with its terminating zero and gives back the
\* path it was made of, a leading zero being written out (UnixAddress).
UnixPathKept ==
    input.fn = "unix" /\ UnixFits(input.x) =>
        LET mem == UnixMemory(input.x)
        IN  /\ Len(mem) <= Len(Family) + MaxPath
            /\ UnixPath(mem) = IF input.x[1] = 0 THEN <<92, 48>> \o Tail(input.x) ELSE input.x

-----------------------------------------------------------------------------
\* The hand-written scanners lose and invent nothing: an escaped URL is decoded
\* to what was encoded, the items of a log pattern are the whole pattern, and
\* the arguments are those of the command line (util.cpp, log.cpp, env.cpp).
TextExact == UrlRoundTrip /\ PatternItemsComplete /\ ArgsReadBack

\* Configuration keeps its meaning when it is written and read again: values of
\* containers, whole documents by way of JSON, and logger definitions (config.h,
\* util.cpp, log.cpp).
CastsExact == ValueRoundTrip /\ DocumentKept /\ DefineRoundTrip

\* Addresses denote what they were made of: the host string is split into node
\* and service, masks follow the prefix bit by bit, the texts name the address
\* they were printed from, and the order is total (address.cpp).
AddressesExact == HostSplit /\ TotalOrder /\ PrefixBits /\ V6TextExact /\ UnixPathKept
=============================================================================
