---------------------------- MODULE MCAlgorithms ----------------------------
(***************************************************************************)
(* The inputs explored for module Algorithms.                              *)
(***************************************************************************)
EXTENDS Algorithms

\* Space, percent, plus, a digit, hexadecimal letters of both cases, 0xff.
UrlBytes == {32, 37, 43, 50, 65, 98, 255}
MCUrls == [str : BoundedSeq(UrlBytes, 4), plus : BOOLEAN]

MCPatterns == BoundedSeq({"%", "{", "}", "d", "x", "-"}, 5)

MCArgvs == [argv : BoundedSeq([dash : BOOLEAN, text : {"", "k", "j"}], 4), readable : BOOLEAN]

\* A value of a configuration variable with its type.
Words == DOMAIN Reads
FewWords == {"a", "a #b", "\"a #b\""}
Str == <<"string">>
PartialMaps(V) == UNION {[D -> V] : D \in SUBSET {"k", "l"}}
Plain(kind, W) == CASE kind \in {"vector", "list"} -> BoundedSeq(W, 3)
                    [] kind \in {"set", "unordered_set"} -> {S \in SUBSET W : Cardinality(S) <= 4}
                    [] OTHER -> PartialMaps(W)
Plains(W) == UNION {{<<kind, Str>>} \X Plain(kind, W) :
                    kind \in {"vector", "list", "set", "unordered_set", "map", "unordered_map"}}
Pairs == {p \in Plains(FewWords) \X Plains(FewWords) : p[1][1] = p[2][1]}
MCValues == ({Str} \X Words) \cup Plains(Words)
              \cup {<< <<"vector", p[1][1]>>, <<p[1][2], p[2][2]>> >> : p \in Pairs}
              \cup {<< <<"map", p[1][1]>>, [k |-> p[1][2], l |-> p[2][2]]>> : p \in Pairs}

Leaves == {Null, Scalar(""), Scalar("a")}
Over(S) == {Sequence(s) : s \in BoundedSeq(S, 2)} \cup {Mapping(f) : f \in PartialMaps(S)}
MCNodes == Leaves \cup Over(Leaves \cup Over(Leaves))

Appenders == {a \in [type : {1, 2}, level : {"UNKNOW", "WARN"}, formatter : {"", "f"},
                     file : {"", "a.log"}] : a.type = 2 => a.file = ""}
MCDefines == [name : {"root", ""}, level : {"UNKNOW", "INFO"}, formatter : {"", "f"},
              appenders : BoundedSeq(Appenders, 2)]

HostText == BoundedSeq({"a", "b"}, 2) \ {<<>>}
MCHosts == [bracket : BOOLEAN, node : HostText, service : {NoService} \cup {Service(s) : s \in HostText}]
             \cup [bracket : {TRUE}, node : BoundedSeq({"a", ":"}, 4) \ {<<>>},
                   service : {NoService, Service(<<"b">>)}]

Memories == {UnixMemory(p) : p \in BoundedSeq({0, 1, 2}, 2)}
MCAddrTriples == Memories \X Memories \X Memories

MCPrefixes4 == [mem : [1..4 -> {0, 165, 255}], prefix : 2..32]
MCPrefixes6 == [mem : {[i \in 1..16 |-> b] : b \in {0, 165, 255}}, prefix : 0..127]
MCV6Addrs == [1..8 -> {0, 1}] \cup {[i \in 1..8 |-> 17 * i]}
MCUnixPaths == {p \in BoundedSeq({0, 1}, 5) : p # <<>> /\ \A i \in 2..Len(p) : p[i] # 0}
=============================================================================
