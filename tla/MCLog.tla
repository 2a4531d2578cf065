-------------------------------- MODULE MCLog --------------------------------
(* Small instances of Log for TLC. *)
EXTENDS Log, TLC
CONSTANTS t1, t2, h1

File == [type |-> 1, file |-> "a.log", fmt |-> "G"]
Console == [type |-> 2, file |-> "", fmt |-> ""]

(* Two defines that differ in their appenders alone, one with a bad pattern *)
Def1 == [level |-> 1, fmt |-> "F", apps |-> <<Console>>]
Def2 == [level |-> 1, fmt |-> "F", apps |-> <<File>>]
Def3 == [level |-> 3, fmt |-> "%{", apps |-> <<File, Console>>]

Table(d, r) == [n \in {"app", "root"} |-> IF n = "app" THEN d ELSE r]

Empty == Table(NoDefine, NoDefine)
Tables == {Empty, Table(Def2, NoDefine), Table(Def1, Def3)}
InFile == {Table(Def2, NoDefine), Table(Def1, Def3), Broken}
Two == <<"app", "root">>
AnyThread == Permutations(Threads)
=============================================================================
