------------------------------- MODULE Casts --------------------------------
(***************************************************************************)
(* The conversions between configuration values and YAML text: the         *)
(* LexicalCast specialisations of config.h for containers and of log.cpp   *)
(* for a logger's definition, and YamlToJson / JsonToYaml of util.cpp.     *)
(*                                                                         *)
(* A YAML node is a record: null, a scalar, a sequence or a map. YAML text *)
(* is a bare string, or the collection that is printed in it. A bare       *)
(* string is not a scalar's content: YAML takes off quotes, blanks and     *)
(* comments when it reads one, reads some as null, and puts quotes around  *)
(* a content that would not be read as itself when it prints one.          *)
(* A type is <<kind>> or <<kind, element type>>; Value is a value with its *)
(* type. The two directions of a conversion are kept apart as in the code. *)
(***************************************************************************)
EXTENDS Integers, Sequences, SequencesExt, FiniteSets, TLC

Null == [node |-> "null"]
Scalar(str) == [node |-> "scalar", v |-> str]
Sequence(s) == [node |-> "seq", v |-> s]
Mapping(f) == [node |-> "map", v |-> f]

Raw(str) == [node |-> "text", v |-> str]

\* YAML::Load of the bare strings that differ in how it reads them, external:
\* plain ones, quoted ones, one with blanks, one with a comment, and nulls. A
\* string that YAML reads as a collection, or not at all, is not among them.
Reads ==
    [s \in {"a", "b", "ab"} |-> Scalar(s)]
        @@ [s \in {"\"a\"", " a ", "a #b"} |-> Scalar("a")]
        @@ [s \in {"", "~"} |-> Null]
        @@ ("\"a #b\"" :> Scalar("a #b")) @@ ("\"~\"" :> Scalar("~"))

Load(text) == IF text.node = "text" THEN Reads[text.v] ELSE text

\* operator<<(ostream, Node), external.
Spelling(content) ==
    IF Reads[content] = Scalar(content) THEN content ELSE "\"" \o content \o "\""

Emit(node) ==
    CASE node.node = "null" -> Raw("~")
      [] node.node = "scalar" -> Raw(Spelling(node.v))
      [] OTHER -> node

-----------------------------------------------------------------------------
\* LexicalCast for containers. The element casts are applied through the
\* recursive To and From; a plain T goes through boost::lexical_cast, which is
\* the identity on strings. node.size() of a null or a scalar is 0.

RECURSIVE To(_, _)
RECURSIVE From(_, _)

\* Mutant: without ss.str("") an element's text follows those of the elements before.
ElementTextJoined(nodes, i) ==
    IF i = 1 THEN Emit(nodes[1]) ELSE Raw("ab")

\* One stringstream prints every element; ss.str("") empties it in between.
ElementText(nodes, i) == Emit(nodes[i])

VectorFrom(T, text) ==
    LET node == Load(text)
    IN  IF node.node \in {"null", "scalar"} THEN <<>>
        ELSE [i \in DOMAIN node.v |-> From(T, ElementText(node.v, i))]

VectorTo(T, v) == Emit(Sequence([i \in DOMAIN v |-> Load(To(T, v[i]))]))

ListFrom(T, text) == VectorFrom(T, text)

ListTo(T, v) == VectorTo(T, v)

\* Insertion drops the elements that are equal to an earlier one.
SetFrom(T, text) == ToSet(VectorFrom(T, text))

SetTo(T, v) == VectorTo(T, SetToSeq(v))

UnorderedSetFrom(T, text) == SetFrom(T, text)

UnorderedSetTo(T, v) == SetTo(T, v)

MapFrom(T, text) ==
    LET node == Load(text)
    IN  IF node.node \in {"null", "scalar"} THEN <<>>
        ELSE [k \in DOMAIN node.v |-> From(T, Emit(node.v[k]))]

MapTo(T, v) == Emit(Mapping([k \in DOMAIN v |-> Load(To(T, v[k]))]))

UnorderedMapFrom(T, text) == MapFrom(T, text)

UnorderedMapTo(T, v) == MapTo(T, v)

From(T, text) ==
    CASE T[1] = "string" -> text.v
      [] T[1] = "vector" -> VectorFrom(T[2], text)
      [] T[1] = "list" -> ListFrom(T[2], text)
      [] T[1] = "set" -> SetFrom(T[2], text)
      [] T[1] = "unordered_set" -> UnorderedSetFrom(T[2], text)
      [] T[1] = "map" -> MapFrom(T[2], text)
      [] T[1] = "unordered_map" -> UnorderedMapFrom(T[2], text)

To(T, v) ==
    CASE T[1] = "string" -> Raw(v)
      [] T[1] = "vector" -> VectorTo(T[2], v)
      [] T[1] = "list" -> ListTo(T[2], v)
      [] T[1] = "set" -> SetTo(T[2], v)
      [] T[1] = "unordered_set" -> UnorderedSetTo(T[2], v)
      [] T[1] = "map" -> MapTo(T[2], v)
      [] T[1] = "unordered_map" -> UnorderedMapTo(T[2], v)

-----------------------------------------------------------------------------
\* YamlToJson and JsonToYaml. A JSON value is null, a string, an array or an
\* object; append and operator[] turn a null value into an array or an object,
\* so that an empty sequence or map stays null.

JNull == [json |-> "null"]
JString(str) == [json |-> "string", v |-> str]
JArray(s) == [json |-> "array", v |-> s]
JObject(f) == [json |-> "object", v |-> f]

\* jnode.append for every element, starting from null.
AppendAll(s) == IF s = <<>> THEN JNull ELSE JArray(s)

RECURSIVE YamlToJson(_)
YamlToJson(y) ==
    CASE y.node = "scalar" -> JString(y.v)
      [] y.node = "seq" -> AppendAll([i \in DOMAIN y.v |-> YamlToJson(y.v[i])])
      [] y.node = "map" -> IF DOMAIN y.v = {} THEN JNull
                           ELSE JObject([k \in DOMAIN y.v |-> YamlToJson(y.v[k])])
      [] OTHER -> JNull

\* An array's or an object's elements are pushed into the node; anything else
\* is assigned as asString(), which is "" for null.
RECURSIVE JsonToYaml(_)
JsonToYaml(j) ==
    CASE j.json = "array" -> Sequence([i \in DOMAIN j.v |-> JsonToYaml(j.v[i])])
      [] j.json = "object" -> Mapping([k \in DOMAIN j.v |-> JsonToYaml(j.v[k])])
      [] OTHER -> Scalar(IF j = JNull THEN "" ELSE j.v)

-----------------------------------------------------------------------------
\* LexicalCast<LogDefine, std::string> and back. A definition is
\* [name, level, formatter, appenders]; an appender is [type, level,
\* formatter, file] with type 1 (file) or 2 (console). "" is an empty string.

\* LogLevel::ToString and FromString: names in capitals or in small letters.
Levels == {"DEBUG", "INFO", "WARN", "ERROR", "FATAL"}

LevelToString(level) == IF level \in Levels THEN level ELSE "UNKNOW"

SmallLevels == [debug |-> "DEBUG", info |-> "INFO", warn |-> "WARN", error |-> "ERROR",
                fatal |-> "FATAL"]

LevelFromString(str) ==
    IF str \in Levels THEN str
    ELSE IF str \in DOMAIN SmallLevels THEN SmallLevels[str] ELSE "UNKNOW"

\* The entries of a map node that are defined, as a partial function.
Entries(f, defined) == Mapping([k \in defined |-> f[k]])

AppenderTo(a) ==
    Entries([type |-> Scalar(IF a.type = 1 THEN "FileLogAppender" ELSE "StdoutLogAppender"),
             file |-> Scalar(a.file),
             level |-> Scalar(LevelToString(a.level)),
             formatter |-> Scalar(a.formatter)],
            {"type"} \cup {k \in {"file"} : a.type = 1}
                     \cup {k \in {"level"} : a.level # "UNKNOW"}
                     \cup {k \in {"formatter"} : a.formatter # ""})

LogDefineTo(d) ==
    Entries([name |-> Scalar(d.name),
             level |-> Scalar(LevelToString(d.level)),
             formatter |-> Scalar(d.formatter),
             appenders |-> Sequence([i \in DOMAIN d.appenders |-> AppenderTo(d.appenders[i])])],
            {"name"} \cup {k \in {"level"} : d.level # "UNKNOW"}
                     \cup {k \in {"formatter"} : d.formatter # ""}
                     \cup {k \in {"appenders"} : d.appenders # <<>>})

\* node[key].as<std::string>() where the key is defined, else the default.
Field(node, key, default) == IF key \in DOMAIN node.v THEN node.v[key].v ELSE default

\* An appender without a known type, or a file appender without a file, is
\* skipped; the level of an appender is not read.
AppenderValid(n) ==
    \/ Field(n, "type", "") = "FileLogAppender" /\ "file" \in DOMAIN n.v
    \/ Field(n, "type", "") = "StdoutLogAppender"

AppenderFrom(n) ==
    LET isFile == Field(n, "type", "") = "FileLogAppender"
    IN  [type |-> IF isFile THEN 1 ELSE 2,
         level |-> "UNKNOW",
         formatter |-> Field(n, "formatter", ""),
         file |-> IF isFile THEN Field(n, "file", "") ELSE ""]

\* throw std::logic_error: no definition is returned.
Thrown == [thrown |-> TRUE]

LogDefineFrom(n) ==
    LET appenders == SelectSeq(Field(n, "appenders", <<>>), AppenderValid)
    IN  IF "name" \notin DOMAIN n.v THEN Thrown
        ELSE [name |-> n.v["name"].v,
              level |-> LevelFromString(Field(n, "level", " ")),
              formatter |-> Field(n, "formatter", ""),
              appenders |-> [i \in DOMAIN appenders |-> AppenderFrom(appenders[i])]]
=============================================================================
