----------------------------- MODULE MudCodecs -----------------------------
(***************************************************************************)
(* The encoders and decoders of mud.go as operators.  Names and strings    *)
(* are sequences of letters, distinct from the bytes that structure a      *)
(* message.  Go ranges over a map in any order, so encoding a map gives    *)
(* the set of its possible encodings.                                      *)
(***************************************************************************)
EXTENDS Integers, SequencesExt, TLC

MSDPString(s) == [kind |-> "string", of |-> s]
MSDPTable(t)  == [kind |-> "table", of |-> t]      \* a function on names
MSDPArray(a)  == [kind |-> "array", of |-> a]

(* All concatenations of one member of each set of a sequence of sets. *)
Concats(sets) == FoldLeft(LAMBDA acc, S : {x \o y : x \in acc, y \in S}, {<< >>}, sets)

RECURSIVE writeMSDPValue(_), MarshalMSDP(_)
MarshalMSDP(map) ==
    UNION {Concats([k \in 1..Len(order) |->
                      {<<"VAR">> \o order[k] \o v : v \in writeMSDPValue(map[order[k]])}])
           : order \in SetToSeqs(DOMAIN map)}

writeMSDPValue(v) ==
    CASE v.kind = "string" -> {<<"VAL">> \o v.of}
      [] v.kind = "table"  -> {<<"TOPEN">> \o b \o <<"TCLOSE">> : b \in MarshalMSDP(v.of)}
      [] v.kind = "array"  ->
            {<<"AOPEN">> \o b \o <<"ACLOSE">> :
                b \in Concats([k \in 1..Len(v.of) |-> writeMSDPValue(v.of[k])])}

(* MSSP has the same two codes and no nesting. *)
MarshalMSSP(vars) ==
    FlattenSeq([k \in 1..Len(vars) |-> <<"VAR">> \o vars[k][1] \o <<"VAL">> \o vars[k][2]])
----------------------------------------------------------------------------
(* The first place from i on where data has one of the stops, or past it. *)
Until(data, i, stops) ==
    LET k == SelectInSeq(SubSeq(data, i, Len(data)), LAMBDA b : b \in stops)
    IN IF k = 0 THEN Len(data) + 1 ELSE i + k - 1

From(data, i) == SubSeq(data, i, Len(data))

(* A parser returns a value and the number n of bytes it took; n = -1 is   *)
(* an error, n = -2 stands for a loop that never ends.                     *)
Fail  == [n |-> -1]
Hangs == [n |-> -2]

(* Mutant: a string does not end where the next variable starts. *)
StringEndsLate == {"VAL", "TCLOSE", "ACLOSE"}

StringEnds == {"VAR", "VAL", "TCLOSE", "ACLOSE"}

RECURSIVE parseMSDPValue(_), parsePairs(_, _, _, _), parseArray(_, _, _)

(* The loop of UnmarshalMSDP and, nested, of a table. *)
parsePairs(data, i, table, nested) ==
    IF i > Len(data) THEN IF nested THEN Fail ELSE [n |-> i - 1, val |-> MSDPTable(table)]
    ELSE IF nested /\ data[i] = "TCLOSE" THEN [n |-> i, val |-> MSDPTable(table)]
    ELSE IF data[i] # "VAR" THEN Fail
    ELSE LET k == Until(data, i + 1, {"VAL", "TOPEN", "AOPEN"})
             r == parseMSDPValue(From(data, k))
         IN IF r.n < 0 THEN r
            ELSE parsePairs(data, k + r.n, (SubSeq(data, i + 1, k - 1) :> r.val) @@ table, nested)

parseArray(data, i, array) ==
    IF i > Len(data) THEN Fail
    ELSE IF data[i] = "ACLOSE" THEN [n |-> i, val |-> MSDPArray(array)]
    ELSE LET r == parseMSDPValue(From(data, i))
         IN IF r.n < 0 THEN r
            ELSE IF r.n = 0 THEN Hangs
            ELSE parseArray(data, i + r.n, Append(array, r.val))

parseMSDPValue(data) ==
    IF data = << >> THEN [n |-> 0, val |-> MSDPString(<< >>)]
    ELSE CASE data[1] = "TOPEN" -> parsePairs(data, 2, << >>, TRUE)
           [] data[1] = "AOPEN" -> parseArray(data, 2, << >>)
           [] OTHER ->
                LET start == IF data[1] = "VAL" THEN 2 ELSE 1
                    k == Until(data, start, StringEnds)
                IN [n |-> k - 1, val |-> MSDPString(SubSeq(data, start, k - 1))]

UnmarshalMSDP(data) == parsePairs(data, 1, << >>, FALSE)
----------------------------------------------------------------------------
MarshalGMCP(pkg, data) == pkg \o <<" ">> \o data

UnmarshalGMCP(data) ==
    LET space == SelectInSeq(data, LAMBDA b : b = " ")
    IN IF space = 0 THEN [package |-> data, data |-> << >>]
       ELSE [package |-> SubSeq(data, 1, space - 1), data |-> From(data, space + 1)]
----------------------------------------------------------------------------
(* An MCP line is the sequence of its fields.  A field is a word, a word   *)
(* that ends in a colon, or two words around one.                          *)
Word(w)    == [key |-> w, colon |-> FALSE, val |-> ""]
Key(k)     == [key |-> k, colon |-> TRUE, val |-> ""]
Text(f)    == IF f.colon THEN f.key \o ":" \o f.val ELSE f.key

(* MCPMessage.String: absent parts are "", and an empty value leaves no    *)
(* field.                                                                  *)
Optional(w) == IF w = "" THEN << >> ELSE <<Word(w)>>
MCPString(m) ==
    {<<Word(m.package)>> \o Optional(m.authKey) \o Optional(m.tag)
        \o FlattenSeq([k \in 1..Len(order) |-> <<Key(order[k])>> \o Optional(m.params[order[k]])])
     : order \in SetToSeqs(DOMAIN m.params)}

(* Mutant: a key takes the next field as its value whatever it is. *)
RECURSIVE mcpParamsGreedy(_, _)
mcpParamsGreedy(fields, params) ==
    IF Len(fields) < 2 THEN params
    ELSE mcpParamsGreedy(From(fields, 3), (fields[1].key :> fields[2].key) @@ params)

RECURSIVE mcpParams(_, _)
mcpParams(fields, params) ==
    IF fields = << >> THEN params
    ELSE IF ~fields[1].colon \/ fields[1].key = "" THEN mcpParams(Tail(fields), params)
    ELSE IF fields[1].val = "" /\ Len(fields) > 1 /\ ~fields[2].colon
    THEN mcpParams(From(fields, 3), (fields[1].key :> fields[2].key) @@ params)
    ELSE mcpParams(Tail(fields), (fields[1].key :> fields[1].val) @@ params)

(* ParseMCP of a line that starts with #$#: the second field is the auth   *)
(* key unless it has a colon, and the one after it the tag in any case.    *)
ParseMCP(fields) ==
    IF Len(fields) < 2 THEN Fail
    ELSE LET auth  == IF fields[2].colon THEN "" ELSE fields[2].key
             parts == From(fields, IF fields[2].colon THEN 2 ELSE 3)
             tag   == IF parts = << >> THEN "" ELSE Text(parts[1])
         IN [n |-> Len(fields),
             msg |-> [package |-> Text(fields[1]), authKey |-> auth, tag |-> tag,
                      params |-> IF parts = << >> THEN << >> ELSE mcpParams(Tail(parts), << >>)]]
============================================================================
