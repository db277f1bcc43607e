------------------------------- MODULE Codecs -------------------------------
(***************************************************************************)
(* A program that uses the library's pure functions: it makes one call of  *)
(* an encoder or a text function with any input of a small set, or builds  *)
(* colours from one another.                                               *)
(***************************************************************************)
EXTENDS MudCodecs, TextHelpers, Colors

CONSTANTS MSDPMaps, MSSPLists, GMCPMessages, MCPMessages,
          Texts, Ellipses, WordLists, BoxLines, Widths, Streams

VARIABLE call       \* the call made, or the empty one

NoCall == [fn |-> "none"]

CodecsInit == Init /\ call = NoCall

Calls ==
    {[fn |-> "MarshalMSDP", map |-> m] : m \in MSDPMaps}
    \cup {[fn |-> "MarshalMSSP", vars |-> l] : l \in MSSPLists}
    \cup {[fn |-> "MarshalGMCP", msg |-> m] : m \in GMCPMessages}
    \cup {[fn |-> "MCPString", msg |-> m] : m \in MCPMessages}
    \cup {[fn |-> "Pad", s |-> s, width |-> n, ellipsis |-> e] : s \in Texts, n \in Widths, e \in Ellipses}
    \cup {[fn |-> "WordWrap", words |-> w, width |-> n] : w \in WordLists, n \in Widths}
    \cup {[fn |-> "Box", lines |-> l, width |-> n] : l \in BoxLines, n \in Widths \ {1}}
    \cup {[fn |-> "ProgressBar", current |-> i, total |-> t, width |-> n]
            : i \in Widths, t \in Widths, n \in Widths}
    \cup {[fn |-> "Scan", text |-> s, cut |-> k] : s \in Streams, k \in Widths}

Call == call = NoCall /\ Len(colors) = 1 /\ call' \in Calls /\ UNCHANGED vars

(* A colour is made from one that is there. *)
Painting == call = NoCall /\ Len(colors) < Palette /\ UNCHANGED call

MakeCopied  == Painting /\ \E k \in 1..Len(colors), a \in Attributes : VariantCopied(colors[k], a)
MakeInPlace == Painting /\ \E k \in 1..Len(colors), a \in Attributes : VariantInPlace(colors[k], a)
MakeOn      == Painting /\ \E k \in 1..Len(colors) : On(colors[k])
MakeRGB     == Painting /\ \E k \in 1..Len(colors) : RGB(colors[k])

CodecsNext == Call \/ MakeCopied \/ MakeInPlace \/ MakeOn \/ MakeRGB

CodecsSpec == CodecsInit /\ [][CodecsNext]_<<vars, call>>
----------------------------------------------------------------------------
(* No array of the value has a string directly before a table or an array. *)
RECURSIVE Plain(_)
Plain(v) ==
    CASE v.kind = "string" -> TRUE
      [] v.kind = "table"  -> \A n \in DOMAIN v.of : Plain(v.of[n])
      [] v.kind = "array"  -> /\ \A k \in 1..Len(v.of) : Plain(v.of[k])
                              /\ \A k \in 1..(Len(v.of) - 1) :
                                    v.of[k].kind = "string" => v.of[k + 1].kind = "string"

(* What a list of MSSP variables means: the last value of a name counts. *)
LastValues(l) ==
    [n \in {l[k][1] : k \in 1..Len(l)} |->
        MSDPString(l[SelectLastInSeq(l, LAMBDA x : x[1] = n)][2])]

(* UnmarshalMSDP (mud.go:74) gives back the map that MarshalMSDP (mud.go:41) *)
(* was given, whatever order Go visits it in, with nested tables and arrays *)
(* and empty names and values, if no array has a string directly before a  *)
(* table or an array: a string does not end there (mud.go:105).  An MSSP   *)
(* list, which has the same codes, comes back as the map it means.         *)
MsdpRoundTrip ==
    /\ (call.fn = "MarshalMSDP" /\ Plain(MSDPTable(call.map))) =>
          \A data \in MarshalMSDP(call.map) :
             LET r == UnmarshalMSDP(data)
             IN r.n >= 0 /\ r.val = MSDPTable(call.map)
    /\ call.fn = "MarshalMSSP" =>
          LET r == UnmarshalMSDP(MarshalMSSP(call.vars))
          IN r.n >= 0 /\ r.val = MSDPTable(LastValues(call.vars))

(* MCPMessage.String and ParseMCP (mud.go:412, 359): the message comes     *)
(* back, with parameters in any order and empty values, exactly when it    *)
(* has an auth key and, if it has parameters, a tag; a GMCP message        *)
(* (mud.go:169, 186) exactly when its package has no space.                *)
MessagesRoundTrip ==
    /\ call.fn = "MCPString" =>
          \A line \in MCPString(call.msg) :
             LET r == ParseMCP(line)
             IN (r.n >= 0 /\ r.msg = call.msg)
                <=> call.msg.authKey # "" /\ (call.msg.tag # "" \/ call.msg.params = << >>)
    /\ call.fn = "MarshalGMCP" =>
          (UnmarshalGMCP(MarshalGMCP(call.msg.package, call.msg.data)) = call.msg)
          <=> ~Contains(call.msg.package, " ")

Larger(m, n) == IF m > n THEN m ELSE n

Padded ==
    call.fn = "Pad" =>
        LET w == Larger(StringWidth(call.s), call.width)
        IN \A p \in {PadRight(call.s, call.width), PadLeft(call.s, call.width),
                     Center(call.s, call.width)} : StringWidth(p) = w

Truncated ==
    call.fn = "Pad" =>
        LET r == Truncate(call.s, call.width, call.ellipsis)
        IN /\ StringWidth(r) <= Larger(call.width, StringWidth(call.ellipsis))
           /\ r = call.s \/ \E k \in 0..Len(call.s) : r = SubSeq(call.s, 1, k) \o call.ellipsis

(* Lines joined with spaces, a word a line when words are given. *)
Joined(lines) ==
    FoldLeft(LAMBDA acc, l : IF acc = << >> THEN l ELSE acc \o <<" ">> \o l, << >>, lines)

(* A word of width 0 (combining marks only) runs into its neighbours. *)
Wrapped ==
    (call.fn = "WordWrap" /\ \A k \in 1..Len(call.words) : StringWidth(call.words[k]) > 0) =>
        LET lines == WordWrap(call.words, call.width)
            limit == IF call.width <= 0 THEN DefaultWidth ELSE call.width
        IN /\ Joined(lines) = Joined(call.words)
           /\ \A k \in 1..Len(lines) : StringWidth(lines[k]) <= limit \/ ~Contains(lines[k], " ")

Framed ==
    /\ (call.fn = "Box" /\ (call.width <= 0 \/ \A k \in 1..Len(call.lines) :
                                               StringWidth(call.lines[k]) <= call.width - 4)) =>
          LET rows == Box(call.lines, call.width)
          IN \A k \in 1..Len(rows) : StringWidth(rows[k]) = StringWidth(rows[1])
    /\ call.fn = "ProgressBar" =>
          LET bar == ProgressBar(call.current, call.total, call.width)
          IN /\ StringWidth(bar) = call.width + 2
             /\ (call.total > 0 /\ call.width > 0) =>
                   (~Contains(bar, "-") <=> call.current >= call.total)

Colourless ==
    call = NoCall => \A k \in 1..Len(colors) :
        StripANSI(Sprint(colors[k], <<"a", "w", " ", "a">>)) = <<"a", "w", " ", "a">>

(* The layout functions (utils.go:78-195) fill the width they are given,   *)
(* with wide and combining runes too: padding is exact, truncation is a    *)
(* prefix and the ellipsis and fits unless the ellipsis itself does not,   *)
(* wrapping keeps the words and breaks a line only where it must be, the   *)
(* rows of a box line up, and colouring (color.go:99) takes no room once   *)
(* it is stripped, whatever became of the colour's attributes.             *)
FitsWidth == Padded /\ Truncated /\ Wrapped /\ Framed /\ Colourless

(* SplitLines (utils.go:198) under a Scanner: how the stream is cut into   *)
(* reads makes no difference to its lines, if no read ends between CR and  *)
(* LF, where SplitLines does not ask for more and the LF becomes a line.   *)
CutsInvisible ==
    (call.fn = "Scan" /\ call.cut <= Len(call.text)) =>
        LET before == SubSeq(call.text, 1, call.cut)
            after  == SubSeq(call.text, call.cut + 1, Len(call.text))
            split  == before # << >> /\ after # << >> /\ Last(before) = "CR" /\ Head(after) = "LF"
        IN ~split => Scan(<< >>, <<before, after>>) = Scan(<< >>, <<call.text>>)

(* Two colours share an array and were made with different attributes in   *)
(* the same place of it.                                                   *)
Clash(c, d) == c.arr = d.arr /\ \E i \in 1..c.len : i <= d.len /\ c.want[i] # d.want[i]

(* Bold, Underline, Blink and Reverse (color.go:57-78): a colour keeps the *)
(* attributes it was made with while others are derived from it, as long   *)
(* as it has three at most, or one beyond a 256-colour's; a longer one     *)
(* loses them only once two variants were appended in one array.           *)
VariantsStable ==
    \A c \in Range(colors) :
        Attrs(c) # c.want =>
            /\ Len(c.want) > (IF colors[1].arr = 0 THEN 3 ELSE 4)
            /\ \E d \in Range(colors), e \in Range(colors) : Clash(d, e)
============================================================================
