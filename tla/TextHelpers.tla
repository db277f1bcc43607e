---------------------------- MODULE TextHelpers ----------------------------
(***************************************************************************)
(* The text functions of utils.go as operators.  A string is a sequence of *)
(* runes, of which only the class matters: "a" and the punctuation used    *)
(* below stand for single-byte runes, "w" for a multi-byte rune and "c"    *)
(* for a combining mark, which is multi-byte too.                          *)
(***************************************************************************)
EXTENDS Integers, SequencesExt, FiniteSetsExt

DefaultWidth == 80

Spaces(n) == [k \in 1..n |-> " "]

RuneWidth(r) == CASE r = "c" -> 0 [] r = "w" -> 2 [] OTHER -> 1

StringWidth(s) == FoldLeft(LAMBDA n, r : n + RuneWidth(r), 0, s)

(* Mutant: the padding is counted in runes. *)
PadRightRunes(s, width) == IF Len(s) >= width THEN s ELSE s \o Spaces(width - Len(s))

PadRight(s, width) ==
    IF StringWidth(s) >= width THEN s ELSE s \o Spaces(width - StringWidth(s))

PadLeft(s, width) ==
    IF StringWidth(s) >= width THEN s ELSE Spaces(width - StringWidth(s)) \o s

Center(s, width) ==
    LET room == width - StringWidth(s)
    IN IF room <= 0 THEN s ELSE Spaces(room \div 2) \o s \o Spaces(room - room \div 2)

(* The loop of Truncate counts every multi-byte rune as 2, a combining     *)
(* mark too.                                                               *)
TruncateWidth(s) == FoldLeft(LAMBDA n, r : n + (IF r \in {"w", "c"} THEN 2 ELSE 1), 0, s)

Truncate(s, maxWidth, ellipsis) ==
    LET ew   == StringWidth(ellipsis)
        over == {k \in 1..Len(s) : TruncateWidth(SubSeq(s, 1, k)) > maxWidth - ew}
    IN IF StringWidth(s) <= maxWidth THEN s
       ELSE IF ew >= maxWidth THEN ellipsis
       ELSE IF over = {} THEN s
       ELSE SubSeq(s, 1, Min(over) - 1) \o ellipsis

(* WordWrap of the words strings.Fields finds.                             *)
WordWrap(words, maxWidth) ==
    LET limit == IF maxWidth <= 0 THEN DefaultWidth ELSE maxWidth
        put(acc, word) ==
            LET full == acc.width > 0 /\ acc.width + 1 + StringWidth(word) > limit
                line == IF full THEN << >> ELSE acc.line
                sep  == IF full \/ acc.width = 0 THEN << >> ELSE <<" ">>
            IN [lines |-> IF full THEN Append(acc.lines, acc.line) ELSE acc.lines,
                line  |-> line \o sep \o word,
                width |-> (IF full THEN 0 ELSE acc.width) + Len(sep) + StringWidth(word)]
        end == FoldLeft(put, [lines |-> << >>, line |-> << >>, width |-> 0], words)
    IN IF end.line = << >> THEN end.lines ELSE Append(end.lines, end.line)

(* The rows of a box; width 1 and below 0 make strings.Repeat panic and    *)
(* are left out.                                                           *)
Box(lines, width) ==
    LET inner == IF width > 0 THEN width - 4
                 ELSE Max({0} \cup {StringWidth(lines[k]) : k \in 1..Len(lines)})
        top == <<"+">> \o [k \in 1..(inner + 2) |-> "-"] \o <<"+">>
    IN <<top>>
       \o [k \in 1..Len(lines) |-> <<"|", " ">> \o PadRight(lines[k], inner) \o <<" ", "|">>]
       \o <<top>>

ProgressBar(current, total, width) ==
    LET filled == IF total <= 0 THEN 0
                  ELSE ((IF current > total THEN total ELSE current) * width) \div total
    IN <<"[">> \o [k \in 1..width |-> IF k <= filled THEN "=" ELSE "-"] \o <<"]">>
----------------------------------------------------------------------------
(* The bytes that end a CSI sequence, of the ones the model tells apart. *)
FinalBytes == {"[", "m", "a"}

RECURSIVE StripANSI(_)
StripANSI(s) ==
    IF s = << >> THEN << >>
    ELSE IF s[1] # "ESC" \/ Len(s) = 1 THEN <<s[1]>> \o StripANSI(Tail(s))
    ELSE LET final == SelectInSeq(SubSeq(s, 3, Len(s)), LAMBDA b : b \in FinalBytes)
         IN CASE s[2] # "[" -> StripANSI(SubSeq(s, 3, Len(s)))
              [] s[2] = "[" /\ final > 0 -> StripANSI(SubSeq(s, final + 3, Len(s)))
              [] OTHER -> << >>
----------------------------------------------------------------------------
(* Mutant: what has no end yet is taken for a line before the input ends. *)
SplitLinesEager(data, atEOF) ==
    LET i == SelectInSeq(data, LAMBDA b : b \in {"CR", "LF"})
        crlf == data[i] = "CR" /\ i < Len(data) /\ data[i + 1] = "LF"
    IN IF i > 0 THEN [advance |-> IF crlf THEN i + 1 ELSE i, token |-> <<SubSeq(data, 1, i - 1)>>]
       ELSE IF data # << >> THEN [advance |-> Len(data), token |-> <<data>>]
       ELSE [advance |-> 0, token |-> << >>]

(* SplitLines: how many bytes to take, and whether they make a token.      *)
SplitLines(data, atEOF) ==
    LET i == SelectInSeq(data, LAMBDA b : b \in {"CR", "LF"})
        crlf == data[i] = "CR" /\ i < Len(data) /\ data[i + 1] = "LF"
    IN IF i > 0 THEN [advance |-> IF crlf THEN i + 1 ELSE i, token |-> <<SubSeq(data, 1, i - 1)>>]
       ELSE IF atEOF /\ data # << >> THEN [advance |-> Len(data), token |-> <<data>>]
       ELSE [advance |-> 0, token |-> << >>]

ScanLines(data, atEOF) == SplitLines(data, atEOF)

(* A bufio.Scanner: it calls the split function as long as that makes      *)
(* tokens, then reads the next chunk, and calls it with atEOF at the end.  *)
RECURSIVE Scan(_, _)
Scan(buffered, chunks) ==
    LET atEOF == chunks = << >>
        split == ScanLines(buffered, atEOF)
    IN IF split.token # << >>
       THEN split.token \o Scan(SubSeq(buffered, split.advance + 1, Len(buffered)), chunks)
       ELSE IF atEOF THEN << >>
       ELSE Scan(buffered \o Head(chunks), Tail(chunks))
============================================================================
