------------------------------- MODULE Colors -------------------------------
(***************************************************************************)
(* The colours of color.go as values that share memory.  A Color is copied *)
(* by value, but its Attrs is a slice: Bold, Underline, Blink and Reverse  *)
(* append to it, in place when the array behind it has room.  Numbers in   *)
(* an escape sequence are tokens; the separators are left out.             *)
(***************************************************************************)
EXTENDS Integers, Sequences

CONSTANTS Attributes,     \* the numbers the variants append, among 1, 4, 5, 7
          Palette         \* the most colours a program makes

VARIABLES arrays,         \* the arrays behind the slices
          colors          \* the Colors made so far

vars == <<arrays, colors>>

(* A Color: fg and bg are "" for -1, arr is 0 for a nil slice; want is     *)
(* what its maker asked for, kept beside the program's own state.          *)
Color(fg, bg, arr, len, want) ==
    [fg |-> fg, bg |-> bg, arr |-> arr, len |-> len, want |-> want]

(* Mutant: the array of a 256-colour has room to spare. *)
Color256Roomy == <<"38", "5", "code", "", "">>

Color256 == <<"38", "5", "code">>

(* A named colour has no Attrs, a 256-colour a full array of three. *)
Init == \/ arrays = << >> /\ colors = <<Color("31", "", 0, 0, << >>)>>
        \/ arrays = <<Color256>> /\ colors = <<Color("", "", 1, 3, SubSeq(Color256, 1, 3))>>

Attrs(c) == IF c.arr = 0 THEN << >> ELSE SubSeq(arrays[c.arr], 1, c.len)

(* The capacity append gives a slice of n integers that is full. *)
GrownCap(n) == IF n = 0 THEN 1 ELSE 2 * n

Full(c) == c.len = IF c.arr = 0 THEN 0 ELSE Len(arrays[c.arr])

(* Bold, Underline, Blink, Reverse: c.Attrs = append(c.Attrs, a), to a     *)
(* larger copy when the array is full ...                                  *)
VariantCopied(c, a) ==
    /\ Full(c)
    /\ arrays' = Append(arrays, [k \in 1..GrownCap(c.len) |->
                    IF k <= c.len THEN Attrs(c)[k] ELSE IF k = c.len + 1 THEN a ELSE ""])
    /\ colors' = Append(colors, Color(c.fg, c.bg, Len(arrays'), c.len + 1, Append(c.want, a)))

(* ... and else in place. *)
VariantInPlace(c, a) ==
    /\ ~Full(c)
    /\ arrays' = [arrays EXCEPT ![c.arr][c.len + 1] = a]
    /\ colors' = Append(colors, Color(c.fg, c.bg, c.arr, c.len + 1, Append(c.want, a)))

On(c) ==
    /\ c.bg = ""
    /\ colors' = Append(colors, [c EXCEPT !.bg = "44"])
    /\ UNCHANGED arrays

RGB(c) ==
    /\ c.fg # "rgb"
    /\ colors' = Append(colors, [c EXCEPT !.fg = "rgb"])
    /\ UNCHANGED arrays
----------------------------------------------------------------------------
Reset == <<"ESC", "[", "0", "m">>

ANSI(c) ==
    LET number(n) == IF n = "" THEN << >> ELSE <<n>>
        parts == Attrs(c) \o number(c.fg) \o number(c.bg)
    IN IF parts = << >> THEN Reset ELSE <<"ESC", "[">> \o parts \o <<"m">>

Sprint(c, s) == ANSI(c) \o s \o Reset
============================================================================
