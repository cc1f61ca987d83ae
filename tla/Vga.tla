-------------------------------- MODULE Vga --------------------------------
(***************************************************************************)
(* The console device: the text screen of vga_tmode.c and the parser of    *)
(* escape sequences cansid.c in front of it, as operators on one record.   *)
(* Row 0 holds the banner; text starts in row 1.                           *)
(***************************************************************************)
EXTENDS Integers, Sequences, Bitwise

CONSTANTS
  VGAWIDTH, VGAHEIGHT   \* 80 and 25 in the code

ASSUME VgaAssumption == VGAWIDTH \in Nat \ {0} /\ VGAHEIGHT \in Nat \ {0, 1}

ESC == "ESC"
NUL == "NUL"
Cell(c, style) == [c |-> c, style |-> style]
Blank == Cell(" ", 15)
Digit == [d \in {"0", "1", "2", "3", "4", "5", "6", "7"} |->
            CASE d = "0" -> 0 [] d = "1" -> 1 [] d = "2" -> 2 [] d = "3" -> 3
              [] d = "4" -> 4 [] d = "5" -> 5 [] d = "6" -> 6 [] OTHER -> 7]

\* The screen after vga_tmode_init has filled row 0 with the banner, which the last
\* character ends with a new line.
vga_tmode_init ==
  [x_pos |-> 0, y_pos |-> 1, state |-> "ESC", style |-> 15, next_style |-> 15, ascii |-> NUL,
   buf |-> [y \in 0..VGAHEIGHT - 1 |->
              [x \in 0..VGAWIDTH - 1 |-> IF y = 0 THEN Cell("=", 112) ELSE Blank]]]

cansid_convert_color(d) == <<0, 4, 2, 6, 1, 5, 3, 7>>[Digit[d] + 1]

\* One character through the parser: ascii is the character to show, if any.
cansid_process(v0, x) ==
  LET v == [v0 EXCEPT !.ascii = NUL]
      Goto(s) == [v EXCEPT !.state = s]
      Value(style) == [v EXCEPT !.state = "ENDVAL", !.next_style = style]
      Reject == [v EXCEPT !.state = "ESC", !.next_style = v.style, !.ascii = x]
  IN CASE v.state = "ESC" -> IF x = ESC THEN Goto("BRACKET") ELSE [v EXCEPT !.ascii = x]
       [] v.state = "BRACKET" -> IF x = "[" THEN Goto("PARSE") ELSE [Goto("ESC") EXCEPT !.ascii = x]
       [] v.state = "PARSE" -> CASE x = "3" -> Goto("FGCOLOR")
                                 [] x = "4" -> Goto("BGCOLOR")
                                 [] x = "0" -> Value(15)
                                 [] x = "1" -> Value(v.next_style | 8)
                                 [] x = "=" -> Goto("EQUALS")
                                 [] OTHER -> Reject
       [] v.state = "BGCOLOR" -> IF x \in DOMAIN Digit
                                 THEN Value((v.next_style & 31) | (16 * cansid_convert_color(x)))
                                 ELSE Reject
       [] v.state = "FGCOLOR" -> IF x \in DOMAIN Digit
                                 THEN Value((v.next_style & 248) | cansid_convert_color(x))
                                 ELSE Reject
       [] v.state = "EQUALS" -> IF x = "1" THEN Value(v.next_style & 247) ELSE Reject
       [] v.state = "ENDVAL" -> CASE x = ";" -> Goto("PARSE")
                                  [] x = "m" -> [v EXCEPT !.state = "ESC", !.style = v.next_style]
                                  [] OTHER -> Reject

\* Mutant: every row moves up, the banner with them.
scroll_all(buf) ==
  [y \in DOMAIN buf |-> IF y = VGAHEIGHT - 1 THEN [x \in DOMAIN buf[y] |-> Blank] ELSE buf[y + 1]]

\* The rows below row 1 move up by one and the last row is cleared.
scroll(buf) ==
  [y \in DOMAIN buf |-> IF y = VGAHEIGHT - 1 THEN [x \in DOMAIN buf[y] |-> Blank]
                        ELSE IF y = 0 THEN buf[0] ELSE buf[y + 1]]

vga_tmode_newline(v) ==
  IF v.y_pos = VGAHEIGHT - 1 THEN [v EXCEPT !.buf = scroll(v.buf), !.x_pos = 0]
  ELSE [v EXCEPT !.x_pos = 0, !.y_pos = @ + 1]

\* A character with a glyph.
vga_tmode_write_char(v, c, style) ==
  LET w == [v EXCEPT !.buf[v.y_pos][v.x_pos] = Cell(c, style)]
  IN IF v.x_pos = VGAWIDTH - 1 THEN vga_tmode_newline(w) ELSE [w EXCEPT !.x_pos = @ + 1]

\* One character through the parser and on to the screen; a tab is four blanks,
\* each of which goes through the parser again.
vga_tmode_putchar(v, x) ==
  LET w == cansid_process(v, x)
      Space(u) == LET p == cansid_process(u, " ") IN vga_tmode_write_char(p, p.ascii, u.style)
      shown == CASE w.ascii = NUL -> w
                 [] w.ascii = "\n" -> vga_tmode_newline(w)
                 [] w.ascii = "\t" -> Space(Space(Space(Space(w))))
                 [] OTHER -> vga_tmode_write_char(w, w.ascii, v.style)
  IN [shown EXCEPT !.ascii = NUL]
=============================================================================
