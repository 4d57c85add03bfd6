---------------------------- MODULE MCSourceText ----------------------------
(***************************************************************************)
(* Texts of one to three lines for a machine of 16 tracks of 4 sectors,    *)
(* each line put together from fields that are good, or bad in one way.    *)
(***************************************************************************)
EXTENDS SourceText, SequencesExt

NoSource == {<<>>}

\* A string as the sequence of its characters.
Chars(s) == [i \in 1 .. Len(s) |-> SubSeq(s, i, i)]

Joined(pieces) == FlattenSeq([i \in DOMAIN pieces |-> Chars(pieces[i])])

Locations == {"0000", "1503", "1600", "0004", "000", "00001", "0x00"}
Operations == {"b", "s", "dw", "d", "B", "k", "start"}
Operands == {"0302", "0710", "-1024", "+1023", "1024", "-", "2048", "0000007", "1-1"}
Blanks == {" ", " \t"}

\* A location, an operation and an operand, with what may follow them.
FullLines ==
  {Joined(<<location, blank, operation, blank, operand, after>>) :
     location \in Locations, blank \in Blanks, operation \in Operations,
     operand \in Operands, after \in {"", ";b 1", " 1", "\r"}}

\* Fewer fields, or none.
ShortLines ==
  {Joined(<<before, first, blank, second, after>>) :
     before \in {"", "\t"},
     first \in {"", "start", "starts", "0000"}, blank \in Blanks, second \in {"", "1501", "dw", "1616"},
     after \in {"", ";", "; 0000"}}

\* A line that fills linebuf, one that fills it but for the NUL, and one that is
\* long because of its comment.
LongLines ==
  {Joined(<<"0001 b 0000", IF comment THEN ";" ELSE " ">>) \o [i \in 1 .. n |-> "x"] :
     comment \in BOOLEAN, n \in {11, 12, 13}}

Endings == {<<>>, <<NEWLINE>>, <<NUL>> \o Chars(" 0000"), <<NEWLINE, NEWLINE>> \o Chars("1 b 2")}

Few == {Joined(<<l>>) : l \in {"", ";", " start 0002", "0002 dw 5", "\t0002 b 0002", " 0002 b", "0002 z 1600"}}

SomeTexts ==
  {line_ \o ending : line_ \in ShortLines \cup LongLines, ending \in Endings}
    \cup {line_ \o <<NEWLINE>> : line_ \in FullLines}
    \cup {one \o <<NEWLINE>> \o two \o ending : one, two \in Few, ending \in Endings}
    \cup {one \o <<NEWLINE>> \o two \o <<NEWLINE>> \o three : one, two, three \in Few}
=============================================================================
