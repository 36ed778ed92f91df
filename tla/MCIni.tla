------------------------------- MODULE MCIni --------------------------------
(***************************************************************************)
(* The lines of small workspace files.  Names and keys are one letter, so  *)
(* that a line has the shapes the parser tells apart and no more.          *)
(***************************************************************************)
EXTENDS IniProofs

NameT == <<"t">>
KeyC == <<"c">>
KeyD == <<"d">>
KeyW == <<"w">>

\* Headers, one of them padded and one not closed; entries of every key, padded,
\* with a second equals sign, with an empty value; indented lines of one and two
\* words; a key without a value; an empty line and a comment that looks like an
\* entry; a last line without a newline.
PlainLine ==
  { <<"[", "t", "]", NL>>, <<"[", " ", "u", " ", "]", NL>>, <<"[", "u", NL>>,
    <<"c", " ", "=", " ", "x", NL>>, <<"c", "=", NL>>, <<"w", "=", "x", "y", NL>>,
    <<"d", "=", "x", NL>>, <<"v", "=", "x", "=", "y", NL>>,
    <<" ", "y", NL>>, <<" ", " ", "x", " ", "y", " ", NL>>,
    <<"k", NL>>, <<NL>>, <<"#", "c", "=", "x", NL>>, <<"c", "=", "y">> }

\* The hypothesis of IniProofs is met by these lines.
ASSUME PlainLinesAreTidy == Line = PlainLine => TidyLines

\* The shape of the example in src/README.md: comments between the entries.
CommentedLine ==
  { <<"[", "t", "]", NL>>, <<"#", "c", NL>>, <<"w", "=", "x", "y", NL>>,
    <<"c", "=", "x", NL>> }
=============================================================================
