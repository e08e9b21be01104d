------------------------------- MODULE MCMemory -------------------------------
(***************************************************************************)
(* Commands of lines that are missing, wrong, or as long as their buffers, *)
(* cut off anywhere; names of one and two symbols.                         *)
(***************************************************************************)
EXTENDS Memory

Line(s) == s \o <<"\n">>

MCNames == {<<"a">>, <<"a", "1">>}
PathLines == {<<"a">>, <<"a", "1">>, <<"a", "1", "1">>, <<"a", " ">>}
SizeLines == {<<"0">>, <<"2">>, <<"0", "2">>, <<"9">>, <<"x">>}
MCContents == {<< >>, <<"x">>, <<"y", "x", "y">>}

Sets == {Line(<<"set">>) \o Line(p) \o Line(n) \o c :
           p \in PathLines, n \in SizeLines, c \in MCContents}
Gets == {Line(<<"get">>) \o Line(p) \o c : p \in PathLines, c \in {<< >>, <<"\n">>, <<"x">>}}

MCInputs == UNION {{SubSeq(s, 1, n) : n \in 1 .. Len(s)} : s \in Sets \cup Gets}
=============================================================================
