------------------------------ MODULE MCSearch ------------------------------
(***************************************************************************)
(* Instance of Search for TLC: texts put together from a few pieces, given *)
(* whole, in two chunks cut anywhere, or as two files, to engines with     *)
(* none, some and all of the filters.                                      *)
(***************************************************************************)
EXTENDS Search

Letters == {"a", "b", "A"}
Lower   == [x \in {"A"} |-> "a"]
Stops   == {<<"b">>}
Throwing == {<<"a", "b">>}

Parts == {<<"a">>, <<"b">>, <<" ">>, <<"<", "a", ">">>, <<"D", "T">>, <<".">>}
Texts == Parts \cup {p \o q : p, q \in Parts} \cup {p \o q \o r : p, q, r \in Parts}
           \cup {<<"A", " ">> \o p \o <<"D", " ", "a">> : p \in Parts}
           \cup {<<"<", "/", "a", ">", "a">>, <<"a", "<", "a", "a", "a", "a", ">">>, <<"<", " ", "a", ">">>}
           \cup {<<"<", "a", "D", "T", ">">> \o p : p \in Parts}

Part(text, id, at) == [text |-> text, fileId |-> id, offset |-> at]
Whole  == {<<Part(t, 1, 0)>> : t \in Texts}
Cut    == {<<Part(SubSeq(t, 1, n), 1, 0), Part(SubSeq(t, n + 1, Len(t)), 1, n)>> :
             t \in {x \in Texts : Len(x) \in 4 .. 6}, n \in 2 .. 3}
Pairs  == {<<Part(p \o <<" ">> \o q, 1, 0), Part(q \o <<" ">> \o p, 2, 0)>> : p, q \in Parts}
\* Files longer and shorter than the window of a context.
Long  == <<"a", " ", "b", " ", "a", " ", "a", "b", " ", "b", " ", "b">>
Short == {<<"a", "b">>, <<"a", "b", " ", "a">>, <<"b", " ", "a", "b">>, <<"D", "T", " ", "a", "b">>, <<"b", "a", " ", "a", "b", " ", "a">>}
Shown == {<<Part(Long, 1, 0), Part(t, 2, 0)>> : t \in Short}
           \cup {<<Part(s, 1, 0), Part(t, 2, 0)>> : s, t \in Short}
AllInputs == Whole \cup Cut \cup Pairs \cup Shown

Setting(filters, mode) == [filters |-> filters, mode |-> mode]
AllSettings ==
  {Setting({}, "NATIVE_POSES"), Setting({"Htmler"}, "CLEAR_POSES"),
   Setting({"Lowercaser", "Htmler", "Punctuator", "StopWords"}, "NATIVE_POSES"),
   Setting({"Punctuator", "EnglishStemmer"}, "CLEAR_POSES")}

AllQueries == {<< >>, <<"a", "b">>, <<"D", "T">>, <<"a", " ", "a">>, <<"a", " ", "b">>, <<"a", ".", "D", "T">>,
               <<"A", "b", " ", " ", "a", "a", "a", "a">>}

=============================================================================
