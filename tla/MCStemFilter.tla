---------------------------- MODULE MCStemFilter ----------------------------
(***************************************************************************)
(* Instance of StemFilter for TLC: words put together from beginnings, all *)
(* the suffixes and endings the stemmers know, and what may follow them.   *)
(***************************************************************************)
EXTENDS StemFilter

SpelledAll(S) == {Spelled(s) : s \in S}
Join(S, T) == {s \o t : s \in S, t \in T}
Places(list, k) == {list[n][k] : n \in DOMAIN list}
Members(list) == {list[n] : n \in DOMAIN list}

Beginnings == {"a", "y", "be", "sky", "hat", "add", "hop", "hopp", "abl", "oct", "gener", "commun",
               "relat", "st"}
Known == Places(Suffixes2, 1) \cup Places(Suffixes3, 1) \cup Members(Suffixes4)
           \cup {"", "e", "ll", "y", "eed", "eedly", "ss"}
Inflections == {"ed", "ing", "ingly", "es", "ies", "ied", "sses"}
English == SpelledAll(Join(Join(Beginnings, Known), {"", "s", "ed", "ing", "ly", "'s"})
             \cup Join(Known \cup {"o", "u", "r"}, Inflections)
             \cup DOMAIN Exceptions1 \cup Exceptions2
             \cup {"skY", "Yes", "4ed", "'s'"})

RuBeginnings == {"o", "oa", "ea", "bA", "gorod", "stra", "E", "krasiv", "mld"}
RuEndings == Members(Gerunds) \cup Members(Participles) \cup Members(Adjectives) \cup Members(Verbs)
               \cup Members(Nouns) \cup Members(Superlatives) \cup Members(Derivational)
               \cup {"", "i", "nn"}
Russian == SpelledAll(Join(Join(RuBeginnings, {"", "ost", "ejw", "anov", "ann", "a", "vw"}),
                Join(RuEndings, {"", "sA", "i"})))

=============================================================================
