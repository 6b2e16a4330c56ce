--------------------------- MODULE MCEvidencePaths ---------------------------
(* A small instance of EvidencePaths: the question names f, an alias may make *)
(* it e or g, ff is another name with f in it.                                *)
EXTENDS EvidencePaths

MCInside == {<<x, x>> : x \in Entities} \cup {<<"f", "ff">>}

Says(mentions, binds, expresses) ==
    [mentions |-> mentions, buried |-> IF "ff" \in mentions THEN {"f"} \ mentions ELSE {},
     binds |-> binds, expresses |-> expresses, maps |-> {}, byId |-> FALSE]

Maps(x, y) == [Says({x, y}, {}, FALSE) EXCEPT !.maps = {<<x, y>>}, !.byId = TRUE]

MCTexts ==
    {Says({"e"}, {"e"}, TRUE),           \* the answer about e itself
     Says({"e", "g"}, {}, FALSE),        \* connects e and g
     Says({"g"}, {"g"}, TRUE),           \* the answer about g
     Maps("f", "e"),
     Maps("ff", "g"),                    \* of another name, which has f in it
     Says({"f", "g"}, {}, FALSE),        \* connects f and g
     Says({"f"}, {"f"}, TRUE),           \* the answer about f
     Says({"f", "ff"}, {"ff"}, TRUE),    \* connects f and ff, and answers for ff
     Says({"ff", "g"}, {"g"}, TRUE)}     \* names f in ff only, and answers for g

MCScore == [r \in Records |-> 1 + (r % 2)]

=============================================================================
