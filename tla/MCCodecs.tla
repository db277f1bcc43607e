------------------------------ MODULE MCCodecs ------------------------------
EXTENDS Codecs

Strings == {<< >>, <<"a">>}
Maps(V) == UNION {[D -> V] : D \in SUBSET Strings}
Values(V) == {MSDPString(s) : s \in Strings} \cup {MSDPTable(t) : t \in Maps(V)}
             \cup {MSDPArray(a) : a \in BoundedSeq(V, 2)}
Flat == Values({MSDPString(s) : s \in Strings})

MCMSDPMaps == Maps(Flat) \cup [{<<"a">>} -> Values(Flat)]
MCMSSPLists == BoundedSeq(Strings \X Strings, 3)
MCGMCPMessages == [package : BoundedSeq({"a", " "}, 2), data : BoundedSeq({"a", " "}, 2)]
MCMCPMessages == [package : {"p"}, authKey : {"", "k"}, tag : {"", "t"},
                  params : UNION {[D -> {"", "v"}] : D \in SUBSET {"x", "y"}}]
MCTexts == BoundedSeq({"a", "w", "c"}, 4)
MCEllipses == {<< >>, <<"a">>, <<"w", "a">>}
MCWordLists == BoundedSeq(BoundedSeq({"a", "w", "c"}, 2) \ {<< >>}, 3)
MCBoxLines == BoundedSeq(BoundedSeq({"a", "w", "c"}, 2), 2)
MCStreams == BoundedSeq({"a", "CR", "LF"}, 5)
MCAttributes == {"1", "4"}
============================================================================
