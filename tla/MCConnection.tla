---------------------------- MODULE MCConnection ----------------------------
(* Every segmentation of a request with a body, of an upgrade, of an        *)
(* upgrade whose Host comes last, of one that breaks off, and of a body     *)
(* that speaks of upgrades; documents around the caps, with and without     *)
(* their marks.                                                             *)
EXTENDS Connection

MCStreams == {<<"line", "host", "eoh", "data">>, <<"line", "host", "upgrade", "eoh">>,
              <<"line", "upgrade", "host", "eoh">>, <<"line", "host", "eoh", "upgrade">>, <<"line", "upgrade">>}
MCTexts == {<<>>, <<"text", "text">>, <<"tag", "bin">>, <<"tag", "text">>,
            <<"tag", "body", "body", "html">>, <<"tag", "html", "html">>,
            <<"tag", "text", "text", "body", "text">>,
            <<"tag", "text", "text", "text", "body", "html">>}
            \cup {[i \in 1..n |-> IF i = 1 THEN "tag" ELSE "text"] : n \in 7..14}
MCFrames == <<"frame1", "frame2">>
MCBytes == {"a", "b"}
MCMarker == <<"a", "a", "b">>
MCDocs == UNION {[1..n -> MCBytes] : n \in 0..6}
=============================================================================
