---------------------------- MODULE MCLibraryScan ----------------------------
(* Small roots for the scan: a game on two discs whose playlist is missing, *)
(* a disc with a descriptor, a track and a subchannel file, a playlist of   *)
(* the user, one that lists a disc twice and one that lists itself, loose   *)
(* files, a sidecar, a nested folder and a platform that is not configured. *)
EXTENDS LibraryScan

File(name, title, tail, tokens, stem, ext, refs) ==
    [name |-> name, title |-> title, tail |-> tail, tokens |-> tokens, stem |-> stem,
     ext |-> ext, split |-> FALSE, refs |-> refs, valid |-> TRUE]

Files ==
    { File("A1.chd", 1, 0, << <<"disc", 1, 2>> >>, "A1", "chd", <<>>),
      File("A2.chd", 1, 2, <<>>, "A2", "chd", <<>>),
      File("A.m3u", 1, 0, <<>>, "A", "m3u", <<"A1.chd", "A2.chd">>),
      File("B.cue", 2, 0, << <<"region", "USA", 0>> >>, "B", "cue", <<"B.bin">>),
      File("B.bin", 2, 0, << <<"region", "USA", 0>> >>, "B", "bin", <<>>),
      File("B.sbi", 2, 0, << <<"region", "USA", 0>> >>, "B", "sbi", <<>>),
      File("D.m3u", 3, 0, <<>>, "D", "m3u", <<"A1.chd", "A1.chd">>),
      File("S.m3u", 3, 0, <<>>, "S", "m3u", <<"S.m3u">>),
      File("loose.sfc", 4, 0, <<>>, "loose", "sfc", <<>>),
      File("note.txt", 5, 0, <<>>, "note", "txt", <<>>),
      File("sub", 5, 0, <<>>, "sub", "", <<>>) }

MCNameOrder == <<"A.m3u", "A1.chd", "A2.chd", "B.bin", "B.cue", "B.sbi", "D.m3u",
                 "S.m3u", "loose.sfc", "note.txt", "sub">>
MCInfo == [n \in ToSet(MCNameOrder) |-> CHOOSE f \in Files : f.name = n]
MCSort == [n \in ToSet(MCNameOrder) |->
             CASE n = "note.txt" -> "sidecar" [] n = "sub" -> "odd" [] OTHER -> "game"]
MCPlaylist == <<<<"A.m3u">>, <<>>, <<>>, <<>>, <<>>>>

MCDirs == {"a", "a.m3u", "b", "top", "other"}
MCKind == [d \in MCDirs |->
             CASE d = "top" -> "loose" [] d = "other" -> "alien" [] OTHER -> "folder"]
MCHome == [n \in ToSet(MCNameOrder) |-> "a.m3u"]

Layout(a, b, top, other) == ("a" :> a) @@ ("a.m3u" :> {}) @@ ("b" :> b) @@ ("top" :> top) @@ ("other" :> other)
Discs == {"A1.chd", "A2.chd"}
Track == {"B.cue", "B.bin"}
MCLayouts ==
    { Layout(Discs, Track \cup {"B.sbi", "note.txt"}, {}, {}),
      Layout(Discs \cup {"A.m3u"}, Track \cup {"sub"}, {}, {}),
      Layout({"A1.chd"}, {}, {"loose.sfc", "B.cue"}, {"B.sbi"}),
      Layout({"A1.chd", "D.m3u"}, Track, {}, {}),
      Layout({"S.m3u"}, Track, {}, {}) }     \* every scan ends with an error
    \cup { Layout({}, S, {}, {}) : S \in SUBSET (Discs \cup Track \cup {"A.m3u", "B.sbi"}) }

MCUserPaths == {<<"a", "A.m3u">>, <<"a.m3u", "A.m3u">>, <<"a.m3u", "A2.chd">>,
                <<"a", "S.m3u">>, <<"b", "B.bin">>, <<"b", "note.txt">>}
=============================================================================
