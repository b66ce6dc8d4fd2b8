----------------------------- MODULE MCConfigure -----------------------------
(* Two checkouts called foo under two roots, bar and BAR that differ in case,  *)
(* BAR with a malformed marker, a linked worktree of foo, a directory inside   *)
(* it and one that is gone; two paths share a slug.                            *)
EXTENDS Configure

CONSTANTS code, work, foo, foo2, bar, BAR, wt, src, gone, key

Dirs == {code, work, foo, foo2, bar, BAR, wt, src, gone}
Tree == [d \in Dirs |-> CASE d \in {code, work} -> NoDir [] d \in {foo2, BAR, wt} -> work
                          [] d = src -> foo [] OTHER -> code]
Leaves == [d \in Dirs |-> CASE d \in {foo, foo2} -> "foo" [] d = bar -> "bar" [] d = BAR -> "BAR"
                            [] d = wt -> "wt" [] d = src -> "src"
                            [] d = gone -> "gone" [] d = code -> "code" [] OTHER -> "work"]
Names4 == {Leaves[d] : d \in Dirs} \cup {"zed"}
Caseless == [x \in Dirs \cup Names4 |-> IF x = "BAR" THEN "bar" ELSE x]
Markers == [d \in Dirs |-> CASE d \in {foo, foo2, bar} -> "dir" [] d = wt -> foo
                             [] d = BAR -> "malformed" [] OTHER -> "none"]
Rows == <<bar, BAR, code, foo, foo2, gone, src, work, wt>>
Slugs == [d \in Dirs |-> IF d \in {foo2, BAR} THEN "same" ELSE Leaves[d]]

None == [canonical |-> Absent, dotted |-> Absent]
Good == [url |-> "https", key |-> key, org |-> Blank]
Keyless == [Good EXCEPT !.key = Blank]
Pathful == [Good EXCEPT !.url = "path"]
Only(c) == [canonical |-> c, dotted |-> Absent]
AtFirst(c) == [d \in Dirs |-> CASE d = foo -> Only(Good) [] d = bar -> [canonical |-> Good, dotted |-> Good]
                                [] d = foo2 -> c [] OTHER -> None]
Files == {AtFirst(Only(Pathful))}
Written == {<<foo2, Only(Good)>>, <<foo2, [canonical |-> Good, dotted |-> Keyless]>>,
            <<foo2, [canonical |-> Keyless, dotted |-> Keyless]>>,
            <<BAR, [canonical |-> Absent, dotted |-> Good]>>, <<bar, Only(Keyless)>>, <<wt, Only(Keyless)>>}

Lists == {<<foo, Blank, "zed">>}
Options == {[allow |-> Absent, add |-> <<>>, drop |-> <<>>],
            [allow |-> Absent, add |-> <<"wt", "foo">>, drop |-> <<"zed", "foo">>]}
Typed == {<<"esc", "[", "B">>, <<"esc", "[", "A">>, <<"space">>, <<"esc">>, <<"o">>, <<"backspace">>,
          <<"space", "enter">>, <<"esc", "[">>, <<"A">>}
Letters == {"o", "A"}
Found == [f \in {<<>>, <<"o">>, <<"A">>, <<"o", "A">>, <<"o", "o">>, <<"A", "o">>, <<"A", "A">>} |->
            CASE f = <<>> -> Names4 [] f = <<"o">> -> {"foo", "code", "gone", "work"}
              [] f = <<"A">> -> {"bar", "BAR"} [] f = <<"o", "o">> -> {"foo"} [] OTHER -> {}]
Chats == {[tool |-> "claude", cwd |-> d, slug |-> "none"] : d \in {foo, foo2, bar, BAR, wt, src, gone}}
         \cup {[tool |-> "cursor", cwd |-> NoDir, slug |-> s] : s \in {"same", "bar", "foo", "none"}}
=============================================================================
