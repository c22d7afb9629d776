---------------------------- MODULE MCSqlBackend ----------------------------
(* Small instances of SqlBackend. *)
EXTENDS SqlBackend

OneName == {"event"}
TwoValues == {1, 2}

\* The tags editor, the analyzer, and the editor that clears the tags.
ThreeEdits == {[tags |-> [n \in OneName |-> 1]],
               [tags |-> [n \in OneName |-> 2], flags |-> {"ExifLoaded"}, geometry |-> TRUE],
               [tags |-> <<>>]}

\* Nothing, two photos to review, or two photos in a group.
Photographs(n, flags) ==
    [photos |-> 1 .. n, flags |-> {[photo |-> p, on |-> flags] : p \in 1 .. n},
     generalFlags |-> {}, geometry |-> {}, tags |-> {}, groups |-> {}, members |-> {},
     log |-> <<>>]

Grouped == [Photographs(3, {}) EXCEPT
              !.groups = {[id |-> 1, representative |-> 3]},
              !.members = {[group |-> 1, photo |-> p] : p \in 1 .. 2},
              !.log = <<Entry(3, "group", <<>>, <<1, "Representative">>),
                        Entry(1, "group", <<>>, <<1, "Member">>),
                        Entry(2, "group", <<>>, <<1, "Member">>)>>]

SomeCollections == {Photographs(0, {}), Photographs(2, {"StagingArea"}), Grouped}

\* Nothing failed in the sessions that left them, which the theorem about the log
\* of the groups asks for.
ASSUME CollectionsAreKept == \A c \in SomeCollections : GroupsAreKept(c)
=============================================================================
