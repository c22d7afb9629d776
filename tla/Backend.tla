------------------------------ MODULE Backend ------------------------------
(***************************************************************************)
(* What a backend (IBackend and its operators) promises about the photos   *)
(* and groups it keeps, whatever fails: a call changes everything it is    *)
(* asked to or nothing.  It may be a later call that makes a change        *)
(* durable; an error then takes the content back to what was durable,      *)
(* never to something in between.                                          *)
(***************************************************************************)
EXTENDS Functions

CONSTANTS Photos, Groups,
          Details, \* what a new photo may come with
          Edits    \* what update() may be asked to change in a photo

VARIABLES content, \* what the clients read
          durable  \* what a crash leaves

\* A photo's details; a group's representative and members.
Change(photo, e) == [f \in DOMAIN photo |-> IF f \in DOMAIN e THEN e[f] ELSE photo[f]]

\* One more argument.
With(f, x, v) == [y \in DOMAIN f \cup {x} |-> IF y = x THEN v ELSE f[y]]

AddPhoto(p, photo) ==
    /\ p \notin DOMAIN content.photos
    /\ content' = [content EXCEPT !.photos = With(@, p, photo)]

\* All of the photos, with the same delta.
Update(S, e) ==
    /\ S \subseteq DOMAIN content.photos
    /\ content' = [content EXCEPT !.photos =
                     [p \in DOMAIN @ |-> IF p \in S THEN Change(@[p], e) ELSE @[p]]]

AddGroup(g, p) ==
    /\ g \notin DOMAIN content.groups
    /\ p \in DOMAIN content.photos
    /\ content' = [content EXCEPT !.groups = 
                     With(@, g, [representative |-> p, members |-> {}])]

Joined(group, S) == [group EXCEPT !.members = @ \cup S]
Left(group, S) == [group EXCEPT !.members = @ \ S]

\* A photo is a member of one group.
Join(S, g) ==
    /\ g \in DOMAIN content.groups
    /\ S \subseteq DOMAIN content.photos
    /\ content' = [content EXCEPT !.groups =
                     [h \in DOMAIN @ |-> IF h = g THEN Joined(@[h], S) ELSE Left(@[h], S)]]

RemoveGroup(g) ==
    /\ g \in DOMAIN content.groups
    /\ content' = [content EXCEPT !.groups = Restrict(@, DOMAIN @ \ {g})]

\* Only a photo no group needs.
RemovePhoto(p) ==
    /\ \A g \in DOMAIN content.groups : /\ content.groups[g].representative # p
                                        /\ p \notin content.groups[g].members
    /\ content' = [content EXCEPT !.photos = Restrict(@, DOMAIN @ \ {p})]

Reviewed(photo) == [photo EXCEPT !.flags = @ \ {"StagingArea"}]

MarkStagedAsReviewed ==
    content' = [content EXCEPT !.photos = [p \in DOMAIN @ |-> Reviewed(@[p])]]

Call ==
    /\ \/ \E p \in Photos, photo \in Details : AddPhoto(p, photo)
       \/ \E S \in SUBSET DOMAIN content.photos, e \in Edits : Update(S, e)
       \/ \E g \in Groups, p \in Photos : AddGroup(g, p)
       \/ \E S \in SUBSET Photos, g \in Groups : Join(S, g)
       \/ \E g \in Groups : RemoveGroup(g)
       \/ \E p \in Photos : RemovePhoto(p)
       \/ MarkStagedAsReviewed
    /\ durable' \in {durable, content'}

\* A crash, or an error while earlier changes are not durable yet.
Lose == content' = durable /\ UNCHANGED durable

Init == content = durable

Next == Call \/ Lose

Spec == Init /\ [][Next]_<<content, durable>>
=============================================================================
