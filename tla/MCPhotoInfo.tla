----------------------------- MODULE MCPhotoInfo -----------------------------
(* Small instances of PhotoInfo over AsyncDatabase for TLC. *)
EXTENDS PhotoInfo

CONSTANTS t1, t2, v1, v2, other

OneTag == {t1}
TwoTags == {t1, t2}
OneValue == {v1}
TwoValues == {v1, v2}
OneClient == {Editor}
TwoClients == {Editor, other}
MCRequests == TagLists \cup {Load}
=============================================================================
