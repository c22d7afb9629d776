--------------------------- MODULE MCFacesDialog ---------------------------
(* Small instances of FacesDialog. *)
EXTENDS FacesDialog

Nobody == [names |-> <<>>, prints |-> <<>>, rows |-> <<>>]

\* One face was found and named.
OneNamed == [names |-> <<"Ann">>, prints |-> <<1>>, rows |-> <<Info(1, 1, 1)>>]

\* A person is on the photo, nobody knows where.
Unplaced == [names |-> <<"Ann">>, prints |-> <<>>, rows |-> <<Info(1, NoRect, NoId)>>]

\* A face without a name or a fingerprint, beside two named ones.
HalfKnown == [names |-> <<"Ann", "Bob">>, prints |-> <<2, 3>>,
              rows |-> <<Info(NoId, 1, NoId), Info(1, 2, 1), Info(2, 3, 2)>>]

EarlierContents == {Nobody, OneNamed, Unplaced, HalfKnown}
=============================================================================
