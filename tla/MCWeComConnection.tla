------------------------- MODULE MCWeComConnection -------------------------
EXTENDS WeComConnection

CONSTANTS c1, c2

OneSend == {c1}
OneApproval == {c2}
OneMessage == {<<"text", "upload", "media">>}
=============================================================================
