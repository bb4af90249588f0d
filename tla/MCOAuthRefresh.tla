--------------------------- MODULE MCOAuthRefresh ---------------------------
(* OAuthRefresh with two callers and two accounts.                         *)
EXTENDS OAuthRefresh
=============================================================================
