----------------------------- MODULE MCSession -----------------------------
(* Two client sockets and three clients, so that one object serves two of them and
   an api finds what the call before left; two units of header, so that one can
   be torn.                                                                  *)
EXTENDS SessionProps
=============================================================================
