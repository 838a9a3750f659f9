----------------------------- MODULE MCSession -----------------------------
(* Two waits, and every request beside one that never reaches the daemon:  *)
(* connections share only the permits of waits, the entry and shutdown.    *)
EXTENDS Session

MCMixes ==
  {<<"await", "await">>} \cup {<<kind, "oversize">> : kind \in Requests}
=============================================================================
