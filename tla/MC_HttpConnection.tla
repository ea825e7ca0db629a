------------------------- MODULE MC_HttpConnection -------------------------
(* The .cfg gives two paths (a redirect can go elsewhere or come back),   *)
(* a query or none, bodies up to three bytes (a chunked body has up to    *)
(* three chunks), a server that redirects at most three times and three  *)
(* downloadFile calls, so a request starts after a completed one and      *)
(* after a failed one.                                                    *)
EXTENDS HttpConnection

MC_Queries == {"", "q"}
=============================================================================
