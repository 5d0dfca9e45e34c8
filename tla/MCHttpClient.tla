---------------------------- MODULE MCHttpClient ----------------------------
(* A header and a body of two reads each, or fewer; three logins.          *)
EXTENDS HttpClient
=============================================================================
