------------------------------- MODULE JanusApi -------------------------------
(***************************************************************************)
(* The outcome of a Janus request as the callers of api.c see it.          *)
(*                                                                         *)
(* Every request function of api.c has the same shape: encode the request  *)
(* (adding an HMAC token when the server has a key), send it over HTTP or  *)
(* WebSocket, decode the reply, and compare its type and transaction.      *)
(* What a caller does next depends only on which of those stages failed,   *)
(* so a reply is abstracted to that stage.  The JSON itself is left out.   *)
(***************************************************************************)

(***************************************************************************)
(* "unsent"    encode() failed: a JSON or token could not be built         *)
(* "undecoded" no reply, a timeout, or a reply that decode() refuses       *)
(* "mismatch"  decoded, but no "janus" type or another transaction         *)
(* "error"     janus=error with a complete error block                     *)
(* "badError"  janus=error with no usable error block                      *)
(* "success"   janus=success, our transaction, and the data asked for      *)
(* "noData"    janus=success without the data asked for                    *)
(* "exists"    janus=success carrying the plugin's error 486 (room exists) *)
(* "ack"       janus=ack and our transaction                               *)
(***************************************************************************)
Reply == {"unsent", "undecoded", "mismatch", "error", "badError",
          "success", "noData", "exists", "ack"}

\* A session id is returned only for a complete success (0 otherwise).
apiGetServerId(r) == r = "success"

\* A claim distinguishes a transport failure, which is retried with the same
\* session, from a refusal, which gives the session and its calls up.  It does
\* not look at the reply's data, and an unexpected type is a refusal.
apiClaimServerId(r) ==
  CASE r = "undecoded"                      -> "SOCKERR"
    [] r \in {"success", "noData", "exists"} -> "SUCCESS"
    [] r = "error"                          -> "NOT_INITALIZED"
    [] OTHER                                -> "FALSE"

\* A handle id is returned only for a complete success (0 otherwise).
apiGetSenderId(r) == r = "success"

\* A room that is already there counts as created.
apiCreateRoom(r) == r \in {"success", "exists"}

\* join and configure are acknowledged; their result is a later event.
apiJoin(r) == r = "ack"

\* "unbuilt": body.record or body.filename of a configure cannot be added.
\* Nothing is sent, but unlike in the other functions the result, which starts
\* as a success, is left as it is.
ConfigureReply == Reply \cup {"unbuilt"}
apiConfigure(r) == r \in {"ack", "unbuilt"}
===============================================================================
