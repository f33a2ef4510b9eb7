----------------------------- MODULE HttpAnnounce -----------------------------
(***************************************************************************)
(* One announce() of HttpTrackerClient: resolving, connecting, the request *)
(* and the redirects the tracker answers with, and cancel(), which closes  *)
(* the socket of the stream on the stream's strand.  The deadline of       *)
(* thirty seconds is set at each connect and ends whatever operation of    *)
(* the stream is pending when it is over.                                  *)
(***************************************************************************)
EXTENDS Integers

CONSTANTS Hosts, Ports,   \* 0 stands for no port in a URL
          DefaultPort,
          max_redirects

VARIABLES url,            \* authority of the tracker's URL
          pc,
          current_host,   \* the Host header: a host and a port or 0
          conn,           \* where the stream is connected to
          goal,           \* the authority the URL in use names
          location,       \* the redirect being followed
          redirect,
          socket,         \* "closed" or "open"
          cancelled       \* no; closing: the close waits for the strand;
                          \* closed: during the announce; late: after it

vars == <<url, pc, current_host, conn, goal, location, redirect, socket, cancelled>>

Authority == [host : Hosts, port : Ports]
Effective(a) == [a EXCEPT !.port = IF a.port = 0 THEN DefaultPort ELSE a.port]

HttpAssumption == DefaultPort \in Ports /\ 0 \in Ports /\ max_redirects \in Nat

(* The Host header of the first request is the host alone. *)
Init ==
  /\ url \in Authority
  /\ current_host = [url EXCEPT !.port = 0]
  /\ conn = Effective(url) /\ goal = Effective(url) /\ location = url
  /\ pc = "resolve" /\ redirect = 0 /\ socket = "closed"
  /\ cancelled = "no"

(* The resolver is not an operation of the stream. *)
Resolve ==
  /\ pc \in {"resolve", "resolve again"}
  /\ \/ /\ pc' = IF pc = "resolve" THEN "connect" ELSE "reconnect"
        /\ socket' = "open"
        /\ conn' = IF pc = "resolve" THEN Effective(url) ELSE Effective(location)
     \/ pc' = "failed" /\ UNCHANGED <<conn, socket>>
  /\ UNCHANGED <<url, current_host, goal, location, redirect, cancelled>>

(* After the reconnect the Host header is that of the redirect. *)
FollowedHost == location

Connect ==
  /\ pc \in {"connect", "reconnect"}
  /\ \/ socket = "open" /\ pc' = "write"
     \/ pc' = "failed"
  /\ current_host' = IF pc = "connect" THEN current_host ELSE FollowedHost
  /\ UNCHANGED <<url, conn, goal, location, redirect, socket, cancelled>>

(* The top of the loop: too many redirects, or the next request. *)
Write ==
  /\ pc = "write"
  /\ \/ redirect <= max_redirects /\ socket = "open" /\ pc' = "read"
     \/ pc' = "failed"
  /\ UNCHANGED <<url, current_host, conn, goal, location, redirect, socket, cancelled>>

(* The answer is a result, or an error status. *)
Read ==
  /\ pc = "read"
  /\ \/ socket = "open" /\ pc' = "done"
     \/ pc' = "failed"
  /\ UNCHANGED <<url, current_host, conn, goal, location, redirect, socket, cancelled>>

NextRedirect(r) == r + 1

(* A redirect to a path of the same authority. *)
RelativeRedirect ==
  /\ pc = "read" /\ socket = "open"
  /\ redirect' = NextRedirect(redirect) /\ pc' = "write"
  /\ UNCHANGED <<url, current_host, conn, goal, location, socket, cancelled>>

(* A redirect with an authority: if it is not what the Host header says,  *)
(* the stream is connected anew. *)
AbsoluteRedirect(loc) ==
  /\ pc = "read" /\ socket = "open"
  /\ location' = loc /\ goal' = Effective(loc)
  /\ redirect' = NextRedirect(redirect)
  /\ pc' = IF loc # current_host THEN "resolve again" ELSE "write"
  /\ UNCHANGED <<url, current_host, conn, socket, cancelled>>

StreamOps == {"connect", "reconnect", "write", "read"}

(* The deadline passes: the pending operation fails, the socket is closed. *)
Expire ==
  /\ pc \in StreamOps
  /\ pc' = "failed" /\ socket' = "closed"
  /\ UNCHANGED <<url, current_host, conn, goal, location, redirect, cancelled>>

(* cancel() finds the stream of the running announce. *)
cancel ==
  /\ cancelled = "no" /\ pc \notin {"done", "failed"}
  /\ cancelled' = "closing"
  /\ UNCHANGED <<url, pc, current_host, conn, goal, location, redirect, socket>>

(* The close on the strand: an operation of the stream is aborted by it,   *)
(* nothing else is. *)
CloseOnStrand ==
  /\ cancelled = "closing" /\ socket' = "closed"
  /\ cancelled' = IF pc \in {"done", "failed"} THEN "late" ELSE "closed"
  /\ pc' = IF pc \in StreamOps THEN "failed" ELSE pc
  /\ UNCHANGED <<url, current_host, conn, goal, location, redirect>>

Step ==
  \/ Resolve \/ Connect \/ Write \/ Read \/ Expire \/ RelativeRedirect
  \/ \E loc \in Authority : AbsoluteRedirect(loc)

Next == Step \/ cancel \/ CloseOnStrand

Spec == Init /\ [][Next]_vars

(* Resolver, stream operations with their deadline, and the strand run. *)
FairSpec == Spec /\ WF_vars(Step) /\ WF_vars(CloseOnStrand)

Over == pc \in {"done", "failed"}
=============================================================================
