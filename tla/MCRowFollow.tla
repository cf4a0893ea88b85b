---------------------------- MODULE MCRowFollow ----------------------------
(* RowFollow on small instances, and statements about it that need whole    *)
(* rows, NaN, or a single run.                                              *)
EXTENDS RowFollow

(* "The returned `delta` contains only the missing rows" (README.md:110)    *)
(* and leaves out none of their cells.  A row in which one cell is finite   *)
(* counts as written, and the cells measured later are never sent.          *)
HeldRowsAreComplete == FollowerIsExact

(* "clients can avoid downloading the rows they already hold"               *)
(* (README.md:92-93): following row by row ends with the whole measurement. *)
(* A preallocated grid without NaN reports every row from the start.        *)
FollowingEndsComplete == FollowerCatchesUp

(* "a client claiming rows this measurement does not have, which means its  *)
(* copy belongs to a different run" (server.py:309-311) is the only sign of *)
(* a different run: one that has at least as many rows as the client holds  *)
(* is sent as a continuation of the old one.                                *)
NeverMixesRuns == base = latest
=============================================================================
