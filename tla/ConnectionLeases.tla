--------------------------- MODULE ConnectionLeases ---------------------------
(***************************************************************************)
(* What the connection registry promises its users, without threads, locks *)
(* or workers: a job is a lease on one open connection, granted once and   *)
(* ended once; leases of generation jobs never share an endpoint; and a    *)
(* connection is only closed while nobody leases it.                       *)
(***************************************************************************)
CONSTANTS Conns, Jobs, Endpoints, Target

VARIABLES
  conn,     (* "new", "live" or "closed"                                   *)
  unused,   (* job identifiers never granted                               *)
  held      (* the leases in force                                         *)

leaseVars == <<conn, unused, held>>

Lease == [job : Jobs, conn : Conns, writer : BOOLEAN]

Init ==
  /\ conn = [c \in Conns |-> "new"]
  /\ unused = Jobs
  /\ held = {}

Open(c) ==
  /\ conn[c] = "new"
  /\ conn' = [conn EXCEPT ![c] = "live"]
  /\ UNCHANGED <<unused, held>>

Close(c) ==
  /\ conn[c] = "live"
  /\ \A l \in held : l.conn # c
  /\ conn' = [conn EXCEPT ![c] = "closed"]
  /\ UNCHANGED <<unused, held>>

Grant(j, c, w) ==
  /\ j \in unused
  /\ conn[c] = "live"
  /\ \A l \in held :
       /\ l.conn # c
       /\ w /\ l.writer => Target[l.conn] \cap Target[c] = {}
  /\ unused' = unused \ {j}
  /\ held' = held \cup {[job |-> j, conn |-> c, writer |-> w]}
  /\ UNCHANGED conn

End(l) ==
  /\ held' = held \ {l}
  /\ UNCHANGED <<conn, unused>>

Next ==
  \/ \E c \in Conns : Open(c) \/ Close(c)
  \/ \E j \in Jobs, c \in Conns, w \in BOOLEAN : Grant(j, c, w)
  \/ \E l \in held : End(l)

Spec == Init /\ [][Next]_leaseVars
=============================================================================
