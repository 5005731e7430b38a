----------------------------- MODULE Broadcast -----------------------------
(***************************************************************************)
(* What a live stream promises to its viewers, without queues, batches,    *)
(* caches or reference counts.  There is one log of messages.  A viewer    *)
(* that joins is owed a catch-up computed from the log (the latest         *)
(* metadata, the first video message, the first audio message), then every *)
(* message logged while it is a member, each once and in the order of the  *)
(* log.  A viewer may leave at any moment, and is then owed nothing more.  *)
(***************************************************************************)
EXTENDS Integers, Sequences

CONSTANTS Viewers, Messages

VARIABLES
  log,        \* the messages of the stream, in the order they were published
  members,    \* the viewers that are watching
  feed,       \* feed[v]: the positions of the log owed to v, delivered or not
  delivered   \* delivered[v]: the prefix of feed[v] that has reached v

vars == <<log, members, feed, delivered>>

OfKind(l, k) == {i \in 1 .. Len(l) : l[i].kind = k}

\* The first and the last message of a kind, as a sequence of length 0 or 1.
First(l, k) ==
  IF OfKind(l, k) = {} THEN <<>>
  ELSE <<CHOOSE i \in OfKind(l, k) : \A j \in OfKind(l, k) : i <= j>>

Latest(l, k) ==
  IF OfKind(l, k) = {} THEN <<>>
  ELSE <<CHOOSE i \in OfKind(l, k) : \A j \in OfKind(l, k) : j <= i>>

CatchUp(l) == Latest(l, "metadata") \o First(l, "video") \o First(l, "audio")

Init ==
  /\ log = <<>>
  /\ members = {}
  /\ feed = [v \in Viewers |-> <<>>]
  /\ delivered = [v \in Viewers |-> <<>>]

Publish(m) ==
  /\ log' = Append(log, m)
  /\ feed' = [v \in Viewers |-> IF v \in members
                                  THEN Append(feed[v], Len(log) + 1)
                                  ELSE feed[v]]
  /\ UNCHANGED <<members, delivered>>

Join(v) ==
  /\ v \notin members /\ delivered[v] = <<>>
  /\ members' = members \cup {v}
  /\ feed' = [feed EXCEPT ![v] = CatchUp(log)]
  /\ UNCHANGED <<log, delivered>>

Deliver(v) ==
  /\ v \in members
  /\ Len(delivered[v]) < Len(feed[v])
  /\ delivered' = [delivered EXCEPT
                     ![v] = Append(@, feed[v][Len(delivered[v]) + 1])]
  /\ UNCHANGED <<log, members, feed>>

Leave(v) ==
  /\ v \in members
  /\ members' = members \ {v}
  /\ feed' = [feed EXCEPT ![v] = delivered[v]]
  /\ UNCHANGED <<log, delivered>>

Next ==
  \/ \E m \in Messages : Publish(m)
  \/ \E v \in Viewers : Join(v) \/ Deliver(v) \/ Leave(v)

Spec == Init /\ [][Next]_vars
=============================================================================
