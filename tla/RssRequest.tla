----------------------------- MODULE RssRequest -----------------------------
(***************************************************************************)
(* How a connection finds its source: RssRequest::discovery_app takes the  *)
(* tcUrl of the connect request apart, get_stream_url puts the key         *)
(* together, and RssSource::find looks it up in the pool, where it makes a *)
(* source on first use.                                                    *)
(*                                                                         *)
(* A text is a sequence of tokens: the delimiters the code searches for,   *)
(* and names, which contain none.                                          *)
(***************************************************************************)
EXTENDS Integers, Sequences, FiniteSets

CONSTANTS
  Clients,  \* connections
  Vhosts, Ports, Streams,  \* names
  Words,    \* the tokens of the path of an app, "/" and ":" among them
  Apps      \* the paths of apps

(* Names are tokens that are no delimiters.  A path may have delimiters,   *)
(* but no "://": without a schema it would be taken for one.               *)
ASSUME RequestAssumption ==
  /\ (Vhosts \cup Ports) \cap {"://", "/", ":"} = {}
  /\ Apps \subseteq Seq(Words)
  /\ "://" \notin Words

VARIABLES
  pool,    \* RssSource::pool, from keys to sources
  request, \* what each client asked for, as it wrote it, or Nobody
  source   \* the source each client was given, or 0

vars == <<pool, request, source>>

Nobody == [schema |-> "", vhost |-> "", port |-> "", app |-> <<>>, stream |-> ""]

-----------------------------------------------------------------------------
\* std::string::find: the first position of token x in url, or 0 for npos.
find(url, x) ==
  LET at == {i \in DOMAIN url : url[i] = x}
  IN IF at = {} THEN 0 ELSE CHOOSE i \in at : \A j \in at : i <= j

Before(url, i) == SubSeq(url, 1, i - 1)
After(url, i) == SubSeq(url, i + 1, Len(url))

\* The port looked for in what follows the host.
discovery_app_port_in_app(tcUrl) ==
  LET p == find(tcUrl, "://")
      schema == IF p = 0 THEN <<>> ELSE Before(tcUrl, p)
      rest == IF p = 0 THEN tcUrl ELSE After(tcUrl, p)
      q == find(rest, "/")
      host == IF q = 0 THEN <<>> ELSE Before(rest, q)
      app == IF q = 0 THEN rest ELSE After(rest, q)
  IN [ok |-> <<>> \notin {schema, host, app},
      schema |-> schema, vhost |-> host, port |-> <<"1935">>, app |-> app]

(* discovery_app: schema up to "://", host up to "/", port after ":" in    *)
(* the host, the rest is the app.                                          *)
discovery_app(tcUrl) ==
  LET p == find(tcUrl, "://")
      schema == IF p = 0 THEN <<>> ELSE Before(tcUrl, p)
      rest == IF p = 0 THEN tcUrl ELSE After(tcUrl, p)
      q == find(rest, "/")
      host == IF q = 0 THEN <<>> ELSE Before(rest, q)
      app == IF q = 0 THEN rest ELSE After(rest, q)
      r == find(host, ":")
      vhost == IF r = 0 THEN host ELSE Before(host, r)
      port == IF r = 0 THEN <<"1935">> ELSE After(host, r)
  IN [ok |-> <<>> \notin {schema, vhost, port, app},
      schema |-> schema, vhost |-> vhost, port |-> port, app |-> app]

\* The key with the port.
get_stream_url_port(d, stream) == d.port \o <<"/">> \o d.app \o <<"/", stream>>

(* get_stream_url: the virtual host is not part of it.                     *)
get_stream_url(d, stream) == <<"/">> \o d.app \o <<"/", stream>>

-----------------------------------------------------------------------------
(* The address of a request as a client writes it in tcUrl; the port may   *)
(* be left out, and so may parts that have to be there.                    *)
tcUrl(r) ==
  (IF r.schema = "" THEN <<>> ELSE <<r.schema, "://">>)
    \o (IF r.vhost = "" THEN <<>> ELSE <<r.vhost>>)
    \o (IF r.port = "" THEN <<>> ELSE <<":", r.port>>)
    \o <<"/">> \o r.app

Requests ==
  [schema : {"rtmp", ""}, vhost : Vhosts \cup {""}, port : Ports \cup {""},
   app : Apps, stream : Streams]

WellFormed(r) == r.schema # "" /\ r.vhost # "" /\ r.app # <<>>

Init ==
  /\ pool = [k \in {} |-> 0]
  /\ request = [c \in Clients |-> Nobody]
  /\ source = [c \in Clients |-> 0]

\* A source made anew for every connection.
find_source_anew(key) ==
  [k \in DOMAIN pool \cup {key} |->
     IF k = key THEN Cardinality(DOMAIN pool) + 1 ELSE pool[k]]

(* RssSource::find: the pool afterwards.                                   *)
find_source(key) ==
  [k \in DOMAIN pool \cup {key} |->
     IF k \in DOMAIN pool THEN pool[k] ELSE Cardinality(DOMAIN pool) + 1]

(* A session gets to the point where it looks up its source, unless        *)
(* connect_app has refused the address.                                    *)
connect(c, r) ==
  LET d == discovery_app(tcUrl(r))
      key == get_stream_url(d, r.stream)
  IN /\ request[c] = Nobody
     /\ request' = [request EXCEPT ![c] = r]
     /\ IF d.ok THEN /\ pool' = find_source(key)
                     /\ source' = [source EXCEPT ![c] = pool'[key]]
                ELSE UNCHANGED <<pool, source>>

(* The connection ends; sources stay in the pool.                          *)
disconnect(c) ==
  /\ request[c] # Nobody
  /\ request' = [request EXCEPT ![c] = Nobody]
  /\ source' = [source EXCEPT ![c] = 0]
  /\ UNCHANGED pool

Next == \E c \in Clients : (\E r \in Requests : connect(c, r)) \/ disconnect(c)

Spec == Init /\ [][Next]_vars

-----------------------------------------------------------------------------
(* Type correctness; every source has a key of its own.                    *)
TypeOK ==
  /\ \A k, l \in DOMAIN pool : pool[k] = pool[l] => k = l
  /\ \A c \in Clients : source[c] \in 0 .. Cardinality(DOMAIN pool)

(* What makes these invariants inductive: the sources are numbered in the  *)
(* order of their making, and a client has the one at its key.             *)
Key(r) == <<"/">> \o r.app \o <<"/", r.stream>>

PoolNumbered ==
  /\ IsFiniteSet(DOMAIN pool)
  /\ \A k \in DOMAIN pool : pool[k] \in 1 .. Cardinality(DOMAIN pool)
  /\ \A k, l \in DOMAIN pool : pool[k] = pool[l] => k = l

SourceAtKey ==
  \A c \in Clients :
    IF WellFormed(request[c])
      THEN Key(request[c]) \in DOMAIN pool /\ source[c] = pool[Key(request[c])]
      ELSE source[c] = 0

RInv ==
  /\ request \in [Clients -> Requests \cup {Nobody}]
  /\ DOMAIN source = Clients
  /\ PoolNumbered
  /\ SourceAtKey

(* Exactly the well-formed addresses are accepted, and each is taken apart *)
(* the way it was written, with or without a port.                         *)
AddressRead ==
  \A c \in Clients :
    LET r == request[c]
        d == discovery_app(tcUrl(r))
    IN r # Nobody =>
         /\ d.ok <=> WellFormed(r)
         /\ source[c] # 0 <=> d.ok
         /\ d.ok => /\ d.vhost = <<r.vhost>> /\ d.app = r.app
                    /\ d.port = <<IF r.port = "" THEN "1935" ELSE r.port>>

(* Clients that name the same host, app and stream meet at one source,     *)
(* whatever port they name, whoever comes first and whoever has left.      *)
SameStreamMeets ==
  \A b, c \in Clients :
    /\ source[b] # 0 /\ source[c] # 0
    /\ request[b].vhost = request[c].vhost
    /\ request[b].app = request[c].app
    /\ request[b].stream = request[c].stream
    => source[b] = source[c]
=============================================================================
