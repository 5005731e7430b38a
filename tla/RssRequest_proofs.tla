-------------------------- MODULE RssRequest_proofs --------------------------
(***************************************************************************)
(* For any names and any number of clients: an address is accepted exactly *)
(* when it is well formed, it is taken apart as it was written, and the    *)
(* clients of one stream are given one source.                             *)
(***************************************************************************)
EXTENDS RssRequest, SequenceTheorems, FiniteSetTheorems, TLAPS

-----------------------------------------------------------------------------
(* Searching a text.                                                       *)

LEMMA One ==
  ASSUME NEW T, NEW x \in T
  PROVE  <<x>> \in Seq(T) /\ \A i \in DOMAIN <<x>> : <<x>>[i] = x
OBVIOUS

LEMMA Two ==
  ASSUME NEW T, NEW x \in T, NEW y \in T
  PROVE  /\ <<x, y>> \in Seq(T)
         /\ \A i \in DOMAIN <<x, y>> : <<x, y>>[i] = x \/ <<x, y>>[i] = y
         /\ <<x, y>> = <<x>> \o <<y>>
<1> DEFINE s == <<x, y>>
           t == <<x>> \o <<y>>
<1>1. s \in Seq(T) /\ Len(s) = 2 /\ s[1] = x /\ s[2] = y
  OBVIOUS
<1>2. t \in Seq(T) /\ Len(t) = 2 /\ t[1] = x /\ t[2] = y
  OBVIOUS
<1>3. \A i \in DOMAIN s : s[i] = x \/ s[i] = y
  OBVIOUS
<1> HIDE DEF s, t
<1>4. s = t
  BY <1>1, <1>2, SeqEqual
<1> QED BY <1>1, <1>3, <1>4 DEF s, t

LEMMA FindNone ==
  ASSUME NEW T, NEW u \in Seq(T), NEW x, \A i \in DOMAIN u : u[i] # x
  PROVE  find(u, x) = 0
BY DEF find

(* A text that is u, x and v, with no x in u, is cut at x into u and v.    *)
CutAt(w, x, u, v) ==
  /\ find(w, x) # 0
  /\ Before(w, find(w, x)) = u
  /\ After(w, find(w, x)) = v

LEMMA FindFirst ==
  ASSUME NEW T, NEW u \in Seq(T), NEW v \in Seq(T), NEW x \in T,
         \A i \in DOMAIN u : u[i] # x,
         NEW w, w = u \o <<x>> \o v
  PROVE  CutAt(w, x, u, v)
<1> DEFINE n == Len(u)
           at == {i \in DOMAIN w : w[i] = x}
<1>1. w \in Seq(T) /\ n \in Nat /\ Len(v) \in Nat /\ DOMAIN u = 1 .. n
  OBVIOUS
<1>2. DOMAIN w = 1 .. Len(w) /\ Len(w) = n + 1 + Len(v)
  OBVIOUS
<1>3. (\A i \in 1 .. n : w[i] = u[i]) /\ w[n + 1] = x
  OBVIOUS
<1>4. SubSeq(w, 1, n) = u /\ SubSeq(w, n + 2, Len(w)) = v
  OBVIOUS
<1> HIDE DEF n
<1>5. n + 1 \in at
  BY <1>1, <1>2, <1>3
<1>6. \A i \in at : n + 1 <= i /\ i \in Int
  BY <1>1, <1>2, <1>3
<1> HIDE DEF at
<1>7. (CHOOSE i \in at : \A j \in at : i <= j) = n + 1
  <2>1. \A i \in at : (\A j \in at : i <= j) => i = n + 1
    BY <1>1, <1>5, <1>6
  <2>2. \A j \in at : n + 1 <= j
    BY <1>6
  <2> QED BY <1>5, <2>1, <2>2
<1>8. find(w, x) = n + 1
  BY <1>5, <1>7 DEF find, at
<1>9. Before(w, n + 1) = SubSeq(w, 1, n) /\ After(w, n + 1) = SubSeq(w, n + 2, Len(w))
  <2>1. (n + 1) - 1 = n /\ (n + 1) + 1 = n + 2
    BY <1>1
  <2> QED BY <2>1 DEF Before, After
<1>10. n + 1 # 0
  BY <1>1
<1> QED BY <1>4, <1>8, <1>9, <1>10, Zenon DEF n, CutAt

-----------------------------------------------------------------------------
(* Taking an address apart.                                                *)

Tokens == Vhosts \cup Ports \cup Streams \cup Words \cup {"", "rtmp", "://", "/", ":"}

VhostIn(r) == IF r.vhost = "" THEN <<>> ELSE <<r.vhost>>

PortIn(r) == IF r.port = "" THEN <<>> ELSE <<":", r.port>>

Host(r) == VhostIn(r) \o PortIn(r)

Rest(r) == Host(r) \o <<"/">> \o r.app

LEMMA RequestTypes ==
  ASSUME NEW r \in Requests
  PROVE  /\ r.schema \in {"rtmp", ""}
         /\ r.vhost \in Tokens /\ r.vhost \notin {"://", "/", ":"}
         /\ r.port \in Tokens /\ r.port \notin {"://", "/", ":"}
         /\ r.app \in Seq(Tokens) /\ \A i \in DOMAIN r.app : r.app[i] # "://"
         /\ r.stream \in Tokens
<1>1. /\ r.schema \in {"rtmp", ""} /\ r.vhost \in Vhosts \cup {""} /\ r.port \in Ports \cup {""}
      /\ r.app \in Apps /\ r.stream \in Streams
  BY DEF Requests
<1>2. r.app \in Seq(Words) /\ Words \subseteq Tokens
  BY <1>1, RequestAssumption DEF Tokens
<1>3. r.app \in Seq(Tokens)
  BY <1>2
<1>4. \A i \in DOMAIN r.app : r.app[i] # "://"
  BY <1>2, RequestAssumption
<1> QED BY <1>1, <1>3, <1>4, RequestAssumption DEF Tokens

LEMMA HostIs ==
  ASSUME NEW r \in Requests
  PROVE  /\ VhostIn(r) \in Seq(Tokens) /\ \A i \in DOMAIN VhostIn(r) : VhostIn(r)[i] \notin {"://", "/", ":"}
         /\ PortIn(r) \in Seq(Tokens) /\ \A i \in DOMAIN PortIn(r) : PortIn(r)[i] \notin {"://", "/"}
         /\ Host(r) \in Seq(Tokens) /\ \A i \in DOMAIN Host(r) : Host(r)[i] \notin {"://", "/"}
<1>0. "/" \in Tokens /\ ":" \in Tokens
  BY DEF Tokens
<1>1. VhostIn(r) \in Seq(Tokens) /\ \A i \in DOMAIN VhostIn(r) : VhostIn(r)[i] \notin {"://", "/", ":"}
  <2>1. CASE r.vhost = ""
    <3>1. VhostIn(r) = <<>>
      BY <2>1 DEF VhostIn
    <3> QED BY <3>1
  <2>2. CASE r.vhost # ""
    <3>1. VhostIn(r) = <<r.vhost>>
      BY <2>2 DEF VhostIn
    <3>2. r.vhost \in Tokens /\ r.vhost \notin {"://", "/", ":"}
      BY RequestTypes
    <3>3. <<r.vhost>> \in Seq(Tokens) /\ \A i \in DOMAIN <<r.vhost>> : <<r.vhost>>[i] = r.vhost
      BY <3>2, One, Zenon
    <3> QED BY <3>1, <3>2, <3>3, Zenon
  <2> QED BY <2>1, <2>2
<1>2. PortIn(r) \in Seq(Tokens) /\ \A i \in DOMAIN PortIn(r) : PortIn(r)[i] \notin {"://", "/"}
  <2>1. CASE r.port = ""
    <3>1. PortIn(r) = <<>>
      BY <2>1 DEF PortIn
    <3> QED BY <3>1
  <2>2. CASE r.port # ""
    <3>1. PortIn(r) = <<":", r.port>>
      BY <2>2 DEF PortIn
    <3>2. r.port \in Tokens /\ r.port \notin {"://", "/"}
      BY RequestTypes
    <3>3. /\ <<":", r.port>> \in Seq(Tokens)
          /\ \A i \in DOMAIN <<":", r.port>> :
               <<":", r.port>>[i] = ":" \/ <<":", r.port>>[i] = r.port
      BY <1>0, <3>2, Two
    <3> QED BY <3>1, <3>2, <3>3, Zenon
  <2> QED BY <2>1, <2>2
<1>3. Host(r) \in Seq(Tokens) /\ \A i \in DOMAIN Host(r) : Host(r)[i] \notin {"://", "/"}
  BY <1>1, <1>2 DEF Host
<1> QED BY <1>1, <1>2, <1>3

LEMMA RestIs ==
  ASSUME NEW r \in Requests
  PROVE  Rest(r) \in Seq(Tokens) /\ \A i \in DOMAIN Rest(r) : Rest(r)[i] # "://"
<1> DEFINE h == Host(r)
           a == r.app
<1>1. h \in Seq(Tokens) /\ \A i \in DOMAIN h : h[i] # "://"
  BY HostIs
<1>2. a \in Seq(Tokens) /\ \A i \in DOMAIN a : a[i] # "://"
  BY RequestTypes
<1>3. "/" \in Tokens /\ "/" # "://" /\ Rest(r) = h \o <<"/">> \o a
  BY DEF Tokens, Rest
<1> HIDE DEF h, a
<1> QED BY <1>1, <1>2, <1>3

LEMMA UrlIs ==
  ASSUME NEW r \in Requests
  PROVE  /\ r.schema = "" => tcUrl(r) = Rest(r)
         /\ r.schema # "" => tcUrl(r) = <<r.schema>> \o <<"://">> \o Rest(r)
<1> DEFINE v == VhostIn(r)
           p == PortIn(r)
           a == r.app
           z == <<"/">>
           x == <<r.schema>>
           y == <<"://">>
<1>1. tcUrl(r) = (IF r.schema = "" THEN <<>> ELSE <<r.schema, "://">>) \o v \o p \o z \o a
  BY DEF tcUrl, VhostIn, PortIn
<1>2. Rest(r) = (v \o p) \o z \o a
  BY DEF Rest, Host
<1>3. v \in Seq(Tokens) /\ p \in Seq(Tokens) /\ a \in Seq(Tokens)
  BY RequestTypes, HostIs
<1>4. "/" \in Tokens /\ "://" \in Tokens /\ r.schema \in Tokens
  BY RequestTypes DEF Tokens
<1>5. z \in Seq(Tokens) /\ x \in Seq(Tokens) /\ y \in Seq(Tokens) /\ <<r.schema, "://">> = x \o y
  BY <1>4, One, Two
<1> HIDE DEF v, p, a, x, y, z
<1>6. /\ <<>> \o v \o p \o z \o a = (v \o p) \o z \o a
      /\ (x \o y) \o v \o p \o z \o a = x \o y \o ((v \o p) \o z \o a)
  <2> DEFINE xy == x \o y
             vp == v \o p
             vpz == vp \o z
  <2>1. xy \in Seq(Tokens) /\ vp \in Seq(Tokens) /\ <<>> \o v = v
    BY <1>3, <1>5
  <2> HIDE DEF xy
  <2>2. xy \o v \o p = xy \o vp
    BY <1>3, <2>1
  <2> HIDE DEF vp
  <2>3. vpz \in Seq(Tokens) /\ xy \o vp \o z = xy \o vpz
    BY <1>5, <2>1
  <2> HIDE DEF vpz
  <2>4. xy \o vpz \o a = xy \o (vpz \o a)
    <3>1. xy \in Seq(Tokens)
      BY <2>1
    <3>2. vpz \in Seq(Tokens)
      BY <2>3
    <3>3. a \in Seq(Tokens)
      BY <1>3
    <3> QED BY <3>1, <3>2, <3>3
  <2> QED BY <2>1, <2>2, <2>3, <2>4, Zenon DEF xy, vp, vpz
<1> QED BY <1>1, <1>2, <1>5, <1>6 DEF x, y

(* The schema, the host and the path are found where they were written.    *)
LEMMA Parts ==
  ASSUME NEW r \in Requests, r.schema # ""
  PROVE  /\ CutAt(tcUrl(r), "://", <<r.schema>>, Rest(r))
         /\ CutAt(Rest(r), "/", Host(r), r.app)
<1> DEFINE s == <<r.schema>>
           t == Rest(r)
           h == Host(r)
           a == r.app
<1>1. "/" \in Tokens /\ "://" \in Tokens /\ r.schema \in Tokens /\ r.schema # "://"
  BY RequestTypes DEF Tokens
<1>2. s \in Seq(Tokens) /\ \A i \in DOMAIN s : s[i] # "://"
  BY <1>1, One
<1>3. t \in Seq(Tokens) /\ tcUrl(r) = s \o <<"://">> \o t
  BY RestIs, UrlIs, Zenon
<1>4. h \in Seq(Tokens) /\ a \in Seq(Tokens) /\ (\A i \in DOMAIN h : h[i] # "/")
  BY HostIs, RequestTypes, Zenon
<1>5. t = h \o <<"/">> \o a
  BY DEF Rest
<1> HIDE DEF s, t, h, a
<1>6. CutAt(tcUrl(r), "://", s, t)
  BY <1>1, <1>2, <1>3, FindFirst, Zenon
<1>7. CutAt(t, "/", h, a)
  BY <1>1, <1>4, <1>5, FindFirst, Zenon
<1> QED BY <1>6, <1>7 DEF s, t, h, a

(* And so are the virtual host and the port.                               *)
LEMMA HostParts ==
  ASSUME NEW r \in Requests
  PROVE  LET h == Host(r)
             c == find(h, ":")
         IN  /\ (IF c = 0 THEN h ELSE Before(h, c)) = VhostIn(r)
             /\ (IF c = 0 THEN <<"1935">> ELSE After(h, c)) = <<IF r.port = "" THEN "1935" ELSE r.port>>
<1> DEFINE v == VhostIn(r)
           p == <<r.port>>
<1>1. ":" \in Tokens /\ r.port \in Tokens
  BY RequestTypes DEF Tokens
<1>2. v \in Seq(Tokens) /\ \A i \in DOMAIN v : v[i] # ":"
  BY HostIs
<1>3. CASE r.port = ""
  <2>1. Host(r) = v
    <3>1. Host(r) = v \o <<>>
      BY <1>3 DEF Host, PortIn
    <3> HIDE DEF v
    <3> QED BY <1>2, <3>1
  <2>2. find(Host(r), ":") = 0
    BY <1>2, <2>1, FindNone
  <2> QED BY <1>3, <2>1, <2>2
<1>4. CASE r.port # ""
  <2>1. PortIn(r) = <<":">> \o p
    BY <1>1, <1>4, Two DEF PortIn
  <2>2. <<":">> \in Seq(Tokens) /\ p \in Seq(Tokens)
    BY <1>1, One
  <2>3. Host(r) = v \o PortIn(r)
    BY DEF Host
  <2> HIDE DEF v, p
  <2>4. Host(r) = v \o <<":">> \o p
    BY <1>2, <2>1, <2>2, <2>3, ConcatAssociative
  <2>5. CutAt(Host(r), ":", v, p)
    BY <1>1, <1>2, <2>2, <2>4, FindFirst, Zenon
  <2> QED BY <1>4, <2>5 DEF CutAt, v, p
<1> QED BY <1>3, <1>4

(* discovery_app accepts a request exactly when it is well formed, and     *)
(* then finds what the client wrote.                                       *)
LEMMA Discovered ==
  ASSUME NEW r \in Requests
  PROVE  LET d == discovery_app(tcUrl(r))
         IN  /\ d.ok <=> WellFormed(r)
             /\ d.ok => /\ d.vhost = <<r.vhost>> /\ d.app = r.app
                        /\ d.port = <<IF r.port = "" THEN "1935" ELSE r.port>>
<1> DEFINE u == tcUrl(r)
           p == find(u, "://")
           schema == IF p = 0 THEN <<>> ELSE Before(u, p)
           rest == IF p = 0 THEN u ELSE After(u, p)
           q == find(rest, "/")
           host == IF q = 0 THEN <<>> ELSE Before(rest, q)
           app == IF q = 0 THEN rest ELSE After(rest, q)
           c == find(host, ":")
           vhost == IF c = 0 THEN host ELSE Before(host, c)
           port == IF c = 0 THEN <<"1935">> ELSE After(host, c)
           d == discovery_app(u)
<1>1. d = [ok |-> <<>> \notin {schema, vhost, port, app},
           schema |-> schema, vhost |-> vhost, port |-> port, app |-> app]
  BY DEF discovery_app
<1>1a. /\ d.ok <=> schema # <<>> /\ vhost # <<>> /\ port # <<>> /\ app # <<>>
       /\ d.vhost = vhost /\ d.port = port /\ d.app = app
  <2> HIDE DEF d, schema, vhost, port, app
  <2> QED BY <1>1, Zenon
<1>2. CASE r.schema = ""
  <2>1. p = 0
    BY <1>2, UrlIs, RestIs, FindNone
  <2>2. schema = <<>>
    BY <2>1
  <2> HIDE DEF schema, vhost, port, app
  <2>3. ~ d.ok
    BY <1>1a, <2>2
  <2> QED BY <1>2, <2>3 DEF WellFormed
<1>3. CASE r.schema # ""
  <2>1. schema = <<r.schema>> /\ rest = Rest(r)
    BY <1>3, Parts DEF CutAt
  <2> HIDE DEF schema, rest
  <2>2. host = Host(r) /\ app = r.app
    BY <1>3, <2>1, Parts DEF CutAt
  <2> HIDE DEF host, app
  <2>3. vhost = VhostIn(r) /\ port = <<IF r.port = "" THEN "1935" ELSE r.port>>
    BY <2>2, HostParts
  <2> HIDE DEF vhost, port
  <2> HIDE DEF d
  <2>4. schema # <<>> /\ port # <<>>
    BY <2>1, <2>3
  <2>5. vhost = <<>> <=> r.vhost = ""
    BY <2>3 DEF VhostIn
  <2>6. d.ok <=> r.vhost # "" /\ r.app # <<>>
    BY <1>1a, <2>2, <2>4, <2>5
  <2>7. r.vhost # "" => d.vhost = <<r.vhost>>
    BY <1>1a, <2>3 DEF VhostIn
  <2>8. d.app = r.app /\ d.port = <<IF r.port = "" THEN "1935" ELSE r.port>>
    BY <1>1a, <2>2, <2>3
  <2>9. /\ d.ok <=> WellFormed(r)
        /\ d.ok => /\ d.vhost = <<r.vhost>> /\ d.app = r.app
                   /\ d.port = <<IF r.port = "" THEN "1935" ELSE r.port>>
    BY <1>3, <2>6, <2>7, <2>8 DEF WellFormed
  <2> QED BY <2>9 DEF d
<1> QED BY <1>2, <1>3

-----------------------------------------------------------------------------
(* The pool.                                                               *)

LEMMA PoolGrows ==
  ASSUME PoolNumbered, NEW key, pool' = find_source(key)
  PROVE  /\ PoolNumbered'
         /\ key \in DOMAIN pool'
         /\ \A k \in DOMAIN pool : k \in DOMAIN pool' /\ pool'[k] = pool[k]
<1> DEFINE n == Cardinality(DOMAIN pool)
<1>1. /\ DOMAIN pool' = DOMAIN pool \cup {key}
      /\ \A k \in DOMAIN pool : pool'[k] = pool[k]
      /\ key \notin DOMAIN pool => pool'[key] = n + 1
  BY DEF find_source
<1>2. IsFiniteSet(DOMAIN pool) /\ n \in Nat
  BY FS_CardinalityType DEF PoolNumbered
<1>3. /\ IsFiniteSet(DOMAIN pool')
      /\ Cardinality(DOMAIN pool') = IF key \in DOMAIN pool THEN n ELSE n + 1
  BY <1>1, <1>2, FS_AddElement
<1>4. \A k \in DOMAIN pool : pool[k] \in 1 .. n
  BY DEF PoolNumbered
<1>5. \A k, l \in DOMAIN pool : pool[k] = pool[l] => k = l
  BY DEF PoolNumbered
<1> HIDE DEF n
<1>6. \A k \in DOMAIN pool' : pool'[k] \in 1 .. Cardinality(DOMAIN pool')
  BY <1>1, <1>2, <1>3, <1>4
<1>7. \A k, l \in DOMAIN pool' : pool'[k] = pool'[l] => k = l
  <2>1. \A k \in DOMAIN pool : key \notin DOMAIN pool => pool'[k] # pool'[key]
    BY <1>1, <1>2, <1>4
  <2> QED BY <1>1, <1>5, <2>1
<1> QED BY <1>1, <1>3, <1>6, <1>7 DEF PoolNumbered

LEMMA InitRequest == Init => RInv
<1> SUFFICES ASSUME Init PROVE RInv
  OBVIOUS
<1>1. DOMAIN pool = {} /\ IsFiniteSet(DOMAIN pool)
  BY FS_EmptySet DEF Init
<1>2. PoolNumbered
  BY <1>1 DEF PoolNumbered
<1>3. SourceAtKey
  BY DEF Init, SourceAtKey, WellFormed, Nobody
<1> QED BY <1>2, <1>3 DEF Init, RInv

LEMMA ConnectStep ==
  ASSUME RInv, NEW c \in Clients, NEW r \in Requests, connect(c, r)
  PROVE  RInv'
<1> DEFINE d == discovery_app(tcUrl(r))
           key == get_stream_url(d, r.stream)
<1>1. /\ request[c] = Nobody
      /\ request' = [request EXCEPT ![c] = r]
      /\ IF d.ok THEN pool' = find_source(key) /\ source' = [source EXCEPT ![c] = pool'[key]]
                 ELSE UNCHANGED <<pool, source>>
  BY DEF connect
<1>2. (d.ok <=> WellFormed(r)) /\ (d.ok => d.app = r.app)
  BY Discovered
<1>3. d.ok => key = Key(r)
  BY <1>2 DEF get_stream_url, Key
<1> HIDE DEF d, key
<1>4. /\ request' \in [Clients -> Requests \cup {Nobody}]
      /\ request'[c] = r
      /\ \A b \in Clients \ {c} : request'[b] = request[b]
  BY <1>1 DEF RInv
<1>5. source[c] = 0 /\ PoolNumbered
  <2>1. ~ WellFormed(request[c])
    <3>1. request[c] = Nobody /\ Nobody.schema = ""
      BY <1>1 DEF Nobody
    <3> QED BY <3>1, Zenon DEF WellFormed
  <2> QED BY <2>1 DEF RInv, SourceAtKey
<1>6. CASE d.ok
  <2>1. pool' = find_source(key) /\ source' = [source EXCEPT ![c] = pool'[key]]
    BY <1>1, <1>6
  <2>2. /\ PoolNumbered'
        /\ key \in DOMAIN pool'
        /\ \A k \in DOMAIN pool : k \in DOMAIN pool' /\ pool'[k] = pool[k]
    BY <1>5, <2>1, PoolGrows
  <2>3. /\ DOMAIN source' = Clients /\ source'[c] = pool'[key]
        /\ \A b \in Clients \ {c} : source'[b] = source[b]
    BY <2>1 DEF RInv
  <2>4. SourceAtKey'
    <3> SUFFICES ASSUME NEW b \in Clients
                 PROVE  IF WellFormed(request'[b])
                          THEN Key(request'[b]) \in DOMAIN pool' /\ source'[b] = pool'[Key(request'[b])]
                          ELSE source'[b] = 0
      BY DEF SourceAtKey, WellFormed, Key
    <3>1. CASE b = c
      BY <1>2, <1>3, <1>4, <1>6, <2>2, <2>3, <3>1
    <3>2. CASE b # c
      BY <1>4, <2>2, <2>3, <3>2 DEF RInv, SourceAtKey
    <3> QED BY <3>1, <3>2
  <2> QED BY <1>4, <2>2, <2>3, <2>4 DEF RInv
<1>7. CASE ~ d.ok
  <2>1. UNCHANGED <<pool, source>> /\ ~ WellFormed(r)
    BY <1>1, <1>2, <1>7
  <2>2. PoolNumbered'
    BY <1>5, <2>1 DEF PoolNumbered
  <2>3. SourceAtKey'
    <3> SUFFICES ASSUME NEW b \in Clients
                 PROVE  IF WellFormed(request'[b])
                          THEN Key(request'[b]) \in DOMAIN pool' /\ source'[b] = pool'[Key(request'[b])]
                          ELSE source'[b] = 0
      BY DEF SourceAtKey, WellFormed, Key
    <3>1. CASE b = c
      BY <1>4, <1>5, <2>1, <3>1
    <3>2. CASE b # c
      BY <1>4, <2>1, <3>2 DEF RInv, SourceAtKey
    <3> QED BY <3>1, <3>2
  <2> QED BY <1>4, <2>1, <2>2, <2>3 DEF RInv
<1> QED BY <1>6, <1>7

LEMMA RequestStep == RInv /\ [Next]_vars => RInv'
<1> SUFFICES ASSUME RInv, [Next]_vars PROVE RInv'
  OBVIOUS
<1>1. ASSUME NEW c \in Clients, disconnect(c) PROVE RInv'
  BY <1>1 DEF disconnect, RInv, PoolNumbered, SourceAtKey, WellFormed, Nobody, Key
<1>2. CASE UNCHANGED vars
  BY <1>2 DEF vars, RInv, PoolNumbered, SourceAtKey, WellFormed, Key
<1> QED BY <1>1, <1>2, ConnectStep DEF Next

LEMMA RequestInductive == Spec => []RInv
BY InitRequest, RequestStep, PTL DEF Spec

(* Two keys never share a source, and a client's source is one of the      *)
(* pool's, however many streams have been made (rss_core_source.cpp:10).   *)
THEOREM TypeCorrect == Spec => []TypeOK
<1>1. RInv => TypeOK
  <2> SUFFICES ASSUME RInv PROVE TypeOK
    OBVIOUS
  <2>1. Cardinality(DOMAIN pool) \in Nat
    BY FS_CardinalityType DEF RInv, PoolNumbered
  <2> QED BY <2>1 DEF RInv, PoolNumbered, SourceAtKey, TypeOK
<1> QED BY <1>1, RequestInductive, PTL

(* Whatever the names and the path, with a port or without: an address is  *)
(* accepted exactly when it has its schema, host and app, and it is taken  *)
(* apart the way it was written (rss_core_rtmp.cpp:51).                    *)
THEOREM AddressesAreRead == Spec => []AddressRead
<1>1. RInv => AddressRead
  <2> SUFFICES ASSUME RInv, NEW c \in Clients, request[c] # Nobody
               PROVE  LET r == request[c]
                          d == discovery_app(tcUrl(r))
                      IN  /\ d.ok <=> WellFormed(r)
                          /\ source[c] # 0 <=> d.ok
                          /\ d.ok => /\ d.vhost = <<r.vhost>> /\ d.app = r.app
                                     /\ d.port = <<IF r.port = "" THEN "1935" ELSE r.port>>
    BY DEF AddressRead
  <2>1. request[c] \in Requests
    BY DEF RInv
  <2>2. WellFormed(request[c]) <=> source[c] # 0
    BY DEF RInv, SourceAtKey, PoolNumbered
  <2> QED BY <2>1, <2>2, Discovered
<1> QED BY <1>1, RequestInductive, PTL

(* All who name one app and stream, now or later, are given one source     *)
(* (rss_core_client.cpp:104, rss_core_source.cpp:10).                      *)
THEOREM StreamsMeet == Spec => []SameStreamMeets
<1>1. RInv => SameStreamMeets
  <2> SUFFICES ASSUME RInv, NEW b \in Clients, NEW c \in Clients,
                      source[b] # 0, source[c] # 0,
                      request[b].app = request[c].app,
                      request[b].stream = request[c].stream
               PROVE  source[b] = source[c]
    BY DEF SameStreamMeets
  <2>1. Key(request[b]) = Key(request[c])
    BY DEF Key
  <2> QED BY <2>1 DEF RInv, SourceAtKey
<1> QED BY <1>1, RequestInductive, PTL
=============================================================================
