---------------------------- MODULE PresenceProofs ----------------------------
(***************************************************************************)
(* The presence properties for any number of connections, client ids,  *)
(* assets and advisories.  The callbacks of Presence are callbacks of      *)
(* PluginRuntime, so the invariants of its session map carry over.         *)
(***************************************************************************)
EXTENDS Presence, PluginRuntimeProofs, SequenceTheorems, FiniteSetTheorems

Advisories == [kind : {"connect", "disconnect"}, asset : Assets]

\* The newest advisory about a is of kind k.
LastIs(a, k) == \E n \in About(a) : said[n].kind = k /\ \A m \in About(a) : m <= n

\* One of a's connections has a session for its disconnect to find.
Held(a) == \E c \in Conns : /\ Device(c) /\ conns[c].who.asset = a
                            /\ \/ sessions[conns[c].id] = conns[c].who
                               \/ kick = c /\ sessions[conns[c].id] # None

\* A connected asset has been announced; its newest advisory is a disconnect
\* only if it is eclipsed, and a connect only if it is orphaned or still held.
SpokenInv == \A a \in Assets : About(a) # {} => \E k \in {"connect", "disconnect"} : LastIs(a, k)
AnnouncedInv == \A c \in Conns : Device(c) => About(conns[c].who.asset) # {}
GoneInv == \A a \in Assets : LastIs(a, "disconnect") => a \in eclipsed
HereInv == \A a \in Assets : LastIs(a, "connect") => a \in orphaned \/ Held(a)
PresenceInv == said \in Seq(Advisories) /\ SpokenInv /\ AnnouncedInv /\ GoneInv /\ HereInv

\* What PluginRuntimeProofs knows of the session map.
SessionsInv == TypeOK /\ OnePerId /\ SessionInv

-------------------------------------------------------------------------------
(* Advisories.                                                             *)

\* The greatest of a set of numbers is its Newest.
LEMMA NewestIs ==
  ASSUME NEW N \in SUBSET Nat, NEW n \in N, \A k \in N : k <= n
  PROVE  Newest(N) = n
<1>1. Newest(N) \in N /\ \A k \in N : k <= Newest(N)
  BY DEF Newest
<1> DEFINE x == Newest(N)
<1> HIDE DEF x
<1>2. x \in Nat /\ n \in Nat /\ x <= n /\ n <= x
  BY <1>1 DEF x
<1>3. x = n
  BY <1>2
<1> QED  BY <1>3 DEF x

\* A new advisory becomes the newest of its asset and no other's.
LEMMA Announced ==
  ASSUME said \in Seq(Advisories), NEW k \in {"connect", "disconnect"}, NEW a \in Assets,
         said' = Append(said, [kind |-> k, asset |-> a])
  PROVE  /\ said' \in Seq(Advisories) /\ About(a)' # {}
         /\ \A x : LastIs(a, x)' <=> x = k
         /\ \A b \in Assets \ {a} : About(b)' = About(b) /\ \A x : LastIs(b, x)' <=> LastIs(b, x)
<1> DEFINE n == Len(said) + 1
           e == [kind |-> k, asset |-> a]
<1>1. e \in Advisories /\ e.kind = k /\ e.asset = a
  BY DEF Advisories
<1>2. /\ Len(said) \in Nat /\ DOMAIN said = 1 .. Len(said) /\ said' \in Seq(Advisories)
      /\ DOMAIN said' = 1 .. n /\ said'[n] = e /\ \A i \in 1 .. Len(said) : said'[i] = said[i]
  BY <1>1, AppendProperties, LenProperties
<1> HIDE DEF e
<1>3. DOMAIN said' = DOMAIN said \cup {n} /\ \A i \in DOMAIN said : i < n /\ said'[i] = said[i]
  BY <1>2
<1>4. n \in Nat /\ DOMAIN said \in SUBSET Nat
  BY <1>2
<1> HIDE DEF n
<1>5. About(a)' = About(a) \cup {n}
  BY <1>1, <1>2, <1>3 DEF About
<1>6. ASSUME NEW b \in Assets \ {a}
      PROVE  About(b)' = About(b) /\ \A x : LastIs(b, x)' <=> LastIs(b, x)
  <2>1. About(b)' = About(b)
    BY <1>1, <1>2, <1>3, <1>6 DEF About
  <2>2. \A i \in About(b) : said'[i] = said[i]
    BY <1>3 DEF About
  <2> QED  BY <2>1, <2>2 DEF LastIs
<1>7. \A m \in About(a) : m \in Nat /\ m < n
  BY <1>3, <1>4 DEF About
<1>8. \A m \in About(a)' : m <= n
  BY <1>4, <1>5, <1>7
<1>9. LastIs(a, k)'
  BY <1>1, <1>2, <1>5, <1>8 DEF LastIs
<1>10. ASSUME NEW x, LastIs(a, x)'  PROVE x = k
  <2>1. PICK i \in About(a)' : said'[i].kind = x /\ \A m \in About(a)' : m <= i
    BY <1>10 DEF LastIs
  <2>2. n <= i
    BY <2>1, <1>5
  <2>3. i = n
    BY <2>2, <1>4, <1>5, <1>7
  <2> QED  BY <2>1, <2>3, <1>1, <1>2
<1> QED  BY <1>2, <1>5, <1>6, <1>9, <1>10

\* A step that announces nothing keeps every newest advisory.
LEMMA Unannounced ==
  ASSUME said' = said
  PROVE  \A a : About(a)' = About(a) /\ \A x : LastIs(a, x)' <=> LastIs(a, x)
BY DEF About, LastIs

-------------------------------------------------------------------------------
(* Presence runs the callbacks of PluginRuntime.                           *)

\* What Connect does, with the credentials and the store's answer filled in.
LEMMA ConnectIs ==
  ASSUME TypeOK, NEW c \in Conns, NEW id \in ClientIDs, NEW a \in Assets, NEW o \in Orgs,
         NEW s \in Secrets, Connect(c, id, a, o, s)
  PROVE  LET who == [org |-> o, asset |-> a] IN
         /\ who \in SessionInfo /\ who # None /\ who.asset = a
         /\ conns[c] = None /\ kick = None /\ sessions' = [sessions EXCEPT ![id] = who]
         /\ conns' = [conns EXCEPT ![c] = [id |-> id, user |-> a, who |-> who, took |-> Older(id) # {}]]
         /\ Displace(id) /\ said' = Append(said, [kind |-> "connect", asset |-> a])
         /\ eclipsed' = eclipsed \ {a} /\ orphaned' = orphaned \ {a}
<1> DEFINE cred == [user |-> a, password |-> s, cert |-> None]
           entry == [enabled |-> TRUE, org |-> o, type |-> "password", secret |-> s]
           ans == [kind |-> "entry", entry |-> entry]
           who == [org |-> o, asset |-> a]
<1>1. cred \in Credentials /\ cred.user = a /\ cred.cert = None
  BY DEF Credentials
<1>2. entry \in Entries /\ entry.org = o
  BY DEF Entries
<1>3. ans \in Answers /\ ans.entry = entry
  BY <1>2 DEF Answers
<1>4. Username(cred) = a
  BY <1>1 DEF Username
<1>5. who \in SessionInfo /\ who # None /\ who.asset = a
  BY NoneAssumption DEF SessionInfo
<1> HIDE DEF cred, entry, ans, who
<1>6. /\ Admit(c, id, cred, ans) /\ eclipsed' = eclipsed \ {a} /\ orphaned' = orphaned \ {a}
      /\ sessions'[id] # None => Announce("connect", sessions'[id])
  BY DEF Connect, cred, entry, ans
<1>7. [org |-> ans.entry.org, asset |-> Username(cred)] = who
  BY <1>2, <1>3, <1>4 DEF who
<1>8. sessions' = [sessions EXCEPT ![id] = who]
  BY <1>6, <1>7 DEF Admit, rememberSession
<1>9. sessions'[id] = who
  BY <1>8 DEF TypeOK
<1>10. said' = Append(said, [kind |-> "connect", asset |-> a])
  BY <1>5, <1>6, <1>9 DEF Announce
<1>11. /\ conns[c] = None /\ kick = None /\ Displace(id)
       /\ conns' = [conns EXCEPT ![c] = [id |-> id, user |-> a, who |-> who, took |-> Older(id) # {}]]
  BY <1>1, <1>6, <1>7 DEF Admit
<1> QED  BY <1>5, <1>6, <1>8, <1>10, <1>11 DEF who

\* Every behaviour of Presence is one of PluginRuntime, with advisories.
LEMMA PresenceIsRuntime == PSpec => Spec
<1>1. PInit => Init
  BY DEF PInit
<1>2. [PNext]_pvars => [Next]_vars
  <2> SUFFICES ASSUME [PNext]_pvars  PROVE Next \/ UNCHANGED vars
    OBVIOUS
  <2>1. ASSUME NEW c \in Conns, NEW id \in ClientIDs, NEW a \in Assets, NEW o \in Orgs,
               NEW s \in Secrets, Connect(c, id, a, o, s)
        PROVE  Next
    <3> DEFINE cred == [user |-> a, password |-> s, cert |-> None]
               entry == [enabled |-> TRUE, org |-> o, type |-> "password", secret |-> s]
               ans == [kind |-> "entry", entry |-> entry]
    <3>1. cred \in Credentials
      BY DEF Credentials
    <3>2. ans \in Answers
      BY DEF Answers, Entries
    <3>3. Admit(c, id, cred, ans)
      BY <2>1 DEF Connect
    <3> HIDE DEF cred, ans
    <3> QED  BY <3>1, <3>2, <3>3 DEF Next
  <2>2. ASSUME NEW c \in Conns, NEW id \in ClientIDs, PServiceConnect(c, id)  PROVE Next
    BY <2>2 DEF PServiceConnect, Next
  <2>3. ASSUME NEW c \in Conns, Disconnect(c)  PROVE Next
    BY <2>3 DEF Disconnect, Next
  <2>4. ASSUME NEW id \in ClientIDs, StrayDisconnect(id)  PROVE Next
    BY <2>4 DEF StrayDisconnect, Next
  <2>5. ASSUME NEW n \in 1 .. MaxEvents, Settle(n)  PROVE UNCHANGED vars
    BY <2>5 DEF Settle
  <2> QED  BY <2>1, <2>2, <2>3, <2>4, <2>5 DEF PNext, pvars
<1> QED  BY <1>1, <1>2, PTL DEF PSpec, Spec

-------------------------------------------------------------------------------
(* The invariant.                                                          *)

\* An asset connects: its connect is the newest advisory, and whoever is taken
\* over is about to be ended.
LEMMA ConnectStep ==
  ASSUME SessionsInv, PresenceInv, NEW c \in Conns, NEW id \in ClientIDs, NEW a \in Assets,
         NEW o \in Orgs, NEW s \in Secrets, Connect(c, id, a, o, s)
  PROVE  PresenceInv'
<1>0. LET who == [org |-> o, asset |-> a] IN
      /\ who \in SessionInfo /\ who # None /\ who.asset = a
      /\ conns[c] = None /\ kick = None /\ sessions' = [sessions EXCEPT ![id] = who]
      /\ conns' = [conns EXCEPT ![c] = [id |-> id, user |-> a, who |-> who, took |-> Older(id) # {}]]
      /\ Displace(id) /\ said' = Append(said, [kind |-> "connect", asset |-> a])
      /\ eclipsed' = eclipsed \ {a} /\ orphaned' = orphaned \ {a}
  <2>1. TypeOK
    BY DEF SessionsInv
  <2> QED  BY <2>1, ConnectIs, Zenon
<1> DEFINE who == [org |-> o, asset |-> a]
           conn == [id |-> id, user |-> a, who |-> who, took |-> Older(id) # {}]
<1>1. /\ who # None /\ who.asset = a /\ conns[c] = None /\ kick = None
      /\ sessions' = [sessions EXCEPT ![id] = who] /\ conns' = [conns EXCEPT ![c] = conn]
      /\ Displace(id) /\ said' = Append(said, [kind |-> "connect", asset |-> a])
      /\ eclipsed' = eclipsed \ {a} /\ orphaned' = orphaned \ {a} /\ who \in SessionInfo
  BY <1>0, Zenon
<1>2. conn.id = id /\ conn.who = who /\ conn # None
  <2>1. conn \in Connections
    BY <1>1 DEF Connections
  <2> QED  BY <2>1, NoneAssumption
<1> HIDE DEF who, conn
<1>3. /\ said' \in Seq(Advisories) /\ About(a)' # {}
      /\ \A x : LastIs(a, x)' <=> x = "connect"
      /\ \A b \in Assets \ {a} : About(b)' = About(b) /\ \A x : LastIs(b, x)' <=> LastIs(b, x)
  BY <1>1, Announced DEF PresenceInv
<1>4. conns'[c] = conn /\ \A d \in Conns \ {c} : conns'[d] = conns[d]
  BY <1>1 DEF SessionsInv, TypeOK
<1>5. sessions'[id] = who /\ \A i \in ClientIDs \ {id} : sessions'[i] = sessions[i]
  BY <1>1 DEF SessionsInv, TypeOK
<1>6. SpokenInv'
  BY <1>3 DEF PresenceInv, SpokenInv
<1>7. AnnouncedInv'
  <2>1. \A d \in Conns \ {c} : Device(d) => conns[d].who.asset \in Assets
    BY DEF SessionsInv, TypeOK, Device, Connections, SessionInfo
  <2>2. ASSUME NEW d \in Conns \ {c}, Device(d)'  PROVE About(conns[d].who.asset)' # {}
    <3>1. Device(d) /\ conns'[d] = conns[d]
      BY <2>2, <1>4 DEF Device
    <3> QED  BY <3>1, <2>1, <1>3 DEF PresenceInv, AnnouncedInv
  <2>3. About(conns[c].who.asset)' # {}
    BY <1>1, <1>2, <1>3, <1>4
  <2> QED  BY <2>2, <2>3 DEF AnnouncedInv
<1>8. GoneInv'
  BY <1>1, <1>3 DEF PresenceInv, GoneInv
<1>9. ASSUME NEW b \in Assets, LastIs(b, "connect")'
      PROVE  \/ b \in orphaned'
             \/ \E d \in Conns : /\ Device(d)' /\ conns'[d].who.asset = b
                                 /\ \/ sessions'[conns'[d].id] = conns'[d].who
                                    \/ kick' = d /\ sessions'[conns'[d].id] # None
  <2>1. CASE b = a
    BY <2>1, <1>1, <1>2, <1>4, <1>5 DEF Device
  <2>2. CASE b # a /\ b \notin orphaned
    <3>1. LastIs(b, "connect")
      BY <1>3, <1>9, <2>2
    <3>0. Held(b)
      BY <3>1, <2>2 DEF PresenceInv, HereInv
    <3>2. PICK d \in Conns : /\ Device(d) /\ conns[d].who.asset = b
                            /\ sessions[conns[d].id] = conns[d].who
      BY <3>0, <1>1, RuntimeAssumption DEF Held
    <3>3. d # c /\ conns'[d] = conns[d] /\ Device(d)'
      BY <1>1, <1>4, <3>2 DEF Device
    <3>4. conns[d].id \in ClientIDs
      BY <3>2 DEF SessionsInv, TypeOK, Device, Connections
    <3>5. CASE conns[d].id # id
      BY <3>2, <3>3, <3>4, <3>5, <1>5
    <3>6. CASE conns[d].id = id
      <4>1. d \in Older(id)
        BY <3>2, <3>6 DEF Older, Device
      <4>2. kick' \in Older(id)
        BY <1>1, <4>1 DEF Displace
      <4>3. kick' = d
        <5>1. \A e \in Older(id) : e \in Conns /\ conns[e] # None /\ conns[e].id = id
          BY DEF Older
        <5> QED  BY <1>1, <4>1, <4>2, <5>1, RuntimeAssumption DEF SessionsInv, OnePerId
      <4> QED  BY <3>2, <3>3, <3>6, <4>3, <1>1, <1>5
    <3> QED  BY <3>5, <3>6
  <2>3. CASE b # a /\ b \in orphaned
    BY <2>3, <1>1
  <2> QED  BY <2>1, <2>2, <2>3
<1>10. HereInv'
  BY <1>9 DEF HereInv, Held
<1> QED  BY <1>3, <1>6, <1>7, <1>8, <1>10 DEF PresenceInv

\* A service account connects: no advisory, and no session changes.
LEMMA ServiceStep ==
  ASSUME SessionsInv, PresenceInv, NEW c \in Conns, NEW id \in ClientIDs, PServiceConnect(c, id)
  PROVE  PresenceInv'
<1> DEFINE conn == [id |-> id, user |-> Service, who |-> None, took |-> Older(id) # {}]
<1>1. /\ conns[c] = None /\ kick = None /\ conns' = [conns EXCEPT ![c] = conn]
      /\ UNCHANGED <<sessions, said, eclipsed, orphaned>>
  BY DEF PServiceConnect, ServiceConnect, Silent, causes
<1>2. conn.who = None
  OBVIOUS
<1> HIDE DEF conn
<1>3. conns'[c] = conn /\ \A d \in Conns \ {c} : conns'[d] = conns[d]
  BY <1>1 DEF SessionsInv, TypeOK
<1>4. \A d \in Conns : (Device(d)' <=> Device(d)) /\ (Device(d) => conns'[d] = conns[d])
  BY <1>1, <1>2, <1>3 DEF Device
<1>5. \A a : About(a)' = About(a) /\ \A x : LastIs(a, x)' <=> LastIs(a, x)
  BY <1>1, Unannounced
<1>6. AnnouncedInv'
  <2> SUFFICES ASSUME NEW d \in Conns, Device(d)'  PROVE About(conns[d].who.asset)' # {}
    BY DEF AnnouncedInv
  <2>1. Device(d) /\ conns'[d] = conns[d] /\ said' = said
    BY <1>1, <1>4
  <2>2. About(conns[d].who.asset) # {}
    BY <2>1 DEF PresenceInv, AnnouncedInv
  <2> QED  BY <2>1, <2>2 DEF About
<1>7. ASSUME NEW a \in Assets, LastIs(a, "connect")', a \notin orphaned
      PROVE  \E d \in Conns : /\ Device(d)' /\ conns'[d].who.asset = a
                             /\ sessions'[conns'[d].id] = conns'[d].who
  <2>0. Held(a)
    BY <1>5, <1>7 DEF PresenceInv, HereInv
  <2>1. PICK d \in Conns : /\ Device(d) /\ conns[d].who.asset = a
                          /\ sessions[conns[d].id] = conns[d].who
    BY <1>1, <2>0, RuntimeAssumption DEF Held
  <2> QED  BY <1>1, <1>4, <2>1
<1>8. SpokenInv' /\ GoneInv'
  BY <1>1, <1>5 DEF PresenceInv, SpokenInv, GoneInv
<1>9. HereInv'
  BY <1>1, <1>7 DEF HereInv, Held
<1> QED  BY <1>1, <1>6, <1>8, <1>9 DEF PresenceInv

\* The session a disconnect announces is the ending connection's own, unless
\* the connection is being taken over.
LEMMA OwnSession ==
  ASSUME SessionsInv, NEW c \in Conns, conns[c] # None, kick = None,
         sessions[conns[c].id] # None
  PROVE  sessions[conns[c].id] = conns[c].who
<1>1. conns[c].id \in ClientIDs
  BY DEF SessionsInv, TypeOK, Connections
<1>2. PICK d \in Conns : Device(d) /\ conns[d].id = conns[c].id /\ conns[d].who = sessions[conns[c].id]
  BY <1>1 DEF SessionsInv, SessionInv
<1>3. d = c
  BY <1>2, RuntimeAssumption DEF SessionsInv, OnePerId, Device
<1> QED  BY <1>2, <1>3

\* A connection ends: the session of its client id is announced gone.
LEMMA DisconnectStep ==
  ASSUME SessionsInv, PresenceInv, NEW c \in Conns, Disconnect(c)
  PROVE  PresenceInv'
<1> DEFINE id == conns[c].id
           info == sessions[conns[c].id]
<1>1. /\ conns[c] # None /\ kick \in {None, c} /\ sessions' = [sessions EXCEPT ![id] = None]
      /\ conns' = [conns EXCEPT ![c] = None] /\ kick' = None
  BY DEF Disconnect, OnDisconnect
<1>2. id \in ClientIDs /\ info \in SessionInfo \cup {None}
  BY <1>1 DEF SessionsInv, TypeOK, Connections
<1>3. ~Device(c)' /\ \A d \in Conns \ {c} : conns'[d] = conns[d]
  BY <1>1 DEF SessionsInv, TypeOK, Device
<1>4. \A i \in ClientIDs \ {id} : sessions'[i] = sessions[i]
  BY <1>1 DEF SessionsInv, TypeOK
<1>5. \A d \in Conns : Device(d)' => d # c /\ Device(d) /\ conns'[d] = conns[d]
                                  /\ conns[d].who.asset \in Assets
  <2>1. \A d \in Conns : Device(d)' => d # c /\ Device(d) /\ conns'[d] = conns[d]
    BY <1>3 DEF Device
  <2>2. \A d \in Conns : Device(d) => conns[d].who.asset \in Assets
    BY DEF Device, SessionsInv, TypeOK, Connections, SessionInfo
  <2> QED  BY <2>1, <2>2
<1>6. CASE info = None
  <2>1. UNCHANGED <<said, eclipsed, orphaned>>
    BY <1>6 DEF Disconnect, Silent
  <2>2. \A a : About(a)' = About(a) /\ \A x : LastIs(a, x)' <=> LastIs(a, x)
    BY <2>1, Unannounced
  <2>3. AnnouncedInv'
    <3> SUFFICES ASSUME NEW d \in Conns, Device(d)'  PROVE About(conns[d].who.asset)' # {}
      BY DEF AnnouncedInv
    <3>1. Device(d) /\ conns'[d] = conns[d]
      BY <1>5
    <3>2. About(conns[d].who.asset) # {}
      BY <3>1 DEF PresenceInv, AnnouncedInv
    <3> QED  BY <2>1, <3>1, <3>2 DEF About
  <2>4. ASSUME NEW a \in Assets, LastIs(a, "connect")', a \notin orphaned
        PROVE  \E d \in Conns : /\ Device(d)' /\ conns'[d].who.asset = a
                               /\ sessions'[conns'[d].id] = conns'[d].who
    <3>1. PICK d \in Conns : /\ Device(d) /\ conns[d].who.asset = a
                            /\ \/ sessions[conns[d].id] = conns[d].who
                               \/ kick = d /\ sessions[conns[d].id] # None
      BY <2>2, <2>4 DEF PresenceInv, HereInv, Held
    <3>2. d # c
      BY <1>6, <3>1 DEF Device
    <3>3. sessions[conns[d].id] = conns[d].who /\ sessions[conns[d].id] # None
      BY <1>1, <3>1, <3>2, RuntimeAssumption DEF Device
    <3>4. conns[d].id # id /\ conns[d].id \in ClientIDs
      BY <1>6, <3>1, <3>3 DEF Device, SessionsInv, TypeOK, Connections
    <3> QED  BY <1>3, <1>4, <3>1, <3>2, <3>3, <3>4 DEF Device
  <2>5. SpokenInv' /\ GoneInv'
    BY <2>1, <2>2 DEF PresenceInv, SpokenInv, GoneInv
  <2>6. HereInv'
    BY <2>1, <2>4 DEF HereInv, Held
  <2> QED  BY <2>1, <2>3, <2>5, <2>6 DEF PresenceInv
<1>7. CASE info # None
  <2>1. PICK b \in Assets : b = info.asset
    BY <1>2, <1>7 DEF SessionInfo
  <2>2. /\ said' = Append(said, [kind |-> "disconnect", asset |-> b])
        /\ eclipsed' = IF kick = c \/ conns[c].who = info THEN eclipsed \cup {b} ELSE eclipsed
        /\ orphaned' = IF kick = c /\ Device(c) /\ conns[c].who.asset # b
                         THEN orphaned \cup {conns[c].who.asset} ELSE orphaned
    BY <1>7, <2>1 DEF Disconnect, Announce
  <2>3. eclipsed' = eclipsed \cup {b}
    BY <1>1, <1>7, <2>2, OwnSession
  <2>4. /\ said' \in Seq(Advisories) /\ About(b)' # {}
        /\ \A x : LastIs(b, x)' <=> x = "disconnect"
        /\ \A a \in Assets \ {b} : About(a)' = About(a) /\ \A x : LastIs(a, x)' <=> LastIs(a, x)
    BY <2>2, Announced DEF PresenceInv
  <2>5. SpokenInv'
    BY <2>4 DEF PresenceInv, SpokenInv
  <2>6. AnnouncedInv'
    <3> SUFFICES ASSUME NEW d \in Conns, Device(d)'  PROVE About(conns[d].who.asset)' # {}
      BY DEF AnnouncedInv
    <3> DEFINE a == conns[d].who.asset
    <3>1. Device(d) /\ conns'[d] = conns[d] /\ a \in Assets
      BY <1>5
    <3>2. About(a) # {}
      BY <3>1 DEF PresenceInv, AnnouncedInv
    <3>3. \A x \in Assets : About(x) # {} => About(x)' # {}
      BY <2>4
    <3>4. ASSUME NEW x \in Assets, x = a, About(x) # {}  PROVE About(conns[d].who.asset)' # {}
      <4>1. About(x)' # {} /\ x = conns'[d].who.asset
        BY <3>1, <3>3, <3>4
      <4> QED  BY <4>1 DEF About
    <3> QED  BY <3>1, <3>2, <3>4
  <2>7. GoneInv'
    BY <2>3, <2>4 DEF PresenceInv, GoneInv
  <2>8. ASSUME NEW a \in Assets, LastIs(a, "connect")', a \notin orphaned'
        PROVE  \E d \in Conns : /\ Device(d)' /\ conns'[d].who.asset = a
                               /\ sessions'[conns'[d].id] = conns'[d].who
    <3>1. a # b /\ LastIs(a, "connect") /\ a \notin orphaned
      BY <2>2, <2>4, <2>8
    <3>2. PICK d \in Conns : /\ Device(d) /\ conns[d].who.asset = a
                            /\ \/ sessions[conns[d].id] = conns[d].who
                               \/ kick = d /\ sessions[conns[d].id] # None
      BY <3>1 DEF PresenceInv, HereInv, Held
    <3>3. d # c
      BY <1>7, <2>2, <2>8, <3>1, <3>2, <2>1
    <3>4. sessions[conns[d].id] = conns[d].who
      BY <1>1, <3>2, <3>3, RuntimeAssumption
    <3>5. conns[d].id # id /\ conns[d].id \in ClientIDs
      BY <3>1, <3>2, <3>4, <2>1 DEF Device, SessionsInv, TypeOK, Connections
    <3> QED  BY <1>3, <1>4, <3>2, <3>3, <3>4, <3>5 DEF Device
  <2>9. HereInv'
    BY <2>8 DEF HereInv, Held
  <2> QED  BY <2>4, <2>5, <2>6, <2>7, <2>9 DEF PresenceInv
<1> QED  BY <1>6, <1>7

\* A refused connection ends: whoever has its client id is announced gone.
LEMMA StrayStep ==
  ASSUME SessionsInv, PresenceInv, NEW id \in ClientIDs, StrayDisconnect(id)
  PROVE  PresenceInv'
<1>1. /\ sessions[id] # None /\ UNCHANGED <<conns, kick, orphaned>> /\ kick = None
      /\ sessions' = [sessions EXCEPT ![id] = None]
      /\ said' = Append(said, [kind |-> "disconnect", asset |-> sessions[id].asset])
      /\ eclipsed' = eclipsed \cup {sessions[id].asset}
  BY DEF StrayDisconnect, OnStrayDisconnect, Announce
<1>2. PICK b \in Assets : b = sessions[id].asset
  BY <1>1 DEF SessionsInv, TypeOK, SessionInfo
<1>3. \A i \in ClientIDs \ {id} : sessions'[i] = sessions[i]
  BY <1>1 DEF SessionsInv, TypeOK
<1>4. /\ said' \in Seq(Advisories) /\ About(b)' # {}
      /\ \A x : LastIs(b, x)' <=> x = "disconnect"
      /\ \A a \in Assets \ {b} : About(a)' = About(a) /\ \A x : LastIs(a, x)' <=> LastIs(a, x)
  BY <1>1, <1>2, Announced DEF PresenceInv
<1>5. SpokenInv'
  BY <1>4 DEF PresenceInv, SpokenInv
<1>6. AnnouncedInv'
  <2> SUFFICES ASSUME NEW d \in Conns, Device(d)  PROVE About(conns[d].who.asset)' # {}
    BY <1>1 DEF AnnouncedInv, Device
  <2>1. PICK x \in Assets : x = conns[d].who.asset
    BY DEF Device, SessionsInv, TypeOK, Connections, SessionInfo
  <2>2. About(x) # {}
    BY <2>1 DEF PresenceInv, AnnouncedInv
  <2>3. About(x)' # {} /\ x = conns'[d].who.asset
    BY <1>1, <1>4, <2>1, <2>2
  <2> QED  BY <2>3 DEF About
<1>7. GoneInv'
  BY <1>1, <1>2, <1>4 DEF PresenceInv, GoneInv
<1>8. ASSUME NEW a \in Assets, LastIs(a, "connect")', a \notin orphaned'
      PROVE  \E d \in Conns : /\ Device(d)' /\ conns'[d].who.asset = a
                             /\ sessions'[conns'[d].id] = conns'[d].who
  <2>1. a # b /\ LastIs(a, "connect") /\ a \notin orphaned
    BY <1>1, <1>4, <1>8
  <2>2. Held(a)
    BY <2>1 DEF PresenceInv, HereInv
  <2>3. PICK d \in Conns : /\ Device(d) /\ conns[d].who.asset = a
                          /\ sessions[conns[d].id] = conns[d].who
    BY <1>1, <2>2, RuntimeAssumption DEF Held
  <2>4. conns[d].id \in ClientIDs /\ conns[d].id # id
    BY <1>2, <2>1, <2>3 DEF Device, SessionsInv, TypeOK, Connections
  <2> QED  BY <1>1, <1>3, <2>3, <2>4 DEF Device
<1>9. HereInv'
  BY <1>8 DEF HereInv, Held
<1> QED  BY <1>4, <1>5, <1>6, <1>7, <1>9 DEF PresenceInv

\* A worker that settles an advisory tells NATS, and changes no state it is about.
LEMMA SettleStep ==
  ASSUME PresenceInv, UNCHANGED <<vars, said, causes>>
  PROVE  PresenceInv'
<1>1. UNCHANGED <<conns, sessions, kick, said, eclipsed, orphaned>>
  BY DEF vars, causes
<1>2. \A a : About(a)' = About(a) /\ \A x : LastIs(a, x)' <=> LastIs(a, x)
  BY <1>1, Unannounced
<1>3. SpokenInv' /\ GoneInv'
  BY <1>1, <1>2 DEF PresenceInv, SpokenInv, GoneInv
<1>4. AnnouncedInv'
  BY <1>1 DEF PresenceInv, AnnouncedInv, About, Device
<1>5. HereInv'
  BY <1>1, <1>2 DEF PresenceInv, HereInv, Held, Device
<1> QED  BY <1>1, <1>3, <1>4, <1>5 DEF PresenceInv

\* The presence invariant and those of the session map hold in every state.
THEOREM PresenceInvariant == PSpec => [](SessionsInv /\ PresenceInv)
<1>1. PSpec => []SessionsInv
  BY PresenceIsRuntime, TypeCorrect, SessionInvariant, PTL DEF SessionsInv
<1>2. PInit => PresenceInv
  <2> SUFFICES ASSUME PInit  PROVE PresenceInv
    OBVIOUS
  <2>1. said = <<>> /\ conns = [c \in Conns |-> None]
    BY DEF PInit, Init
  <2>2. said \in Seq(Advisories) /\ \A a : About(a) = {}
    BY <2>1 DEF About
  <2> QED  BY <2>1, <2>2 DEF PresenceInv, SpokenInv, AnnouncedInv, GoneInv, HereInv, LastIs, Device
<1>3. SessionsInv /\ PresenceInv /\ [PNext]_pvars => PresenceInv'
  <2> SUFFICES ASSUME SessionsInv, PresenceInv, [PNext]_pvars  PROVE PresenceInv'
    OBVIOUS
  <2>1. ASSUME NEW n \in 1 .. MaxEvents, Settle(n)  PROVE PresenceInv'
    BY <2>1, SettleStep DEF Settle
  <2>2. CASE UNCHANGED pvars
    BY <2>2, SettleStep DEF pvars
  <2> QED  BY <2>1, <2>2, ConnectStep, ServiceStep, DisconnectStep, StrayStep DEF PNext
<1> QED  BY <1>1, <1>2, <1>3, PTL DEF PSpec

\* When nothing about an asset is lost or under way, a consumer believes what
\* its newest advisory says.
LEMMA BeliefIsLast ==
  ASSUME PresenceInv, NEW a \in Assets, About(a) # {}, ~Untold(a)
  PROVE  \E k \in {"connect", "disconnect"} :
            LastIs(a, k) /\ (BelievedOnline(a) <=> k = "connect")
<1>1. PICK k \in {"connect", "disconnect"} : LastIs(a, k)
  BY DEF PresenceInv, SpokenInv
<1>2. PICK n \in About(a) : said[n].kind = k /\ \A m \in About(a) : m <= n
  BY <1>1 DEF LastIs
<1>3. About(a) \in SUBSET Nat /\ Told(a) \in SUBSET About(a)
  <2>1. DOMAIN said \in SUBSET Nat
    BY LenProperties DEF PresenceInv
  <2> QED  BY <2>1 DEF About, Told
<1>4. Newest(About(a)) = n
  BY <1>2, <1>3, NewestIs
<1>5. n \in Told(a)
  BY <1>4 DEF Untold
<1>6. Newest(Told(a)) = n
  BY <1>2, <1>3, <1>5, NewestIs
<1>7. BelievedOnline(a) <=> k = "connect"
  BY <1>2, <1>5, <1>6 DEF BelievedOnline
<1> QED  BY <1>1, <1>7

\* A connected device is believed offline only if a newer advisory is lost or
\* under way, or the end of another connection than its own was announced: one
\* it took over, another of the same asset, or a refused one.
THEOREM OfflineSound == PSpec => []OfflineNeedsACause
<1>1. PresenceInv => OfflineNeedsACause
  <2> SUFFICES ASSUME PresenceInv, NEW a \in Assets, Online(a), ~BelievedOnline(a), ~Untold(a)
               PROVE  a \in eclipsed
    BY DEF OfflineNeedsACause
  <2>1. About(a) # {}
    BY DEF Online, PresenceInv, AnnouncedInv
  <2>2. LastIs(a, "disconnect")
    BY <2>1, BeliefIsLast
  <2> QED  BY <2>2 DEF PresenceInv, GoneInv
<1> QED  BY <1>1, PresenceInvariant, PTL

\* A device that is gone is believed online only if a newer advisory is lost or
\* under way, or another asset took its client id over.
THEOREM OnlineSound == PSpec => []OnlineNeedsACause
<1>1. PresenceInv => OnlineNeedsACause
  <2> SUFFICES ASSUME PresenceInv, NEW a \in Assets, ~Online(a), BelievedOnline(a), ~Untold(a)
               PROVE  a \in orphaned
    BY DEF OnlineNeedsACause
  <2>1. About(a) # {}
    BY DEF BelievedOnline, Told
  <2>2. LastIs(a, "connect")
    BY <2>1, BeliefIsLast
  <2> QED  BY <2>2 DEF PresenceInv, HereInv, Held, Online
<1> QED  BY <1>1, PresenceInvariant, PTL

-------------------------------------------------------------------------------
(* Connects and disconnects.                                               *)

\* The client ids under which an asset has a session.
Sessions(a) == {id \in ClientIDs : sessions[id] # None /\ sessions[id].asset = a}

\* Each connect of an asset pays for one disconnect or one session, at most.
Ledger(a) ==
  /\ IsFiniteSet(Said(a, "connect")) /\ IsFiniteSet(Said(a, "disconnect"))
  /\ IsFiniteSet(Sessions(a))
  /\ Cardinality(Said(a, "disconnect")) + Cardinality(Sessions(a)) <= Cardinality(Said(a, "connect"))

LedgerInv == \A a \in Assets : Ledger(a)

\* A new advisory adds one to those of its kind and asset, and to no others.
LEMMA SaidGrows ==
  ASSUME said \in Seq(Advisories), NEW k \in {"connect", "disconnect"}, NEW a \in Assets,
         said' = Append(said, [kind |-> k, asset |-> a])
  PROVE  /\ \E n : n \notin Said(a, k) /\ Said(a, k)' = Said(a, k) \cup {n}
         /\ \A b \in Assets, x \in {"connect", "disconnect"} :
              b # a \/ x # k => Said(b, x)' = Said(b, x)
<1> DEFINE n == Len(said) + 1
           e == [kind |-> k, asset |-> a]
<1>1. e \in Advisories /\ e.kind = k /\ e.asset = a
  BY DEF Advisories
<1>2. /\ Len(said) \in Nat /\ DOMAIN said = 1 .. Len(said)
      /\ DOMAIN said' = 1 .. n /\ said'[n] = e /\ \A i \in 1 .. Len(said) : said'[i] = said[i]
  BY <1>1, AppendProperties, LenProperties
<1> HIDE DEF e
<1>3. /\ DOMAIN said' = DOMAIN said \cup {n} /\ n \notin DOMAIN said
      /\ \A i \in DOMAIN said : said'[i] = said[i]
  BY <1>2
<1> HIDE DEF n
<1>4. n \notin Said(a, k) /\ Said(a, k)' = Said(a, k) \cup {n}
  <2>1. \A i \in DOMAIN said : i \in Said(a, k)' <=> i \in Said(a, k)
    BY <1>3 DEF Said, About
  <2>2. n \in Said(a, k)' /\ n \notin Said(a, k)
    BY <1>1, <1>2, <1>3 DEF Said, About
  <2>3. Said(a, k)' \subseteq DOMAIN said \cup {n} /\ Said(a, k) \subseteq DOMAIN said
    BY <1>3 DEF Said, About
  <2> QED  BY <2>1, <2>2, <2>3
<1>5. ASSUME NEW b \in Assets, NEW x \in {"connect", "disconnect"}, b # a \/ x # k
      PROVE  Said(b, x)' = Said(b, x)
  <2>1. \A i \in DOMAIN said : i \in Said(b, x)' <=> i \in Said(b, x)
    BY <1>3 DEF Said, About
  <2>2. n \notin Said(b, x)'
    BY <1>1, <1>2, <1>5 DEF Said, About
  <2>3. Said(b, x)' \subseteq DOMAIN said \cup {n} /\ Said(b, x) \subseteq DOMAIN said
    BY <1>3 DEF Said, About
  <2> QED  BY <2>1, <2>2, <2>3
<1> QED  BY <1>4, <1>5

\* An asset whose advisories stay, and whose sessions grow no more, is paid for.
LEMMA LedgerFrame ==
  ASSUME NEW a \in Assets, Ledger(a), Sessions(a)' \in SUBSET Sessions(a),
         Said(a, "connect")' = Said(a, "connect"), Said(a, "disconnect")' = Said(a, "disconnect")
  PROVE  Ledger(a)'
<1> DEFINE S == Sessions(a)
           T == Sessions(a)'
<1>1. IsFiniteSet(S) /\ T \in SUBSET S
  BY DEF Ledger
<1> HIDE DEF S, T
<1>2. IsFiniteSet(T) /\ Cardinality(T) <= Cardinality(S)
  BY <1>1, FS_Subset
<1>3. Cardinality(S) \in Nat /\ Cardinality(T) \in Nat
  BY <1>1, <1>2, FS_CardinalityType
<1>4. /\ IsFiniteSet(Said(a, "connect")) /\ IsFiniteSet(Said(a, "disconnect"))
      /\ Cardinality(Said(a, "disconnect")) + Cardinality(S) <= Cardinality(Said(a, "connect"))
  BY DEF Ledger, S
<1>5. Cardinality(Said(a, "connect")) \in Nat /\ Cardinality(Said(a, "disconnect")) \in Nat
  BY <1>4, FS_CardinalityType
<1>6. Cardinality(Said(a, "disconnect")) + Cardinality(T) <= Cardinality(Said(a, "connect"))
  BY <1>2, <1>3, <1>4, <1>5
<1> QED  BY <1>2, <1>4, <1>6 DEF Ledger, T

\* A connect pays for the session it begins; one it replaces is written off.
LEMMA LedgerConnect ==
  ASSUME SessionsInv, PresenceInv, LedgerInv, NEW c \in Conns, NEW id \in ClientIDs,
         NEW a \in Assets, NEW o \in Orgs, NEW s \in Secrets, Connect(c, id, a, o, s)
  PROVE  LedgerInv'
<1>0. LET who == [org |-> o, asset |-> a] IN
      /\ who \in SessionInfo /\ who # None /\ who.asset = a
      /\ conns[c] = None /\ kick = None /\ sessions' = [sessions EXCEPT ![id] = who]
      /\ conns' = [conns EXCEPT ![c] = [id |-> id, user |-> a, who |-> who, took |-> Older(id) # {}]]
      /\ Displace(id) /\ said' = Append(said, [kind |-> "connect", asset |-> a])
      /\ eclipsed' = eclipsed \ {a} /\ orphaned' = orphaned \ {a}
  <2>1. TypeOK
    BY DEF SessionsInv
  <2> QED  BY <2>1, ConnectIs, Zenon
<1> DEFINE who == [org |-> o, asset |-> a]
<1>1. /\ who # None /\ who.asset = a /\ sessions' = [sessions EXCEPT ![id] = who]
      /\ said' = Append(said, [kind |-> "connect", asset |-> a])
  BY <1>0, Zenon
<1> HIDE DEF who
<1>2. sessions'[id] = who /\ \A i \in ClientIDs \ {id} : sessions'[i] = sessions[i]
  BY <1>1 DEF SessionsInv, TypeOK
<1>3. /\ \E n : n \notin Said(a, "connect") /\ Said(a, "connect")' = Said(a, "connect") \cup {n}
      /\ \A b \in Assets, x \in {"connect", "disconnect"} :
           b # a \/ x # "connect" => Said(b, x)' = Said(b, x)
  BY <1>1, SaidGrows DEF PresenceInv
<1>4. Sessions(a)' = Sessions(a) \cup {id} /\ \A b \in Assets \ {a} : Sessions(b)' \in SUBSET Sessions(b)
  BY <1>1, <1>2 DEF Sessions
<1>5. ASSUME NEW b \in Assets \ {a}  PROVE Ledger(b)'
  BY <1>3, <1>4, <1>5, LedgerFrame DEF LedgerInv
<1>6. Ledger(a)'
  <2>1. PICK n : n \notin Said(a, "connect") /\ Said(a, "connect")' = Said(a, "connect") \cup {n}
    BY <1>3
  <2>2. /\ IsFiniteSet(Said(a, "connect")) /\ IsFiniteSet(Said(a, "disconnect")) /\ IsFiniteSet(Sessions(a))
        /\ Cardinality(Said(a, "disconnect")) + Cardinality(Sessions(a)) <= Cardinality(Said(a, "connect"))
    BY DEF LedgerInv, Ledger
  <2>3. /\ IsFiniteSet(Said(a, "connect")')
        /\ Cardinality(Said(a, "connect")') = Cardinality(Said(a, "connect")) + 1
    BY <2>1, <2>2, FS_AddElement
  <2>4. /\ IsFiniteSet(Sessions(a)') /\ Cardinality(Sessions(a)') <= Cardinality(Sessions(a)) + 1
        /\ Cardinality(Sessions(a)') \in Nat
    <3>1. /\ IsFiniteSet(Sessions(a) \cup {id})
          /\ \/ Cardinality(Sessions(a) \cup {id}) = Cardinality(Sessions(a))
             \/ Cardinality(Sessions(a) \cup {id}) = Cardinality(Sessions(a)) + 1
      BY <2>2, FS_AddElement
    <3>2. Cardinality(Sessions(a)) \in Nat
      BY <2>2, FS_CardinalityType
    <3> QED  BY <1>4, <3>1, <3>2
  <2>5. /\ Cardinality(Said(a, "connect")) \in Nat /\ Cardinality(Said(a, "disconnect")) \in Nat
        /\ Cardinality(Sessions(a)) \in Nat
    BY <2>2, FS_CardinalityType
  <2>6. Said(a, "disconnect")' = Said(a, "disconnect")
    BY <1>3
  <2>7. Cardinality(Said(a, "disconnect")) + Cardinality(Sessions(a)') <= Cardinality(Said(a, "connect")')
    <3>1. \A i, j, k, l, m \in Nat : i + j <= l /\ m = l + 1 /\ k <= j + 1 => i + k <= m
      OBVIOUS
    <3>2. Cardinality(Said(a, "connect")') \in Nat
      BY <2>3, FS_CardinalityType
    <3> QED  BY <2>2, <2>3, <2>4, <2>5, <3>1, <3>2
  <2> QED  BY <2>2, <2>3, <2>4, <2>6, <2>7 DEF Ledger
<1> QED  BY <1>5, <1>6 DEF LedgerInv

\* A disconnect is paid for by the session it ends.
LEMMA LedgerEnd ==
  ASSUME SessionsInv, PresenceInv, LedgerInv, NEW id \in ClientIDs,
         sessions' = [sessions EXCEPT ![id] = None],
         sessions[id] = None => said' = said,
         sessions[id] # None =>
           said' = Append(said, [kind |-> "disconnect", asset |-> sessions[id].asset])
  PROVE  LedgerInv'
<1> DEFINE info == sessions[id]
<1>2. info \in SessionInfo \cup {None}
  BY DEF SessionsInv, TypeOK
<1>3. sessions'[id] = None /\ \A i \in ClientIDs \ {id} : sessions'[i] = sessions[i]
  BY DEF SessionsInv, TypeOK
<1>4. \A b \in Assets : Sessions(b)' \in SUBSET Sessions(b)
  BY <1>3 DEF Sessions
<1>5. CASE info = None
  <2>1. said' = said
    BY <1>5
  <2>2. \A b \in Assets, x \in {"connect", "disconnect"} : Said(b, x)' = Said(b, x)
    BY <2>1 DEF Said, About
  <2> QED  BY <1>4, <2>2, LedgerFrame DEF LedgerInv
<1>6. CASE info # None
  <2>1. PICK a \in Assets : a = info.asset
    BY <1>2, <1>6 DEF SessionInfo
  <2>2. said' = Append(said, [kind |-> "disconnect", asset |-> a])
    BY <1>6, <2>1
  <2>3. /\ \E n : n \notin Said(a, "disconnect") /\ Said(a, "disconnect")' = Said(a, "disconnect") \cup {n}
        /\ \A b \in Assets, x \in {"connect", "disconnect"} :
             b # a \/ x # "disconnect" => Said(b, x)' = Said(b, x)
    BY <2>2, SaidGrows DEF PresenceInv
  <2>4. Sessions(a)' = Sessions(a) \ {id} /\ id \in Sessions(a)
    <3>1. id \in Sessions(a)
      BY <1>2, <1>6, <2>1 DEF Sessions
    <3>2. id \notin Sessions(a)'
      BY <1>3 DEF Sessions
    <3>3. \A i \in ClientIDs \ {id} : i \in Sessions(a)' <=> i \in Sessions(a)
      BY <1>3 DEF Sessions
    <3>4. Sessions(a) \subseteq ClientIDs /\ Sessions(a)' \subseteq ClientIDs
      BY DEF Sessions
    <3> QED  BY <3>1, <3>2, <3>3, <3>4
  <2>5. ASSUME NEW b \in Assets \ {a}  PROVE Ledger(b)'
    BY <1>4, <2>3, <2>5, LedgerFrame DEF LedgerInv
  <2>6. Ledger(a)'
    <3>1. PICK n : n \notin Said(a, "disconnect") /\ Said(a, "disconnect")' = Said(a, "disconnect") \cup {n}
      BY <2>3
    <3>2. /\ IsFiniteSet(Said(a, "connect")) /\ IsFiniteSet(Said(a, "disconnect")) /\ IsFiniteSet(Sessions(a))
          /\ Cardinality(Said(a, "disconnect")) + Cardinality(Sessions(a)) <= Cardinality(Said(a, "connect"))
      BY DEF LedgerInv, Ledger
    <3>3. /\ IsFiniteSet(Said(a, "disconnect")')
          /\ Cardinality(Said(a, "disconnect")') = Cardinality(Said(a, "disconnect")) + 1
      BY <3>1, <3>2, FS_AddElement
    <3>4. IsFiniteSet(Sessions(a)') /\ Cardinality(Sessions(a)') = Cardinality(Sessions(a)) - 1
      BY <2>4, <3>2, FS_RemoveElement
    <3>5. /\ Cardinality(Said(a, "connect")) \in Nat /\ Cardinality(Said(a, "disconnect")) \in Nat
          /\ Cardinality(Sessions(a)) \in Nat
      BY <3>2, FS_CardinalityType
    <3>6. Said(a, "connect")' = Said(a, "connect")
      BY <2>3
    <3>7. Cardinality(Said(a, "disconnect")') + Cardinality(Sessions(a)') <= Cardinality(Said(a, "connect"))
      BY <3>2, <3>3, <3>4, <3>5
    <3> QED  BY <3>2, <3>3, <3>4, <3>6, <3>7 DEF Ledger
  <2> QED  BY <2>5, <2>6 DEF LedgerInv
<1> QED  BY <1>5, <1>6

\* So it is whether the connection that ended had been admitted or not.
LEMMA LedgerDisconnect ==
  ASSUME SessionsInv, PresenceInv, LedgerInv,
         \/ \E c \in Conns : Disconnect(c)
         \/ \E id \in ClientIDs : StrayDisconnect(id)
  PROVE  LedgerInv'
<1>1. ASSUME NEW c \in Conns, Disconnect(c)  PROVE LedgerInv'
  <2>1. conns[c] # None /\ sessions' = [sessions EXCEPT ![conns[c].id] = None]
    BY <1>1 DEF Disconnect, OnDisconnect
  <2>2. conns[c].id \in ClientIDs
    BY <2>1 DEF SessionsInv, TypeOK, Connections
  <2>3. /\ sessions[conns[c].id] = None => said' = said
        /\ sessions[conns[c].id] # None =>
             said' = Append(said, [kind |-> "disconnect", asset |-> sessions[conns[c].id].asset])
    BY <1>1 DEF Disconnect, Silent, Announce
  <2> QED  BY <2>1, <2>2, <2>3, LedgerEnd
<1>2. ASSUME NEW id \in ClientIDs, StrayDisconnect(id)  PROVE LedgerInv'
  <2>1. /\ sessions[id] # None /\ sessions' = [sessions EXCEPT ![id] = None]
        /\ said' = Append(said, [kind |-> "disconnect", asset |-> sessions[id].asset])
    BY <1>2 DEF StrayDisconnect, OnStrayDisconnect, Announce
  <2> QED  BY <2>1, LedgerEnd
<1> QED  BY <1>1, <1>2

\* The advisories of a kind are the ones heard and the ones missed.
LEMMA HeardAndMissed ==
  ASSUME NEW a, NEW k, IsFiniteSet(Said(a, k))
  PROVE  /\ Cardinality(Heard(a, k)) \in Nat /\ Cardinality(Missed(a, k)) \in Nat
         /\ Cardinality(Heard(a, k)) + Cardinality(Missed(a, k)) = Cardinality(Said(a, k))
<1> DEFINE S == Said(a, k)
           T == Heard(a, k)
<1>1. T \subseteq S /\ Missed(a, k) = S \ T
  BY DEF Heard, Missed
<1> HIDE DEF S, T
<1>2. IsFiniteSet(S)
  BY DEF S
<1>3. S \cap T = T
  BY <1>1
<1>4. IsFiniteSet(T) /\ IsFiniteSet(S \ T) /\ Cardinality(S \ T) = Cardinality(S) - Cardinality(S \cap T)
  BY <1>1, <1>2, FS_Difference, FS_Subset
<1>5. Cardinality(S) \in Nat /\ Cardinality(T) \in Nat /\ Cardinality(S \ T) \in Nat
  BY <1>2, <1>4, FS_CardinalityType
<1>6. Cardinality(T) + Cardinality(S \ T) = Cardinality(S)
  BY <1>3, <1>4, <1>5
<1> QED  BY <1>1, <1>5, <1>6 DEF S, T

\* No asset is announced gone more often than it was announced here: a
\* disconnect callback uses up the session it announces.  What a consumer hears
\* is out of balance by what it missed.
THEOREM DisconnectsPaidFor == PSpec => []DisconnectsAnswerConnects
<1>1. PInit => LedgerInv
  <2> SUFFICES ASSUME PInit, NEW a \in Assets  PROVE Ledger(a)
    BY DEF LedgerInv
  <2>1. said = <<>> /\ sessions = [i \in ClientIDs |-> None]
    BY DEF PInit, Init
  <2>2. Said(a, "connect") = {} /\ Said(a, "disconnect") = {} /\ Sessions(a) = {}
    BY <2>1 DEF Said, About, Sessions
  <2> QED  BY <2>2, FS_EmptySet DEF Ledger
<1>2. (SessionsInv /\ PresenceInv) /\ LedgerInv /\ [PNext]_pvars => LedgerInv'
  <2> SUFFICES ASSUME SessionsInv, PresenceInv, LedgerInv, [PNext]_pvars  PROVE LedgerInv'
    OBVIOUS
  <2>1. ASSUME UNCHANGED <<said, sessions>>  PROVE LedgerInv'
    BY <2>1 DEF LedgerInv, Ledger, Said, About, Sessions
  <2>2. ASSUME NEW c \in Conns, NEW id \in ClientIDs, PServiceConnect(c, id)
        PROVE  UNCHANGED <<said, sessions>>
    BY <2>2 DEF PServiceConnect, ServiceConnect, Silent
  <2>3. ASSUME NEW n \in 1 .. MaxEvents, Settle(n)  PROVE UNCHANGED <<said, sessions>>
    BY <2>3 DEF Settle, vars
  <2>4. CASE UNCHANGED pvars
    BY <2>1, <2>4 DEF pvars, vars
  <2> QED  BY <2>1, <2>2, <2>3, <2>4, LedgerConnect, LedgerDisconnect DEF PNext
<1>3. LedgerInv => DisconnectsAnswerConnects
  <2> SUFFICES ASSUME LedgerInv, NEW a \in Assets
               PROVE  Cardinality(Heard(a, "disconnect")) + Cardinality(Missed(a, "disconnect"))
                        <= Cardinality(Heard(a, "connect")) + Cardinality(Missed(a, "connect"))
    BY DEF DisconnectsAnswerConnects
  <2>1. /\ IsFiniteSet(Said(a, "connect")) /\ IsFiniteSet(Said(a, "disconnect")) /\ IsFiniteSet(Sessions(a))
        /\ Cardinality(Said(a, "disconnect")) + Cardinality(Sessions(a)) <= Cardinality(Said(a, "connect"))
    BY DEF LedgerInv, Ledger
  <2>2. /\ Cardinality(Said(a, "connect")) \in Nat /\ Cardinality(Said(a, "disconnect")) \in Nat
        /\ Cardinality(Sessions(a)) \in Nat
    BY <2>1, FS_CardinalityType
  <2>3. Cardinality(Said(a, "disconnect")) <= Cardinality(Said(a, "connect"))
    BY <2>1, <2>2
  <2>4. \A k \in {"connect", "disconnect"} :
          Cardinality(Heard(a, k)) + Cardinality(Missed(a, k)) = Cardinality(Said(a, k))
    BY <2>1, HeardAndMissed
  <2> QED  BY <2>3, <2>4
<1> QED  BY <1>1, <1>2, <1>3, PresenceInvariant, PTL DEF PSpec
===============================================================================
