-------------------------- MODULE PluginRuntimeProofs --------------------------
(***************************************************************************)
(* Proofs about the session map: for any number of connections, client     *)
(* ids, assets and secrets, whatever the store answers and the publisher   *)
(* refuses.                                                                *)
(***************************************************************************)
EXTENDS PluginRuntime, TLAPS

\* Only one live connection holds a client id, but for the one being taken over,
\* and whoever displaced that one is marked.
OnePerId ==
  /\ kick # None => conns[kick] # None
  /\ \A c, d \in Conns :
       c # d /\ conns[c] # None /\ conns[d] # None /\ conns[c].id = conns[d].id =>
         kick \in {c, d} /\ (d # kick => conns[d].took)

\* A device's MQTT username is its asset, or empty when its certificate spoke.
UserIsAsset == \A c \in Conns : Device(c) => conns[c].user \in {Empty, conns[c].who.asset}

\* SessionHasConnection, with the client id of a takeover in progress excepted.
SessionInv ==
  \A id \in ClientIDs :
     sessions[id] # None /\ (kick # None => conns[kick].id # id) =>
       \E c \in Conns : Device(c) /\ conns[c].id = id /\ conns[c].who = sessions[id]

-------------------------------------------------------------------------------
\* The identity an admission grants is well formed.
LEMMA GrantType ==
  ASSUME NEW cred \in Credentials, NEW ans \in Answers,
         Authenticate(Username(cred), cred, ans) = "allow"
  PROVE  /\ ans.kind = "entry" /\ ans.entry \in Entries
         /\ Username(cred) \in Assets
         /\ [org |-> ans.entry.org, asset |-> Username(cred)] \in SessionInfo
         /\ [org |-> ans.entry.org, asset |-> Username(cred)] # None
         /\ cred.user \in {Empty, Username(cred)}
<1>1. ResolveUsername(Username(cred)) /\ ans.kind \notin {"notfound", "unavailable"}
  BY DEF Authenticate
<1>2. ans.kind = "entry" /\ ans.entry \in Entries
  BY <1>1 DEF Answers
<1>3. Username(cred) \in Assets /\ cred.user \in {Empty, Username(cred)}
  BY <1>1 DEF Username, ResolveUsername, Credentials, Certificates
<1>4. [org |-> ans.entry.org, asset |-> Username(cred)] \in SessionInfo
  BY <1>2, <1>3 DEF SessionInfo, Entries
<1> QED  BY <1>2, <1>3, <1>4, NoneAssumption

\* What Authenticate answers, and the grounds of an admission, are well formed.
LEMMA VerdictType ==
  ASSUME NEW cred \in Credentials, NEW ans \in Answers
  PROVE  /\ Authenticate(Username(cred), cred, ans) \in {"allow", "deny", "error"}
         /\ ans.kind = "entry" =>
              Grounds(cred, ans.entry) \in [enabled : BOOLEAN, type : {"password", "cert", "unset"},
                                           shown : SUBSET {"password", "cert"},
                                           right : SUBSET {"password", "cert"}]
<1>1. ans.kind \in {"entry", "notfound", "unavailable"}
  BY DEF Answers
<1>2. Authenticate(Username(cred), cred, ans) \in {"allow", "deny", "error"}
  BY <1>1 DEF Authenticate
<1>3. ASSUME ans.kind = "entry"  PROVE ans.entry.enabled \in BOOLEAN /\ ans.entry.type \in {"password", "cert", "unset"}
  BY <1>3 DEF Answers, Entries
<1> QED  BY <1>2, <1>3 DEF Grounds

\* THEOREM TypeCorrect: sessions, connections and events keep their shape; in
\* particular every session and every event names an organisation and an asset.
THEOREM TypeCorrect == Spec => []TypeOK
<1>1. Init => TypeOK
  BY DEF Init, TypeOK
<1>2. TypeOK /\ [Next]_vars => TypeOK'
  <2> SUFFICES ASSUME TypeOK, [Next]_vars  PROVE TypeOK'
    OBVIOUS
  <2>1. ASSUME NEW c \in Conns, NEW id \in ClientIDs, NEW cred \in Credentials,
               NEW ans \in Answers, Admit(c, id, cred, ans)
        PROVE  TypeOK'
    <3> DEFINE who == [org |-> ans.entry.org, asset |-> Username(cred)]
    <3>1. Authenticate(Username(cred), cred, ans) = "allow"
      BY <2>1 DEF Admit
    <3>2. ans.kind = "entry" /\ who \in SessionInfo
      BY <3>1, GrantType
    <3>3. sessions' = [sessions EXCEPT ![id] = who]
      BY <2>1 DEF Admit, rememberSession
    <3>4. sessions' \in [ClientIDs -> SessionInfo \cup {None}] /\ sessions'[id] = who
      BY <3>2, <3>3 DEF TypeOK
    <3>5. cred.user \in Assets \cup {Empty, Scoped, Service}
      BY DEF Credentials
    <3>6. [id |-> id, user |-> cred.user, who |-> who, took |-> Older(id) # {}] \in Connections
      BY <3>2, <3>5 DEF Connections
    <3>7. conns' \in [Conns -> Connections \cup {None}]
      BY <2>1, <3>6 DEF Admit, TypeOK
    <3>8. [kind |-> "connect", info |-> who, from |-> who, topic |-> None, size |-> 0] \in Events
      BY <3>2 DEF Events
    <3>9. out' \in Events \cup {Discarded, None}
      BY <2>1, <3>4, <3>8 DEF Admit, publish, TypeOK
    <3>10. kick' \in Conns \cup {None}
      BY <2>1 DEF Admit, Displace, Older
    <3>11. verdict' = [res |-> "allow", grounds |-> Grounds(cred, ans.entry)]
      BY <2>1 DEF Admit
    <3> HIDE DEF who
    <3>12. strays' \in SUBSET Conns
      BY <2>1 DEF Admit, TypeOK
    <3> QED  BY <3>2, <3>4, <3>7, <3>9, <3>10, <3>11, <3>12, VerdictType DEF TypeOK
  <2>2. ASSUME NEW cred \in Credentials, NEW ans \in Answers, Refuse(cred, ans)
        PROVE  TypeOK'
    <3>1. verdict' = [res |-> Authenticate(Username(cred), cred, ans), grounds |-> None]
      BY <2>2 DEF Refuse
    <3>2. Authenticate(Username(cred), cred, ans) \in {"allow", "deny", "error"}
      BY VerdictType
    <3> QED  BY <2>2, <3>1, <3>2 DEF Refuse, TypeOK
  <2>3. ASSUME NEW c \in Conns, NEW id \in ClientIDs, ServiceConnect(c, id)
        PROVE  TypeOK'
    <3>1. [id |-> id, user |-> Service, who |-> None, took |-> Older(id) # {}] \in Connections
      BY DEF Connections
    <3>2. kick' \in Conns \cup {None}
      BY <2>3 DEF ServiceConnect, Displace, Older
    <3> QED  BY <2>3, <3>1, <3>2 DEF ServiceConnect, TypeOK
  <2>4. ASSUME NEW c \in Conns, OnDisconnect(c)  PROVE TypeOK'
    <3>1. conns[c] \in Connections /\ conns[c].id \in ClientIDs
      BY <2>4 DEF OnDisconnect, TypeOK, Connections
    <3>2. sessions[conns[c].id] \in SessionInfo \cup {None} /\ conns[c].who \in SessionInfo \cup {None}
      BY <3>1 DEF TypeOK, Connections
    <3>3. sessions[conns[c].id] # None =>
            [kind |-> "disconnect", info |-> sessions[conns[c].id],
             from |-> conns[c].who, topic |-> None, size |-> 0] \in Events
      BY <3>2 DEF Events
    <3>4. out' \in Events \cup {Discarded, None}
      BY <2>4, <3>3 DEF OnDisconnect, publish, TypeOK
    <3>5. sessions' \in [ClientIDs -> SessionInfo \cup {None}]
      BY <2>4, <3>1 DEF OnDisconnect, TypeOK
    <3>6. conns' \in [Conns -> Connections \cup {None}]
      BY <2>4 DEF OnDisconnect, TypeOK
    <3>7. strays' \in SUBSET Conns
      BY <2>4 DEF OnDisconnect, TypeOK
    <3> QED  BY <2>4, <3>4, <3>5, <3>6, <3>7 DEF OnDisconnect, TypeOK
  <2>5. ASSUME NEW c \in Conns, NEW topic \in Topics, NEW size \in PayloadSizes,
               OnMessage(c, topic, size)
        PROVE  TypeOK'
    <3>1. conns[c] \in Connections /\ conns[c].id \in ClientIDs
      BY <2>5 DEF OnMessage, TypeOK, Connections
    <3>2. sessions[conns[c].id] \in SessionInfo \cup {None} /\ conns[c].who \in SessionInfo \cup {None}
      BY <3>1 DEF TypeOK, Connections
    <3>3. \A rest \in EnvelopeSizes : MarshalledSize(size, rest) \in Nat
      BY RuntimeAssumption DEF MarshalledSize
    <3>4. sessions[conns[c].id] # None => \A rest \in EnvelopeSizes :
            [kind |-> "ingress", info |-> sessions[conns[c].id], from |-> conns[c].who,
             topic |-> topic, size |-> MarshalledSize(size, rest)] \in Events
      BY <3>2, <3>3 DEF Events
    <3>5. out' \in Events \cup {Discarded, None}
      BY <2>5, <3>4 DEF OnMessage, PublishIngress, publish, TypeOK
    <3> QED  BY <2>5, <3>5 DEF OnMessage, TypeOK
  <2>6. ASSUME NEW id \in ClientIDs, OnStrayDisconnect(id)  PROVE TypeOK'
    <3>1. sessions[id] \in SessionInfo
      BY <2>6 DEF OnStrayDisconnect, TypeOK
    <3>2. [kind |-> "disconnect", info |-> sessions[id], from |-> None,
           topic |-> None, size |-> 0] \in Events
      BY <3>1 DEF Events
    <3>3. out' \in Events \cup {Discarded, None}
      BY <2>6, <3>2 DEF OnStrayDisconnect, publish, TypeOK
    <3>4. sessions' \in [ClientIDs -> SessionInfo \cup {None}] /\ strays' \in SUBSET Conns
      BY <2>6 DEF OnStrayDisconnect, TypeOK, Older
    <3> QED  BY <2>6, <3>3, <3>4 DEF OnStrayDisconnect, TypeOK
  <2>7. CASE UNCHANGED vars
    BY <2>7 DEF vars, TypeOK
  <2> QED  BY <2>1, <2>2, <2>3, <2>4, <2>5, <2>6, <2>7 DEF Next
<1> QED  BY <1>1, <1>2, PTL DEF Spec

-------------------------------------------------------------------------------
\* A connection that came in, admitted or past the plugin.
LEMMA Newcomer ==
  ASSUME TypeOK, OnePerId, kick = None,
         NEW c \in Conns, NEW id \in ClientIDs, NEW user, NEW who, conns[c] = None,
         [id |-> id, user |-> user, who |-> who, took |-> Older(id) # {}] \in Connections,
         conns' = [conns EXCEPT ![c] =
                     [id |-> id, user |-> user, who |-> who, took |-> Older(id) # {}]],
         Displace(id)
  PROVE  /\ OnePerId'
         /\ kick' # None => kick' \in Conns /\ kick' # c /\ conns[kick'] # None /\ conns[kick'].id = id
         /\ \A d \in Older(id) : d = kick'
<1> DEFINE new == [id |-> id, user |-> user, who |-> who, took |-> Older(id) # {}]
<1>1. new # None /\ new.id = id /\ new.took = (Older(id) # {}) /\ new \in Connections
  BY NoneAssumption
<1>2. conns'[c] = new /\ \A d \in Conns \ {c} : conns'[d] = conns[d]
  BY DEF TypeOK
<1> HIDE DEF new
<1>3. kick' # None => kick' \in Conns /\ kick' # c /\ conns[kick'] # None /\ conns[kick'].id = id
  BY DEF Displace, Older
<1>4. \A d, e \in Older(id) : d = e
  BY RuntimeAssumption DEF OnePerId, Older
<1>5. \A d \in Older(id) : d = kick'
  BY <1>4 DEF Displace
<1>6. ASSUME NEW d \in Conns, NEW e \in Conns, d # e, conns'[d] # None, conns'[e] # None,
             conns'[d].id = conns'[e].id
      PROVE  kick' \in {d, e} /\ (e # kick' => conns'[e].took)
  <2>1. CASE d = c
    <3>1. e \in Older(id)
      BY <1>1, <1>2, <1>6, <2>1 DEF Older
    <3> QED  BY <3>1, <1>5
  <2>2. CASE e = c
    <3>1. d \in Older(id)
      BY <1>1, <1>2, <1>6, <2>2 DEF Older
    <3> QED  BY <3>1, <1>1, <1>2, <1>5, <2>2
  <2>3. CASE d # c /\ e # c
    <3>1. conns'[d] = conns[d] /\ conns'[e] = conns[e]
      BY <1>2, <2>3
    <3> QED  BY <3>1, <1>6, RuntimeAssumption DEF OnePerId
  <2> QED  BY <2>1, <2>2, <2>3
<1>7. kick' # None => conns'[kick'] # None
  BY <1>2, <1>3
<1>8. OnePerId'
  BY <1>6, <1>7 DEF OnePerId
<1> QED  BY <1>3, <1>5, <1>8

\* OnePerId, UserIsAsset and SessionInv are preserved together.
LEMMA SessionStep ==
  ASSUME TypeOK, TypeOK', OnePerId, UserIsAsset, SessionInv, [Next]_vars
  PROVE  OnePerId' /\ UserIsAsset' /\ SessionInv'
<1>1. ASSUME NEW c \in Conns, NEW id \in ClientIDs, NEW cred \in Credentials,
             NEW ans \in Answers, Admit(c, id, cred, ans)
      PROVE  OnePerId' /\ UserIsAsset' /\ SessionInv'
  <2> DEFINE who == [org |-> ans.entry.org, asset |-> Username(cred)]
             new == [id |-> id, user |-> cred.user, who |-> who, took |-> Older(id) # {}]
  <2>1. /\ conns[c] = None /\ kick = None /\ conns' = [conns EXCEPT ![c] = new] /\ Displace(id)
        /\ sessions' = [sessions EXCEPT ![id] = who]
    BY <1>1 DEF Admit, rememberSession
  <2>2. who # None /\ cred.user \in {Empty, who.asset} /\ who \in SessionInfo
    BY <1>1, GrantType DEF Admit
  <2>3. conns'[c] = new /\ \A d \in Conns \ {c} : conns'[d] = conns[d]
    BY <2>1 DEF TypeOK
  <2>4. new \in Connections
    BY <2>2 DEF Connections, Credentials
  <2>5. /\ OnePerId'
        /\ kick' # None => kick' \in Conns /\ kick' # c /\ conns[kick'] # None /\ conns[kick'].id = id
    BY <2>1, <2>4, Newcomer
  <2>6. new # None /\ new.id = id /\ new.who = who /\ new.user = cred.user
    BY <2>4, NoneAssumption
  <2>7. sessions'[id] = who /\ \A i \in ClientIDs \ {id} : sessions'[i] = sessions[i]
    BY <2>1 DEF TypeOK
  <2> HIDE DEF who, new
  <2>8. UserIsAsset'
    BY <2>2, <2>3, <2>6 DEF UserIsAsset, Device
  <2>9. SessionInv'
    <3> SUFFICES ASSUME NEW i \in ClientIDs, sessions'[i] # None,
                        kick' # None => conns'[kick'].id # i
                 PROVE  \E d \in Conns : /\ conns'[d] # None /\ conns'[d].who # None
                                         /\ conns'[d].id = i /\ conns'[d].who = sessions'[i]
      BY DEF SessionInv, Device
    <3>1. CASE i = id
      BY <2>2, <2>3, <2>6, <2>7, <3>1
    <3>2. CASE i # id
      <4>1. PICK d \in Conns : Device(d) /\ conns[d].id = i /\ conns[d].who = sessions[i]
        BY <2>1, <2>7, <3>2 DEF SessionInv
      <4> QED  BY <2>1, <2>3, <2>7, <3>2, <4>1 DEF Device
    <3> QED  BY <3>1, <3>2
  <2> QED  BY <2>5, <2>8, <2>9
<1>2. ASSUME NEW c \in Conns, NEW id \in ClientIDs, ServiceConnect(c, id)
      PROVE  OnePerId' /\ UserIsAsset' /\ SessionInv'
  <2> DEFINE new == [id |-> id, user |-> Service, who |-> None, took |-> Older(id) # {}]
  <2>1. /\ conns[c] = None /\ kick = None /\ conns' = [conns EXCEPT ![c] = new] /\ Displace(id)
        /\ sessions' = sessions
    BY <1>2 DEF ServiceConnect
  <2>2. new \in Connections /\ new.who = None
    BY DEF Connections
  <2>3. conns'[c] = new /\ \A d \in Conns \ {c} : conns'[d] = conns[d]
    BY <2>1 DEF TypeOK
  <2>4. OnePerId'
    BY <2>1, <2>2, Newcomer
  <2> HIDE DEF new
  <2>5. UserIsAsset'
    BY <2>2, <2>3 DEF UserIsAsset, Device
  <2>6. SessionInv'
    <3> SUFFICES ASSUME NEW i \in ClientIDs, sessions'[i] # None,
                        kick' # None => conns'[kick'].id # i
                 PROVE  \E d \in Conns : /\ conns'[d] # None /\ conns'[d].who # None
                                         /\ conns'[d].id = i /\ conns'[d].who = sessions'[i]
      BY DEF SessionInv, Device
    <3>1. PICK d \in Conns : Device(d) /\ conns[d].id = i /\ conns[d].who = sessions[i]
      BY <2>1 DEF SessionInv
    <3> QED  BY <2>1, <2>3, <3>1 DEF Device
  <2> QED  BY <2>4, <2>5, <2>6
<1>3. ASSUME NEW c \in Conns, OnDisconnect(c)
      PROVE  OnePerId' /\ UserIsAsset' /\ SessionInv'
  <2>1. /\ conns[c] # None /\ kick \in {None, c} /\ kick' = None
        /\ conns' = [conns EXCEPT ![c] = None]
        /\ sessions' = [sessions EXCEPT ![conns[c].id] = None]
    BY <1>3 DEF OnDisconnect
  <2>2. conns'[c] = None /\ \A d \in Conns \ {c} : conns'[d] = conns[d]
    BY <2>1 DEF TypeOK
  <2>3. conns[c].id \in ClientIDs
    BY <2>1 DEF TypeOK, Connections
  <2>4. sessions'[conns[c].id] = None /\ \A i \in ClientIDs \ {conns[c].id} : sessions'[i] = sessions[i]
    BY <2>1, <2>3 DEF TypeOK
  <2>5. OnePerId'
    BY <2>1, <2>2, RuntimeAssumption DEF OnePerId
  <2>6. UserIsAsset'
    BY <2>2 DEF UserIsAsset, Device
  <2>7. SessionInv'
    <3> SUFFICES ASSUME NEW i \in ClientIDs, sessions'[i] # None
                 PROVE  \E d \in Conns : /\ conns'[d] # None /\ conns'[d].who # None
                                         /\ conns'[d].id = i /\ conns'[d].who = sessions'[i]
      BY DEF SessionInv, Device
    <3>1. i # conns[c].id /\ sessions'[i] = sessions[i]
      BY <2>4
    <3>2. PICK d \in Conns : Device(d) /\ conns[d].id = i /\ conns[d].who = sessions[i]
      BY <2>1, <3>1 DEF SessionInv
    <3> QED  BY <2>2, <3>1, <3>2 DEF Device
  <2> QED  BY <2>5, <2>6, <2>7
<1>4. ASSUME UNCHANGED <<sessions, conns, kick>>
      PROVE  OnePerId' /\ UserIsAsset' /\ SessionInv'
  BY <1>4 DEF OnePerId, UserIsAsset, SessionInv, Device
<1>5. ASSUME NEW id \in ClientIDs, OnStrayDisconnect(id)
      PROVE  OnePerId' /\ UserIsAsset' /\ SessionInv'
  <2>1. UNCHANGED <<conns, kick>> /\ sessions' = [sessions EXCEPT ![id] = None]
    BY <1>5 DEF OnStrayDisconnect
  <2>2. sessions'[id] = None /\ \A i \in ClientIDs \ {id} : sessions'[i] = sessions[i]
    BY <2>1 DEF TypeOK
  <2>3. OnePerId' /\ UserIsAsset'
    BY <2>1 DEF OnePerId, UserIsAsset, Device
  <2>4. SessionInv'
    BY <2>1, <2>2 DEF SessionInv, Device
  <2> QED  BY <2>3, <2>4
<1> QED
  BY <1>1, <1>2, <1>3, <1>4, <1>5 DEF Next, Refuse, OnMessage, vars

\* Every reachable state satisfies the three parts.
THEOREM SessionInvariant == Spec => [](OnePerId /\ UserIsAsset /\ SessionInv)
<1>1. Init => OnePerId /\ UserIsAsset /\ SessionInv
  BY DEF Init, OnePerId, UserIsAsset, SessionInv, Device
<1>2. TypeOK /\ TypeOK' /\ (OnePerId /\ UserIsAsset /\ SessionInv) /\ [Next]_vars
        => (OnePerId /\ UserIsAsset /\ SessionInv)'
  BY SessionStep
<1> QED  BY <1>1, <1>2, TypeCorrect, PTL DEF Spec

\* goOnDisconnect and rememberSession keep the map honest: a session belongs to
\* a live device connection and names the identity it was admitted with.
THEOREM SessionsSound == Spec => []SessionHasConnection
<1>1. SessionInv => SessionHasConnection
  BY DEF SessionInv, SessionHasConnection
<1> QED  BY <1>1, SessionInvariant, PTL

-------------------------------------------------------------------------------
\* A message that passes the ACL, under a client id that has a session, comes
\* from the device the session is about.
LEMMA SenderIsSession ==
  ASSUME TypeOK, OnePerId, UserIsAsset, SessionInv, kick = None,
         NEW c \in Conns, NEW topic \in Topics, conns[c] # None,
         CheckACL(conns[c].user, topic, "write"), sessions[conns[c].id] # None
  PROVE  /\ conns[c].who = sessions[conns[c].id]
         /\ topic = [prefix |-> "events", asset |-> conns[c].who.asset]
<1>1. conns[c].id \in ClientIDs
  BY DEF TypeOK, Connections
<1>2. PICK d \in Conns : /\ Device(d) /\ conns[d].id = conns[c].id
                         /\ conns[d].who = sessions[conns[c].id]
  BY <1>1 DEF SessionInv
<1>3. d = c
  BY <1>2, RuntimeAssumption DEF OnePerId, Device
<1>4. conns[c].user # Empty /\ topic.asset = conns[c].user /\ topic.prefix = "events"
  BY DEF CheckACL, ResolveUsername
<1>5. conns[c].user = conns[c].who.asset
  BY <1>2, <1>3, <1>4 DEF UserIsAsset
<1> QED  BY <1>2, <1>3, <1>4, <1>5 DEF Topics

\* goOnAclCheck judges the username, goOnMessage forwards the session: every
\* ingress event names its true sender and that asset's own topic.
THEOREM IngressSound == Spec => []IngressIsTheSenders
<1>1. Init => IngressIsTheSenders
  BY DEF Init, IngressIsTheSenders
<1>2. TypeOK /\ TypeOK' /\ (OnePerId /\ UserIsAsset /\ SessionInv) /\ IngressIsTheSenders /\ [Next]_vars
        => IngressIsTheSenders'
  <2> SUFFICES ASSUME TypeOK, OnePerId, UserIsAsset, SessionInv, IngressIsTheSenders, [Next]_vars
               PROVE  IngressIsTheSenders'
    OBVIOUS
  <2>1. ASSUME NEW c \in Conns, NEW topic \in Topics, NEW size \in PayloadSizes,
               OnMessage(c, topic, size)
        PROVE  IngressIsTheSenders'
    <3> DEFINE info == sessions[conns[c].id]
               event(rest) == [kind |-> "ingress", info |-> info, from |-> conns[c].who,
                               topic |-> topic, size |-> MarshalledSize(size, rest)]
    <3>1. CASE out' \in {out, Discarded}
      BY <3>1 DEF IngressIsTheSenders, Discarded
    <3>2. ASSUME NEW rest \in EnvelopeSizes, info # None, out' = event(rest)
          PROVE  IngressIsTheSenders'
      <4>1. info = conns[c].who /\ topic = [prefix |-> "events", asset |-> conns[c].who.asset]
        BY <2>1, <3>2, SenderIsSession DEF OnMessage
      <4> QED  BY <3>2, <4>1 DEF IngressIsTheSenders
    <3> QED  BY <2>1, <3>1, <3>2 DEF OnMessage, PublishIngress, publish
  <2>2. ASSUME NEW c \in Conns, NEW id \in ClientIDs, NEW cred \in Credentials,
               NEW ans \in Answers, Admit(c, id, cred, ans)
        PROVE  IngressIsTheSenders'
    <3>1. \/ out' \in {out, Discarded}
          \/ \E i, f : out' = [kind |-> "connect", info |-> i, from |-> f, topic |-> None, size |-> 0]
      BY <2>2 DEF Admit, publish
    <3> QED  BY <3>1 DEF IngressIsTheSenders, Discarded
  <2>3. ASSUME NEW c \in Conns, OnDisconnect(c)
        PROVE  IngressIsTheSenders'
    <3>1. out' \in {out, Discarded} \/ out'.kind = "disconnect"
      BY <2>3 DEF OnDisconnect, publish
    <3> QED  BY <3>1 DEF IngressIsTheSenders, Discarded
  <2>4. ASSUME NEW id \in ClientIDs, OnStrayDisconnect(id)
        PROVE  IngressIsTheSenders'
    <3>1. out' \in {out, Discarded} \/ out'.kind = "disconnect"
      BY <2>4 DEF OnStrayDisconnect, publish
    <3> QED  BY <3>1 DEF IngressIsTheSenders, Discarded
  <2>5. CASE out' = out
    BY <2>5 DEF IngressIsTheSenders
  <2> QED
    BY <2>1, <2>2, <2>3, <2>4, <2>5 DEF Next, Refuse, ServiceConnect, vars
<1> QED  BY <1>1, <1>2, TypeCorrect, SessionInvariant, PTL DEF Spec

-------------------------------------------------------------------------------
\* goOnDisconnect forgets the session of a client id, whoever holds it now: the
\* only devices left without theirs are the ones that took a client id over, and
\* the ones whose client id a refused connection had asked for.
THEOREM SessionLoss == Spec => []SessionLostToSameClientID
<1>1. Init => SessionLostToSameClientID
  BY DEF Init, SessionLostToSameClientID, Device
<1>2. TypeOK /\ TypeOK' /\ (OnePerId /\ UserIsAsset /\ SessionInv) /\ SessionLostToSameClientID
        /\ [Next]_vars => SessionLostToSameClientID'
  <2> SUFFICES ASSUME TypeOK, OnePerId, SessionLostToSameClientID, [Next]_vars
               PROVE  SessionLostToSameClientID'
    OBVIOUS
  <2>1. ASSUME NEW c \in Conns, NEW id \in ClientIDs, NEW cred \in Credentials,
               NEW ans \in Answers, Admit(c, id, cred, ans)
        PROVE  SessionLostToSameClientID'
    <3> DEFINE who == [org |-> ans.entry.org, asset |-> Username(cred)]
               new == [id |-> id, user |-> cred.user, who |-> who, took |-> Older(id) # {}]
    <3>1. /\ conns[c] = None /\ kick = None /\ conns' = [conns EXCEPT ![c] = new] /\ Displace(id)
          /\ sessions' = [sessions EXCEPT ![id] = who] /\ strays' = strays
      BY <2>1 DEF Admit, rememberSession
    <3>2. who \in SessionInfo /\ new \in Connections
      BY <2>1, GrantType DEF Admit, Connections, Credentials
    <3>3. \A d \in Older(id) : d = kick'
      BY <3>1, <3>2, Newcomer
    <3>4. conns'[c] = new /\ \A d \in Conns \ {c} : conns'[d] = conns[d]
      BY <3>1 DEF TypeOK
    <3>5. sessions'[id] = who /\ \A i \in ClientIDs \ {id} : sessions'[i] = sessions[i]
      BY <3>1 DEF TypeOK
    <3>6. new.id = id /\ new.who = who
      OBVIOUS
    <3> HIDE DEF who, new
    <3> SUFFICES ASSUME NEW d \in Conns, conns'[d] # None, conns'[d].who # None,
                        sessions'[conns'[d].id] # conns'[d].who
                 PROVE  \/ conns'[d].took \/ kick' = d
                        \/ d \in strays' /\ conns'[d].id \in StrayIDs
      BY DEF SessionLostToSameClientID, Device
    <3>7. d # c /\ conns'[d] = conns[d]
      BY <3>4, <3>5, <3>6
    <3>8. CASE conns[d].id = id
      BY <3>3, <3>7, <3>8 DEF Older
    <3>9. CASE conns[d].id # id
      <4>1. conns[d].id \in ClientIDs
        BY <3>7 DEF TypeOK, Connections
      <4>2. sessions'[conns[d].id] = sessions[conns[d].id]
        BY <3>5, <3>9, <4>1
      <4> QED  BY <3>1, <3>7, <4>2, RuntimeAssumption
                  DEF SessionLostToSameClientID, Device
    <3> QED  BY <3>8, <3>9
  <2>2. ASSUME NEW c \in Conns, NEW id \in ClientIDs, ServiceConnect(c, id)
        PROVE  SessionLostToSameClientID'
    <3>1. /\ kick = None /\ sessions' = sessions /\ conns'[c].who = None /\ strays' = strays
          /\ \A d \in Conns \ {c} : conns'[d] = conns[d]
      BY <2>2 DEF ServiceConnect, TypeOK
    <3> QED  BY <3>1, RuntimeAssumption DEF SessionLostToSameClientID, Device
  <2>3. ASSUME NEW c \in Conns, OnDisconnect(c)
        PROVE  SessionLostToSameClientID'
    <3>1. /\ conns[c] # None /\ kick \in {None, c} /\ kick' = None /\ strays' = strays \ {c}
          /\ conns'[c] = None /\ \A d \in Conns \ {c} : conns'[d] = conns[d]
      BY <2>3 DEF OnDisconnect, TypeOK
    <3>2. \A i \in ClientIDs \ {conns[c].id} : sessions'[i] = sessions[i]
      BY <2>3 DEF OnDisconnect, TypeOK
    <3> SUFFICES ASSUME NEW d \in Conns, conns'[d] # None, conns'[d].who # None,
                        sessions'[conns'[d].id] # conns'[d].who
                 PROVE  conns'[d].took \/ (d \in strays' /\ conns'[d].id \in StrayIDs)
      BY DEF SessionLostToSameClientID, Device
    <3>3. d # c /\ conns'[d] = conns[d]
      BY <3>1
    <3>4. CASE conns[d].id = conns[c].id
      BY <3>1, <3>3, <3>4, RuntimeAssumption DEF OnePerId
    <3>5. CASE conns[d].id # conns[c].id
      <4>1. conns[d].id \in ClientIDs
        BY <3>3 DEF TypeOK, Connections
      <4>2. sessions'[conns[d].id] = sessions[conns[d].id]
        BY <3>2, <3>5, <4>1
      <4> QED  BY <3>1, <3>2, <3>3, <4>2, RuntimeAssumption
                  DEF SessionLostToSameClientID, Device
    <3> QED  BY <3>4, <3>5
  <2>4. ASSUME NEW id \in ClientIDs, OnStrayDisconnect(id)
        PROVE  SessionLostToSameClientID'
    <3>1. /\ UNCHANGED <<conns, kick>> /\ strays' = strays \cup Older(id) /\ id \in StrayIDs
          /\ \A i \in ClientIDs \ {id} : sessions'[i] = sessions[i]
      BY <2>4 DEF OnStrayDisconnect, TypeOK
    <3> SUFFICES ASSUME NEW d \in Conns, Device(d), sessions'[conns[d].id] # conns[d].who
                 PROVE  \/ conns[d].took \/ kick = d
                        \/ d \in strays' /\ conns[d].id \in StrayIDs
      BY <3>1 DEF SessionLostToSameClientID, Device
    <3>2. CASE conns[d].id = id
      BY <3>1, <3>2 DEF Older, Device
    <3>3. CASE conns[d].id # id
      <4>1. conns[d].id \in ClientIDs
        BY DEF Device, TypeOK, Connections
      <4> QED  BY <3>1, <3>3, <4>1 DEF SessionLostToSameClientID
    <3> QED  BY <3>2, <3>3
  <2>5. CASE UNCHANGED <<sessions, conns, kick, strays>>
    BY <2>5 DEF SessionLostToSameClientID, Device
  <2> QED
    BY <2>1, <2>2, <2>3, <2>4, <2>5 DEF Next, Refuse, OnMessage, vars
<1> QED  BY <1>1, <1>2, TypeCorrect, SessionInvariant, PTL DEF Spec

\* Authenticate admits a CONNECT only by the credential the asset's auth type
\* asks for, and a password only without a certificate beside it (a certificate
\* with whatever password is beside it).
THEOREM AdmissionSound == Spec => []AdmittedByTheRightCredential
<1>1. Init => AdmittedByTheRightCredential
  BY DEF Init, AdmittedByTheRightCredential
<1>2. ASSUME NEW cred \in Credentials, NEW ans \in Answers,
             Authenticate(Username(cred), cred, ans) = "allow"
      PROVE  LET g == Grounds(cred, ans.entry) IN
             /\ g.enabled /\ g.type # "unset" /\ g.type \in g.right
             /\ g.type = "password" => "cert" \notin g.shown
  <2>1. \/ /\ ans.entry.type = "cert"
           /\ AuthorizesCertSerial(ans.entry, CertSerial(cred))
        \/ /\ ans.entry.type = "password" /\ CertSerial(cred) = None
           /\ AuthorizesPassword(ans.entry)
           /\ CompareLocal(ans.entry.secret, cred.password)
    <3>1. ResolveUsername(Username(cred)) /\ ans.kind = "entry"
      BY <1>2, GrantType DEF Authenticate
    <3> QED  BY <1>2, <3>1 DEF Authenticate
  <2>2. CASE ans.entry.type = "cert"
    <3>1. /\ ans.entry.enabled /\ CertSerial(cred) # None
          /\ ans.entry.secret = CertSerial(cred)
      BY <2>1, <2>2 DEF AuthorizesCertSerial
    <3> QED  BY <2>2, <3>1 DEF Grounds
  <2>3. CASE ans.entry.type = "password"
    <3>1. /\ ans.entry.enabled /\ CertSerial(cred) = None /\ cred.password # None
          /\ ans.entry.secret = cred.password
      BY <2>1, <2>3 DEF AuthorizesPassword, CompareLocal
    <3> QED  BY <2>3, <3>1 DEF Grounds
  <2> QED  BY <2>1, <2>2, <2>3
<1>3. AdmittedByTheRightCredential /\ [Next]_vars => AdmittedByTheRightCredential'
  <2> SUFFICES ASSUME AdmittedByTheRightCredential, [Next]_vars
               PROVE  AdmittedByTheRightCredential'
    OBVIOUS
  <2>1. ASSUME NEW c \in Conns, NEW id \in ClientIDs, NEW cred \in Credentials,
               NEW ans \in Answers, Admit(c, id, cred, ans)
        PROVE  AdmittedByTheRightCredential'
    BY <1>2, <2>1 DEF Admit, AdmittedByTheRightCredential
  <2>2. ASSUME NEW cred \in Credentials, NEW ans \in Answers, Refuse(cred, ans)
        PROVE  AdmittedByTheRightCredential'
    BY <2>2 DEF Refuse, AdmittedByTheRightCredential
  <2>3. CASE verdict' = verdict
    BY <2>3 DEF AdmittedByTheRightCredential
  <2> QED
    BY <2>1, <2>2, <2>3 DEF Next, ServiceConnect, OnDisconnect, OnStrayDisconnect, OnMessage, vars
<1> QED  BY <1>1, <1>3, PTL DEF Spec

\* goOnBasicAuth and goOnAclCheck agree on who a device is: it reaches the event
\* topic of the asset it was admitted as, or none if it gave no username.
THEOREM ReachSound == Spec => []DevicesReachTheirOwnTopic
<1>1. TypeOK /\ UserIsAsset => DevicesReachTheirOwnTopic
  <2> SUFFICES ASSUME TypeOK, UserIsAsset, NEW c \in Conns, NEW t \in Topics, Device(c)
               PROVE  CheckACL(conns[c].user, t, "write") <=>
                        conns[c].user # Empty /\ t = [prefix |-> "events", asset |-> conns[c].who.asset]
    BY DEF DevicesReachTheirOwnTopic
  <2>1. conns[c].who.asset \in Assets /\ conns[c].user \in {Empty, conns[c].who.asset}
    BY DEF Device, TypeOK, Connections, SessionInfo, UserIsAsset
  <2>2. conns[c].who.asset \notin {Empty, Scoped}
    BY <2>1, RuntimeAssumption
  <2>3. t = [prefix |-> "events", asset |-> conns[c].who.asset] <=>
          t.prefix = "events" /\ t.asset = conns[c].who.asset
    BY DEF Topics
  <2>4. CheckACL(conns[c].user, t, "write") <=>
          conns[c].user \notin {Empty, Scoped} /\ t.asset = conns[c].user /\ t.prefix = "events"
    BY DEF CheckACL, ResolveUsername
  <2> QED  BY <2>1, <2>2, <2>3, <2>4
<1> QED  BY <1>1, TypeCorrect, SessionInvariant, PTL

===============================================================================
