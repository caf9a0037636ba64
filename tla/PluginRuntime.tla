----------------------------- MODULE PluginRuntime -----------------------------
(***************************************************************************)
(* The callbacks of the plugin (plugin/main.go) over the runtime's session *)
(* map (plugin.go), the auth decision (plugin.go, auth_entry.go) and the   *)
(* ACL (acl.go).  Mosquitto is external: one broker thread runs the        *)
(* callbacks one at a time; a CONNECT is authenticated first, and when it  *)
(* is admitted under a client id in use, the broker ends the older         *)
(* connection before it does anything else.  Service accounts connect past *)
(* the plugin's authentication.  A connection that was never admitted may  *)
(* be reported gone too, under the client id it asked for.  The auth store *)
(* may give any answer, the publisher may refuse any event.                *)
(***************************************************************************)
EXTENDS Naturals

CONSTANTS Conns, ClientIDs, Assets, Orgs,
          Secrets,     \* passwords and certificate serials
          StrayIDs,    \* client ids of refused CONNECTs whose end is reported
          PayloadSizes, \* of the messages devices send, in bytes
          EnvelopeSizes, \* of an ingress envelope without its payload, in bytes
          ValidTokens, \* orgs and assets that are legal NATS subject tokens
          Empty,       \* the empty username
          Scoped,      \* a username holding a colon
          Service,     \* the username of a service account
          None

ASSUME RuntimeAssumption ==
  /\ ValidTokens \subseteq Orgs \cup Assets /\ StrayIDs \subseteq ClientIDs
  /\ PayloadSizes \subseteq Nat /\ EnvelopeSizes \subseteq Nat
  /\ Empty \notin Assets /\ Scoped \notin Assets /\ Service \notin Assets
  /\ None \notin Secrets /\ None \notin Conns /\ Empty # Service /\ Scoped # Service

VARIABLES
  sessions, \* per client id, the SessionInfo or None
  conns,    \* Mosquitto's connections: per slot a Connection or None
  kick,     \* the connection a takeover is about to end, or None
  verdict,  \* history: the last CONNECT's result and, if admitted, its grounds
  out,      \* history: the last event handed to the publisher, or Discarded
  strays    \* history: connections whose session the end of a refused one took

vars == <<sessions, conns, kick, verdict, out, strays>>

Entries == [enabled : BOOLEAN, org : Orgs, type : {"password", "cert", "unset"},
            secret : Secrets \cup {None}]
Answers == [kind : {"entry"}, entry : Entries] \cup
           [kind : {"notfound", "unavailable"}, entry : {None}]
\* A certificate's CN, issued by the assets service, is described as the bare
\* asset id (main.go:112) and as "{orgId}:{assetUUID}" (main.go:302).
Certificates == [serial : Secrets, cn : Assets \cup {Scoped}]
Credentials == [user : Assets \cup {Empty, Scoped}, password : Secrets \cup {None},
                cert : Certificates \cup {None}]
SessionInfo == [org : Orgs, asset : Assets]

\* A connection: its client id and MQTT username and, as history, the identity
\* it was admitted with and whether it took over another.
Connections == [id : ClientIDs, user : Assets \cup {Empty, Scoped, Service},
                who : SessionInfo \cup {None}, took : BOOLEAN]
Topics == [prefix : {"events", "commands", "other"}, asset : Assets \cup {Service}]
Events == [kind : {"connect", "disconnect", "ingress"}, info : SessionInfo,
           from : SessionInfo \cup {None}, topic : Topics \cup {None},
           size : Nat]
\* The runtime itself counts an event as dropped: Enqueue never sees it.
Discarded == [kind |-> "discarded", size |-> 0]

\* None stands for a missing pointer or map entry.
ASSUME NoneAssumption ==
  /\ None \notin SessionInfo /\ None \notin Connections /\ None \notin Events
  /\ None \notin Certificates

Init == /\ sessions = [i \in ClientIDs |-> None]
        /\ conns = [c \in Conns |-> None] /\ kick = None
        /\ verdict = [res |-> "none", grounds |-> None]
        /\ out = None /\ strays = {}

-------------------------------------------------------------------------------
\* parseUsername: the bare asset id; empty or with a colon is malformed.
ResolveUsername(u) == u \notin {Empty, Scoped}

\* mutant: the certificate's name comes before the username
MutUsername(cred) == IF cred.cert # None THEN cred.cert.cn ELSE cred.user

\* get_cert_serial_hex; and get_cert_cn, used when no username is given.
CertSerial(cred) == IF cred.cert = None THEN None ELSE cred.cert.serial
Username(cred) == IF cred.user = Empty /\ cred.cert # None THEN cred.cert.cn ELSE cred.user

AuthorizesPassword(e) == e.enabled /\ e.type = "password" /\ e.secret # None
AuthorizesCertSerial(e, serial) ==
  serial # None /\ e.enabled /\ e.type = "cert" /\ e.secret = serial
CompareLocal(hash, password) == hash # None /\ password # None /\ hash = password

\* mutant: a password asset also admits clients that show a certificate
MutAuthenticate(u, cred, ans) ==
  CASE ~ResolveUsername(u) -> "deny"
    [] ResolveUsername(u) /\ ans.kind = "notfound" -> "deny"
    [] ResolveUsername(u) /\ ans.kind = "unavailable" -> "error"
    [] ResolveUsername(u) /\ ans.kind = "entry" ->
         IF \/ AuthorizesCertSerial(ans.entry, CertSerial(cred))
            \/ AuthorizesPassword(ans.entry) /\ CompareLocal(ans.entry.secret, cred.password)
           THEN "allow" ELSE "deny"

\* Authenticate's decision on the credentials and the store's answer.
Authenticate(u, cred, ans) ==
  CASE ~ResolveUsername(u) -> "deny"
    [] ResolveUsername(u) /\ ans.kind = "notfound" -> "deny"
    [] ResolveUsername(u) /\ ans.kind = "unavailable" -> "error"
    [] ResolveUsername(u) /\ ans.kind = "entry" ->
         IF \/ /\ ans.entry.type = "cert"
               /\ AuthorizesCertSerial(ans.entry, CertSerial(cred))
            \/ /\ ans.entry.type = "password" /\ CertSerial(cred) = None
               /\ AuthorizesPassword(ans.entry)
               /\ CompareLocal(ans.entry.secret, cred.password)
           THEN "allow" ELSE "deny"

\* History: which credentials a CONNECT showed, and which are the asset's.
Grounds(cred, e) ==
  LET value(k) == IF k = "cert" THEN CertSerial(cred) ELSE cred.password
      shown == {k \in {"password", "cert"} : value(k) # None} IN
  [enabled |-> e.enabled, type |-> e.type, shown |-> shown,
   right |-> {k \in shown : value(k) = e.secret}]

\* mutant: the organisation is taken from the wire, which carries none
MutRememberSession(id, org, a) == sessions' = [sessions EXCEPT ![id] = [org |-> None, asset |-> a]]
\* mutant: no session for an identity NATS could not route
MutRememberValid(id, org, a) ==
  sessions' = IF {org, a} \subseteq ValidTokens
                THEN [sessions EXCEPT ![id] = [org |-> org, asset |-> a]] ELSE sessions

rememberSession(id, org, a) == sessions' = [sessions EXCEPT ![id] = [org |-> org, asset |-> a]]

\* An event that cannot be marshalled is discarded; Enqueue takes the others or
\* refuses them.
publish(e) == out' \in {e, Discarded, out}

Older(id) == {c \in Conns : conns[c] # None /\ conns[c].id = id}
\* Mosquitto's takeover: at most one older connection holds the client id.
Displace(id) == kick' \in Older(id) \/ (Older(id) = {} /\ kick' = None)

-------------------------------------------------------------------------------
\* goOnBasicAuth, admitting the client: the session is stored, then looked up
\* for the connect advisory.
Admit(c, id, cred, ans) ==
  LET u == Username(cred) IN
  /\ conns[c] = None /\ kick = None /\ Authenticate(u, cred, ans) = "allow"
  /\ rememberSession(id, ans.entry.org, u)
  /\ sessions'[id] # None =>
       publish([kind |-> "connect", info |-> sessions'[id],
                from |-> [org |-> ans.entry.org, asset |-> u], topic |-> None, size |-> 0])
  /\ sessions'[id] = None => out' = out
  /\ conns' = [conns EXCEPT ![c] =
       [id |-> id, user |-> cred.user, who |-> [org |-> ans.entry.org, asset |-> u],
        took |-> Older(id) # {}]]
  /\ Displace(id)
  /\ verdict' = [res |-> "allow", grounds |-> Grounds(cred, ans.entry)]
  /\ UNCHANGED strays

\* goOnBasicAuth, refusing it.
Refuse(cred, ans) ==
  /\ kick = None /\ Authenticate(Username(cred), cred, ans) # "allow"
  /\ verdict' = [res |-> Authenticate(Username(cred), cred, ans),
                 grounds |-> None]
  /\ UNCHANGED <<sessions, conns, kick, out, strays>>

\* A service account connects past the plugin's authentication.
ServiceConnect(c, id) ==
  /\ conns[c] = None /\ kick = None
  /\ conns' = [conns EXCEPT ![c] =
       [id |-> id, user |-> Service, who |-> None, took |-> Older(id) # {}]]
  /\ Displace(id)
  /\ UNCHANGED <<sessions, verdict, out, strays>>

\* mutant: the session is left behind
MutOnDisconnect(c) ==
  LET info == sessions[conns[c].id] IN
  /\ conns[c] # None /\ kick \in {None, c}
  /\ info # None => publish([kind |-> "disconnect", info |-> info,
                             from |-> conns[c].who, topic |-> None, size |-> 0])
  /\ info = None => out' = out
  /\ conns' = [conns EXCEPT ![c] = None] /\ kick' = None /\ strays' = strays \ {c}
  /\ UNCHANGED <<sessions, verdict>>

\* goOnDisconnect, for a connection that ends by itself or is taken over:
\* whatever session its client id has is announced gone and forgotten.
OnDisconnect(c) ==
  LET id == conns[c].id IN
  /\ conns[c] # None /\ kick \in {None, c}
  /\ sessions[id] # None => publish([kind |-> "disconnect", info |-> sessions[id],
                                     from |-> conns[c].who, topic |-> None, size |-> 0])
  /\ sessions[id] = None => out' = out
  /\ sessions' = [sessions EXCEPT ![id] = None]
  /\ conns' = [conns EXCEPT ![c] = None] /\ kick' = None /\ strays' = strays \ {c}
  /\ UNCHANGED verdict

\* goOnDisconnect, for a connection that was never admitted: it does not ask, and
\* ends the session of whoever is connected under that client id.
OnStrayDisconnect(id) ==
  /\ kick = None /\ id \in StrayIDs /\ sessions[id] # None
  /\ publish([kind |-> "disconnect", info |-> sessions[id], from |-> None,
              topic |-> None, size |-> 0])
  /\ sessions' = [sessions EXCEPT ![id] = None]
  /\ strays' = strays \cup Older(id)
  /\ UNCHANGED <<conns, kick, verdict>>

-------------------------------------------------------------------------------
\* mutant: the topic's asset is not compared with the username
MutCheckACL(u, topic, access) ==
  /\ ResolveUsername(u)
  /\ \/ topic.prefix = "events" /\ access = "write"
     \/ topic.prefix = "commands" /\ access \in {"read", "subscribe"}

CheckACL(u, topic, access) ==
  /\ ResolveUsername(u) /\ topic.asset = u
  /\ \/ topic.prefix = "events" /\ access = "write"
     \/ topic.prefix = "commands" /\ access \in {"read", "subscribe"}

MaxIngressPayloadBytes == 900 * 1024
\* The limit of a NATS server left at its default.
NatsMaxPayload == 1024 * 1024
\* json.Marshal renders the payload, a []byte, in base64, among the envelope's
\* other fields.
MarshalledSize(n, rest) == rest + 4 * ((n + 2) \div 3)

\* PublishIngress discards what NATS could not route and what is too large.
PublishIngress(info, c, topic, size) ==
  IF {info.org, info.asset} \subseteq ValidTokens /\ size <= MaxIngressPayloadBytes
    THEN \E rest \in EnvelopeSizes :
           publish([kind |-> "ingress", info |-> info, from |-> conns[c].who, topic |-> topic,
                    size |-> MarshalledSize(size, rest)])
    ELSE out' = Discarded

\* goOnAclCheck lets the PUBLISH pass, then goOnMessage.
OnMessage(c, topic, size) ==
  /\ conns[c] # None /\ kick = None /\ CheckACL(conns[c].user, topic, "write")
  /\ LET info == sessions[conns[c].id] IN
       \/ info # None /\ PublishIngress(info, c, topic, size)
       \/ info = None /\ out' = out
  /\ UNCHANGED <<sessions, conns, kick, verdict, strays>>

Next ==
  \/ \E cred \in Credentials, ans \in Answers :
       \/ Refuse(cred, ans)
       \/ \E c \in Conns, id \in ClientIDs : Admit(c, id, cred, ans)
  \/ \E c \in Conns, id \in ClientIDs : ServiceConnect(c, id)
  \/ \E c \in Conns : OnDisconnect(c)
  \/ \E id \in ClientIDs : OnStrayDisconnect(id)
  \/ \E c \in Conns, topic \in Topics, size \in PayloadSizes : OnMessage(c, topic, size)

Spec == Init /\ [][Next]_vars

-------------------------------------------------------------------------------
TypeOK ==
  /\ sessions \in [ClientIDs -> SessionInfo \cup {None}]
  /\ conns \in [Conns -> Connections \cup {None}]
  /\ kick \in Conns \cup {None}
  /\ verdict \in [res : {"none", "allow", "deny", "error"},
                  grounds : [enabled : BOOLEAN, type : {"password", "cert", "unset"},
                             shown : SUBSET {"password", "cert"},
                             right : SUBSET {"password", "cert"}] \cup {None}]
  /\ out \in Events \cup {Discarded, None}
  /\ strays \in SUBSET Conns

Device(c) == conns[c] # None /\ conns[c].who # None

\* The session map never outlives nor misattributes a connection: a session
\* belongs to a live device connection under that client id and names the
\* identity this connection, not an earlier one, was admitted with (a takeover
\* in progress is completed first).
SessionHasConnection ==
  kick = None => \A id \in ClientIDs : sessions[id] # None =>
     \E c \in Conns : Device(c) /\ conns[c].id = id /\ conns[c].who = sessions[id]

\* The ACL judges the MQTT username, the envelope carries the session: they
\* agree.  An ingress event names the identity its sender was admitted with, and
\* its topic is that asset's own; a service account's message is never one.
IngressIsTheSenders ==
  out # None /\ out.kind = "ingress" =>
     out.info = out.from /\ out.topic = [prefix |-> "events", asset |-> out.info.asset]

\* goOnDisconnect looks the session up by client id alone, and the damage is
\* limited to that: a device that is still connected has lost its session only to
\* the end of a connection it took over, or of one that was refused under its
\* client id (or is itself about to be ended).
SessionLostToSameClientID ==
  \A c \in Conns : Device(c) /\ sessions[conns[c].id] # conns[c].who =>
     \/ conns[c].took \/ kick = c
     \/ c \in strays /\ conns[c].id \in StrayIDs

\* Authentication and the ACL agree on who a device is: what the ACL, which sees
\* the MQTT username, lets it publish to is the event topic of the asset it was
\* admitted as and nothing else; or nothing at all if only its certificate named
\* that asset.
DevicesReachTheirOwnTopic ==
  \A c \in Conns, t \in Topics : Device(c) =>
     (CheckACL(conns[c].user, t, "write") <=>
        conns[c].user # Empty /\ t = [prefix |-> "events", asset |-> conns[c].who.asset])

\* A CONNECT is admitted only by the one credential the asset's auth type asks
\* for, of an enabled asset that has one.  The check is not symmetric: a password
\* is refused when a certificate is beside it, a certificate is accepted whatever
\* password is beside it, right or wrong.
AdmittedByTheRightCredential ==
  verdict.res = "allow" =>
     LET g == verdict.grounds IN
     /\ g.enabled /\ g.type # "unset" /\ g.type \in g.right
     /\ g.type = "password" => "cert" \notin g.shown

\* plugin.go:12: "The default NATS server max_payload is 1 MiB; we leave headroom
\* for the JSON envelope, metadata fields, and base64 inflation."
IngressFitsNats == out # None => out.size <= NatsMaxPayload

\* plugin.go:31: "sessions tracks the trusted orgId per connected client [...]
\* Populated on AuthAllow, drained on Disconnect."
ConnectedClientHasSession ==
  kick = None => \A c \in Conns : Device(c) => sessions[conns[c].id] = conns[c].who

\* trampolines.c:113: "real-world mTLS devices can CONNECT with an empty username
\* field - the cert is the proof AND the identifier"; acl.go:37: publishing to
\* events/{assetUUID} is what a device is allowed.
AdmittedDeviceMayPublish ==
  \A c \in Conns : Device(c) =>
     CheckACL(conns[c].user, [prefix |-> "events", asset |-> conns[c].who.asset], "write")
===============================================================================
