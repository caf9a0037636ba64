------------------------------- MODULE Presence -------------------------------
(***************************************************************************)
(* Who is online, as NATS is told: the connect and disconnect callbacks of *)
(* PluginRuntime handing their advisories to the publisher, here the       *)
(* abstract queue AsyncPublisher implements, whose workers lose and        *)
(* reorder them.  An advisory is numbered in the order its timestamp is    *)
(* taken on the broker thread.  Messages in the same queue only make it    *)
(* full, so an advisory may be refused at any time.                        *)
(***************************************************************************)
EXTENDS PluginRuntime, Sequences, FiniteSets

CONSTANT MaxEvents \* bound on the advisories

VARIABLES fate, phase, \* the publisher, as a BestEffortQueue
          said,        \* history: the advisories, in timestamp order
          eclipsed,    \* history: assets announced gone since they last
                       \* connected, by the end of a connection they replaced,
                       \* of another of theirs or of a refused one
          orphaned     \* history: assets whose client id another asset took
                       \* over since they last connected

Queue == INSTANCE BestEffortQueue WITH
  Jobs <- 1 .. MaxEvents, MinBacklog <- 0, MaxBacklog <- MaxEvents

causes == <<eclipsed, orphaned>>
pvars == <<vars, fate, phase, said, causes>>

PInit == /\ Init /\ fate = [n \in 1 .. MaxEvents |-> "new"] /\ phase = "open"
         /\ said = <<>> /\ eclipsed = {} /\ orphaned = {}

\* PublishConnect, PublishDisconnect: the event the callback made is accepted
\* or refused by the publisher, or discarded before it gets there.
Announce(kind, info) ==
  LET n == Len(said) + 1 IN
  /\ n <= MaxEvents /\ said' = Append(said, [kind |-> kind, asset |-> info.asset])
  /\ \/ Queue!Accept(n) /\ out' # None /\ out'.kind = kind /\ out'.info = info
     \/ Queue!Refuse(n) /\ out' \in {out, Discarded}
Silent == UNCHANGED <<fate, phase, said>>

\* goOnBasicAuth admits a device, by its password.
Connect(c, id, a, o, s) ==
  /\ Admit(c, id, [user |-> a, password |-> s, cert |-> None],
           [kind |-> "entry", entry |-> [enabled |-> TRUE, org |-> o, type |-> "password",
                                         secret |-> s]])
  /\ sessions'[id] # None => Announce("connect", sessions'[id])
  /\ sessions'[id] = None => Silent
  /\ eclipsed' = eclipsed \ {a} /\ orphaned' = orphaned \ {a}

PServiceConnect(c, id) == ServiceConnect(c, id) /\ Silent /\ UNCHANGED causes

\* mutant: the disconnect of a connection being taken over is not announced
MutDisconnect(c) ==
  LET info == sessions[conns[c].id] IN
  /\ OnDisconnect(c)
  /\ info # None /\ kick # c => Announce("disconnect", info)
  /\ info = None \/ kick = c => Silent
  /\ UNCHANGED causes

\* goOnDisconnect.
Disconnect(c) ==
  LET info == sessions[conns[c].id] IN
  /\ OnDisconnect(c)
  /\ info # None => Announce("disconnect", info)
  /\ info = None => Silent
  /\ eclipsed' = IF info # None /\ (kick = c \/ conns[c].who = info)
                   THEN eclipsed \cup {info.asset} ELSE eclipsed
  /\ orphaned' = IF info # None /\ kick = c /\ Device(c) /\ conns[c].who.asset # info.asset
                   THEN orphaned \cup {conns[c].who.asset} ELSE orphaned

\* goOnDisconnect, called for a connection that was refused.
StrayDisconnect(id) ==
  /\ OnStrayDisconnect(id) /\ Announce("disconnect", sessions[id])
  /\ eclipsed' = eclipsed \cup {sessions[id].asset} /\ UNCHANGED orphaned

\* A worker hands advisory n to NATS, in any order, with either outcome.
Settle(n) == Queue!Settle(n) /\ UNCHANGED <<vars, said, causes>>

PNext ==
  \/ \E c \in Conns, id \in ClientIDs :
       \/ \E a \in Assets, o \in Orgs, s \in Secrets : Connect(c, id, a, o, s)
       \/ PServiceConnect(c, id)
  \/ \E c \in Conns : conns[c] # None /\ Disconnect(c)
  \/ \E id \in ClientIDs : StrayDisconnect(id)
  \/ \E n \in 1 .. MaxEvents : Settle(n)

PSpec == PInit /\ [][PNext]_pvars

-------------------------------------------------------------------------------
About(a) == {n \in DOMAIN said : said[n].asset = a}
Told(a) == {n \in About(a) : fate[n] = "published"}
Newest(N) == CHOOSE n \in N : \A k \in N : k <= n

\* What a consumer that keeps the newest advisory of each asset believes.
BelievedOnline(a) == Told(a) # {} /\ said[Newest(Told(a))].kind = "connect"
\* A newer advisory is lost, or has still to come.
Untold(a) == About(a) # {} /\ Newest(About(a)) \notin Told(a)
Online(a) == \E c \in Conns : Device(c) /\ conns[c].who.asset = a

\* In whatever order advisories arrive, a device that is connected is believed
\* offline only if a newer advisory is lost or under way, or if the end of a
\* connection other than the one it has was announced after it connected: one it
\* took over, another of the same asset, or a refused one under its client id.
\* Such an announcement is stamped after the connect it contradicts, so its
\* timestamp does not tell it apart.
OfflineNeedsACause ==
  kick = None => \A a \in Assets :
     Online(a) /\ ~BelievedOnline(a) => Untold(a) \/ a \in eclipsed

\* And one that is gone is believed online only if a newer advisory is lost or
\* under way, or its client id was taken over by another asset, whose session
\* the disconnect callback then found.
OnlineNeedsACause ==
  kick = None => \A a \in Assets :
     ~Online(a) /\ BelievedOnline(a) => Untold(a) \/ a \in orphaned

Said(a, k) == {n \in About(a) : said[n].kind = k}
Heard(a, k) == {n \in Said(a, k) : fate[n] = "published"}
Missed(a, k) == Said(a, k) \ Heard(a, k)

\* However connections end or are taken over, a disconnect is announced at most
\* once for each connect of the asset.  A consumer that counts what it hears may
\* find more connections of an asset ended than begun, but by no more than the
\* connects it missed (refused, lost or under way) over the disconnects it missed.
DisconnectsAnswerConnects ==
  \A a \in Assets :
     Cardinality(Heard(a, "disconnect")) + Cardinality(Missed(a, "disconnect"))
       <= Cardinality(Heard(a, "connect")) + Cardinality(Missed(a, "connect"))
===============================================================================
