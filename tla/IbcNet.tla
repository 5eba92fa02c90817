------------------------------- MODULE IbcNet -------------------------------
(***************************************************************************)
(* The network of chat servers: what every ftntask believes of the other   *)
(* servers, of the users that chat and of the channels they are in         *)
(* (srv_list, usr_list and chn_list of ftntask/taskibc.c), and the commands*)
(* that keep these lists equal, among them those the users of a BBS give   *)
(* through ftntask/taskchat.c.  A link between two neighbours is taken as  *)
(* module IbcLink leaves it: up or not on each side; a call is one message *)
(* and its answer another.  Every received datagram and every request of a *)
(* client is one action, since ftntask has one thread.                     *)
(***************************************************************************)
EXTENDS Integers, Sequences, SequencesExt, FiniteSets

CONSTANTS
  Server,    \* the servers
  Edge,      \* <<s, n>>: n is in the configuration of s, both ways
  User,      \* users, under their unix names
  Home,      \* [User -> Server]: the BBS they call
  Nicks,     \* [User -> nicknames]: what they may call themselves
  Channel,   \* chat channels
  Private,   \* the channels that never leave their server (#sysop)
  MaxOps,    \* bound: what the users do
  MaxStops,  \* bound: shutdowns and crashes
  CanCrash,  \* bound: ftntask may be killed
  Hasty      \* bound: it may be back before the neighbours notice

ASSUME EdgesKnown ==
  Edge \subseteq Server \X Server /\ \A s, n \in Server : <<s, n>> \in Edge => <<n, s>> \in Edge
ASSUME UsersKnown == Home \in [User -> Server] /\ Private \subseteq Channel
ASSUME FinitelyMany == IsFiniteSet(Server) /\ IsFiniteSet(User)
ASSUME BoundsKnown == {MaxOps, MaxStops} \subseteq Nat /\ {CanCrash, Hasty} \subseteq BOOLEAN

VARIABLES
  running,  \* the servers whose ftntask runs
  link,     \* [Edge -> state]: what a server believes of a neighbour
  db,       \* per server: its lists
  client,   \* per user: has a chat session, or had one that was killed
  net,      \* [Edge -> datagrams]: sent by the first to the second
  ops, stops

vars == <<running, link, db, client, net, ops, stops>>

None == "none"

\* "called" and "answered" are NCS_CONNECT with and without a token; "calling" has
\* sent PASS and SERVER; "down" is any other state.
LinkState == {"down", "calling", "called", "answered"}
IsUp(s, n) == link[<<s, n>>] \in {"called", "answered"}

Neighbours(s) == {n \in Server : <<s, n>> \in Edge}

Nick == User \union UNION {Nicks[u] : u \in User}

NickOf(u) == [cmd : {"NICK"}, user : {u}, nick : Nicks[u]]
NickMessage == UNION {NickOf(u) : u \in User}

UserMessage ==
  [cmd : {"USER"}, user : User] \union [cmd : {"QUIT"}, nick : Nick, server : Server]
    \union NickMessage
    \union [cmd : {"JOIN", "PART"}, nick : Nick, server : Server, channel : Channel]

Message ==
  [cmd : {"CALL", "ANSWER"}] \union [cmd : {"SERVER", "SQUIT"}, name : Server] \union UserMessage

\* srv_list as a function from the known servers to their routers, the server itself
\* among them; usr_list from the known users; chn_list as the count of every
\* channel, a channel without users being no entry.
EmptyDb(s) == [srv |-> [n \in {s} |-> s], usr |-> <<>>, chn |-> [c \in Channel |-> 0]]

Nobody == [nick |-> None, channel |-> None]

ListsOK(s, d) ==
  /\ d = [srv |-> d.srv, usr |-> d.usr, chn |-> d.chn]
  /\ DOMAIN d.srv \subseteq Server /\ d.srv \in [DOMAIN d.srv -> Neighbours(s) \union {s}]
  /\ DOMAIN d.usr \subseteq User
  /\ d.usr \in [DOMAIN d.usr -> [nick : Nick, channel : Channel \union {None}]]
  /\ \A u \in DOMAIN d.usr : d.usr[u].nick \in Nicks[u] \union {u}
  /\ d.chn \in [Channel -> Nat]

TypeOK ==
  /\ running \subseteq Server
  /\ link \in [Edge -> LinkState]
  /\ db = [s \in Server |-> db[s]] /\ \A s \in Server : ListsOK(s, db[s])
  /\ client \in [User -> {"no", "chat", "killed"}]
  /\ net \in [Edge -> Seq(Message)]
  /\ ops \in 0..MaxOps /\ stops \in 0..MaxStops

Init ==
  /\ running = Server
  /\ link = [e \in Edge |-> "down"]
  /\ db = [s \in Server |-> EmptyDb(s)]
  /\ client = [u \in User |-> "no"]
  /\ net = [e \in Edge |-> <<>>]
  /\ ops = 0 /\ stops = 0

(***************************************************************************)
(* The lists.                                                              *)
(***************************************************************************)
Without(f, S) == [x \in DOMAIN f \ S |-> f[x]]
With(f, new, v) == [x \in DOMAIN f \union {new} |-> IF x = new THEN v ELSE f[x]]

InChannel(d, c) == {u \in DOMAIN d.usr : d.usr[u].channel = c}

Enter(d, c) == [d EXCEPT !.chn[c] = @ + 1]

\* del_userchannel: an empty channel is deleted and cannot become emptier.
Leave(d, c) ==
  IF c # None /\ d.chn[c] > 0 THEN [d EXCEPT !.chn[c] = @ - 1] ELSE d

\* Mutant: the users leave the list and not their channels.
del_users_only(d, U) == [d EXCEPT !.usr = Without(@, U)]

\* del_user for each of the users.
Gone(d, U, c) == Cardinality(U \intersect InChannel(d, c))
del_users(d, U) ==
  [srv |-> d.srv,
   usr |-> Without(d.usr, U),
   chn |-> [c \in Channel |-> IF d.chn[c] > Gone(d, U, c) THEN d.chn[c] - Gone(d, U, c) ELSE 0]]

UsersOf(d, S) == {u \in DOMAIN d.usr : Home[u] \in S}

del_server(d, n) ==
  IF n \in DOMAIN d.srv
  THEN [del_users(d, UsersOf(d, {n})) EXCEPT !.srv = Without(@, {n})]
  ELSE d

\* Mutant: the servers behind a router are deleted, but not their users.
del_router_only(d, n) ==
  [d EXCEPT !.srv = Without(@, {x \in DOMAIN d.srv : d.srv[x] = n})]

del_router(d, n) ==
  LET lost == {x \in DOMAIN d.srv : d.srv[x] = n} IN
  [del_users(d, UsersOf(d, lost)) EXCEPT !.srv = Without(@, lost)]

\* A server that is known already, or that comes through an unknown one, is not added.
MayAddServer(d, n, router) == n \notin DOMAIN d.srv /\ router \in DOMAIN d.srv \union {n}
add_server(d, n, router) == [d EXCEPT !.srv = With(@, n, router)]

MayAddUser(d, u) == u \notin DOMAIN d.usr /\ Home[u] \in DOMAIN d.srv
add_user(d, u) == [d EXCEPT !.usr = With(@, u, [nick |-> u, channel |-> None])]

\* The users of a server that a JOIN or PART means.
Named(d, server, nick) ==
  {u \in UsersOf(d, {server}) : u = nick \/ d.usr[u].nick = nick}

NickTaken(d, k) == \E u \in DOMAIN d.usr : u = k \/ d.usr[u].nick = k

SetChannel(d, U, c) ==
  [d EXCEPT !.usr = [u \in DOMAIN @ |-> IF u \in U THEN [@[u] EXCEPT !.channel = c] ELSE @[u]]]

(***************************************************************************)
(* Sending.  What goes to a server that does not run is lost.              *)
(***************************************************************************)
Nothing == [e \in Edge |-> <<>>]
To(s, n, msgs) == [Nothing EXCEPT ![<<s, n>>] = msgs]
broadcast(s, origin, msgs) ==
  [e \in Edge |-> IF e[1] = s /\ e[2] # origin /\ IsUp(s, e[2]) THEN msgs ELSE <<>>]

Deliver(taken, out) ==
  net' = [e \in Edge |->
            (IF e \in taken THEN Tail(net[e]) ELSE net[e]) \o
            (IF e[2] \in running THEN out[e] ELSE <<>>)]

\* Mutant: a new neighbour is not told the channels.
AboutUserHere(d, u) ==
  <<[cmd |-> "USER", user |-> u]>> \o
  (IF d.usr[u].nick # u THEN <<[cmd |-> "NICK", user |-> u, nick |-> d.usr[u].nick]>> ELSE <<>>)

\* What a new neighbour is told: the known servers, the users and where they are.
AboutUser(d, u) ==
  <<[cmd |-> "USER", user |-> u]>> \o
  (IF d.usr[u].nick # u THEN <<[cmd |-> "NICK", user |-> u, nick |-> d.usr[u].nick]>> ELSE <<>>) \o
  (IF d.usr[u].channel # None
   THEN <<[cmd |-> "JOIN", nick |-> u, server |-> Home[u], channel |-> d.usr[u].channel]>>
   ELSE <<>>)

AboutServers(S) ==
  LET Known(n, told) == told \o <<[cmd |-> "SERVER", name |-> n]>>
  IN FoldSet(Known, <<>>, S)

AboutUsers(d) ==
  LET Present(u, told) == told \o AboutUser(d, u)
  IN FoldSet(Present, <<>>, DOMAIN d.usr)

Burst(s) == AboutServers(DOMAIN db[s].srv \ {s}) \o AboutUsers(db[s])

Answer == [cmd |-> "ANSWER"]
Squit(n) == [cmd |-> "SQUIT", name |-> n]

(***************************************************************************)
(* The commands of a neighbour.  A handler gives the lists of s afterwards,*)
(* its link to n and what it sends.                                        *)
(***************************************************************************)
Ignored(s, n) == [db |-> db[s], link |-> link[<<s, n>>], out |-> Nothing]

\* The others hear of it too.
Passed(s, n, d, m) == [db |-> d, link |-> link[<<s, n>>], out |-> broadcast(s, n, <<m>>)]

\* The new neighbour hears the burst, the others of the new neighbour.
Merge(out1, out2) == [e \in Edge |-> out1[e] \o out2[e]]

Introduce(s, n, how, greeting) ==
  [db |-> IF MayAddServer(db[s], n, n) THEN add_server(db[s], n, n) ELSE db[s],
   link |-> how,
   out |-> Merge(To(s, n, greeting \o Burst(s)),
                 broadcast(s, n, <<[cmd |-> "SERVER", name |-> n]>>))]

\* PASS and SERVER of a caller.  A side that called itself sees a collision and
\* waits, without forgetting what came over the link; one that answered counts.
command_call(s, n) ==
  CASE link[<<s, n>>] = "down" -> Introduce(s, n, "answered", <<Answer>>)
    [] link[<<s, n>>] \in {"calling", "called"} -> [Ignored(s, n) EXCEPT !.link = "down"]
    [] link[<<s, n>>] = "answered" -> Ignored(s, n)

command_answer(s, n) ==
  IF link[<<s, n>>] = "calling" THEN Introduce(s, n, "called", <<>>) ELSE Ignored(s, n)

\* Mutant: a relayed server becomes its own router.
command_server_direct(s, n, m) ==
  IF MayAddServer(db[s], m.name, n)
  THEN Passed(s, n, add_server(db[s], m.name, m.name), m)
  ELSE Ignored(s, n)

\* A relayed server.
command_server(s, n, m) ==
  IF MayAddServer(db[s], m.name, n)
  THEN Passed(s, n, add_server(db[s], m.name, n), m)
  ELSE Ignored(s, n)

command_squit(s, n, m) ==
  [db |-> IF m.name = n THEN del_router(db[s], n) ELSE del_server(db[s], m.name),
   link |-> IF m.name = n THEN "down" ELSE link[<<s, n>>],
   out |-> broadcast(s, n, <<m>>)]

command_user(s, n, m) ==
  IF MayAddUser(db[s], m.user)
  THEN Passed(s, n, add_user(db[s], m.user), m)
  ELSE Ignored(s, n)

\* Only who is called so by his unix name leaves the list.
command_quit(s, n, m) ==
  Passed(s, n, del_users(db[s], UsersOf(db[s], {m.server}) \intersect {m.nick}), m)

\* A nickname that anybody has here is refused; the one who took it is not told.
command_nick(s, n, m) ==
  IF NickTaken(db[s], m.nick) \/ m.user \notin DOMAIN db[s].usr
  THEN Ignored(s, n)
  ELSE Passed(s, n, [db[s] EXCEPT !.usr[m.user].nick = m.nick], m)

\* The channel counts the user whether or not he is known.
command_join(s, n, m) ==
  IF m.channel \in Private THEN Ignored(s, n)
  ELSE Passed(s, n, SetChannel(Enter(db[s], m.channel), Named(db[s], m.server, m.nick),
                               m.channel), m)

command_part(s, n, m) ==
  IF m.channel \in Private THEN Ignored(s, n)
  ELSE Passed(s, n, SetChannel(Leave(db[s], m.channel),
                               Named(db[s], m.server, m.nick), None), m)

do_command(s, n, m) ==
  CASE m.cmd = "CALL"   -> command_call(s, n)
    [] m.cmd = "ANSWER" -> command_answer(s, n)
    [] m.cmd = "SERVER" -> command_server(s, n, m)
    [] m.cmd = "SQUIT"  -> command_squit(s, n, m)
    [] m.cmd = "USER"   -> command_user(s, n, m)
    [] m.cmd = "QUIT"   -> command_quit(s, n, m)
    [] m.cmd = "NICK"   -> command_nick(s, n, m)
    [] m.cmd = "JOIN"   -> command_join(s, n, m)
    [] m.cmd = "PART"   -> command_part(s, n, m)

Receive(s, n) ==
  /\ s \in running /\ net[<<n, s>>] # <<>>
  /\ LET r == do_command(s, n, Head(net[<<n, s>>])) IN
       /\ db' = [db EXCEPT ![s] = r.db]
       /\ link' = [link EXCEPT ![<<s, n>>] = r.link]
       /\ Deliver({<<n, s>>}, r.out)
  /\ UNCHANGED <<running, client, ops, stops>>

(***************************************************************************)
(* Links.                                                                  *)
(***************************************************************************)
Idle(s, n) == net[<<s, n>>] = <<>> /\ net[<<n, s>>] = <<>>

\* IbcLink: of two sides that are not connected one gets through first.
Call(s, n) ==
  /\ <<s, n>> \in Edge /\ {s, n} \subseteq running /\ Idle(s, n)
  /\ link[<<s, n>>] = "down" /\ link[<<n, s>>] # "calling"
  /\ link' = [link EXCEPT ![<<s, n>>] = "calling"]
  /\ Deliver({}, To(s, n, <<[cmd |-> "CALL"]>>))
  /\ UNCHANGED <<running, db, client, ops, stops>>

\* Mutant: the answer is awaited as long as the neighbour may still come.
CallTimeoutLate(s, n) ==
  /\ link[<<s, n>>] = "calling" /\ Idle(s, n) /\ n \in running /\ IsUp(n, s)
  /\ link' = [link EXCEPT ![<<s, n>>] = "down"]
  /\ UNCHANGED <<running, db, client, net, ops, stops>>

\* Nobody answered.
CallTimeout(s, n) ==
  /\ link[<<s, n>>] = "calling" /\ Idle(s, n)
  /\ link' = [link EXCEPT ![<<s, n>>] = "down"]
  /\ UNCHANGED <<running, db, client, net, ops, stops>>

\* check_servers gives up a link of which nothing is heard, or on which the other
\* side keeps calling.
GiveUp(s, n) ==
  /\ s \in running /\ IsUp(s, n) /\ Idle(s, n)
  /\ \/ n \notin running
     \/ link[<<s, n>>] = "answered" /\ ~IsUp(n, s)
  /\ link' = [link EXCEPT ![<<s, n>>] = "down"]
  /\ db' = [db EXCEPT ![s] = del_router(@, n)]
  /\ Deliver({}, broadcast(s, n, <<Squit(n)>>))
  /\ UNCHANGED <<running, client, ops, stops>>

(***************************************************************************)
(* Shutdown, crash and start of ftntask.  The clients of a BBS whose       *)
(* ftntask is gone leave the chat.                                         *)
(***************************************************************************)
Public(c) == c \in Channel \ Private

ByeOf(d, s, u) ==
  (IF Public(d.usr[u].channel)
   THEN <<[cmd |-> "PART", nick |-> d.usr[u].nick, server |-> s, channel |-> d.usr[u].channel]>>
   ELSE <<>>) \o <<[cmd |-> "QUIT", nick |-> d.usr[u].nick, server |-> s]>>

Farewell(d, s) ==
  LET Bye(u, told) == told \o ByeOf(d, s, u)
  IN FoldSet(Bye, <<>>, UsersOf(d, {s}))

Stopped(s) ==
  /\ s \in running /\ stops < MaxStops
  /\ running' = running \ {s}
  /\ link' = [e \in Edge |-> IF e[1] = s THEN "down" ELSE link[e]]
  /\ db' = [db EXCEPT ![s] = EmptyDb(s)]
  /\ client' = [u \in User |-> IF Home[u] = s THEN "no" ELSE client[u]]
  /\ stops' = stops + 1
  /\ UNCHANGED ops

Lost(s, out) ==
  net' = [e \in Edge |-> IF e[2] = s THEN <<>>
                         ELSE net[e] \o (IF e[2] \in running THEN out[e] ELSE <<>>)]

\* ibc_shutdown.
Shutdown(s) == Stopped(s) /\ Lost(s, broadcast(s, None, Farewell(db[s], s) \o <<Squit(s)>>))

Crash(s) == CanCrash /\ Stopped(s) /\ Lost(s, Nothing)

\* A start takes longer than a datagram.
Start(s) ==
  /\ s \notin running
  /\ \A n \in Neighbours(s) : net[<<s, n>>] = <<>> /\ (Hasty \/ ~IsUp(n, s))
  /\ running' = running \union {s}
  /\ UNCHANGED <<link, db, client, net, ops, stops>>

(***************************************************************************)
(* The users of a BBS.                                                     *)
(***************************************************************************)
Act(u) == Home[u] \in running /\ ops < MaxOps /\ ops' = ops + 1

\* The process of the user is on the list.
Listed(u) == u \in DOMAIN db[Home[u]].usr

SendAll(s, msgs) == Deliver({}, broadcast(s, None, msgs))

chat_connect_r(u) ==
  LET s == Home[u] IN
  /\ client[u] # "chat" /\ Act(u)
  /\ MayAddUser(db[s], u)
  /\ db' = [db EXCEPT ![s] = add_user(@, u)]
  /\ client' = [client EXCEPT ![u] = "chat"]
  /\ SendAll(s, <<[cmd |-> "USER", user |-> u]>>)
  /\ UNCHANGED <<running, link, stops>>

chat_close_r(u) ==
  LET s == Home[u] IN
  /\ client[u] = "chat" /\ Act(u)
  /\ db' = [db EXCEPT ![s] = del_users(@, {u})]
  /\ client' = [client EXCEPT ![u] = "no"]
  /\ SendAll(s, IF Listed(u) THEN <<[cmd |-> "QUIT", nick |-> u, server |-> s]>> ELSE <<>>)
  /\ UNCHANGED <<running, link, stops>>

join(u, c) ==
  LET s == Home[u] IN
  /\ client[u] = "chat" /\ Listed(u) /\ db[s].usr[u].channel = None /\ Act(u)
  /\ db' = [db EXCEPT ![s] = SetChannel(Enter(@, c), {u}, c)]
  /\ SendAll(s, IF Public(c) THEN <<[cmd |-> "JOIN", nick |-> db[s].usr[u].nick,
                                     server |-> s, channel |-> c]>> ELSE <<>>)
  /\ UNCHANGED <<running, link, client, stops>>

\* Only a channel that is still listed can be left.
Parted(u) ==
  LET s == Home[u] IN LET c == db[s].usr[u].channel IN
  IF Listed(u) /\ c # None /\ db[s].chn[c] > 0
  THEN /\ db' = [db EXCEPT ![s] = SetChannel(Leave(@, c), {u}, None)]
       /\ SendAll(s, IF Public(c) THEN <<[cmd |-> "PART", nick |-> db[s].usr[u].nick,
                                          server |-> s, channel |-> c]>> ELSE <<>>)
  ELSE UNCHANGED <<db, net>>

part(u) ==
  /\ client[u] = "chat" /\ Listed(u) /\ db[Home[u]].usr[u].channel # None /\ Act(u)
  /\ Parted(u)
  /\ UNCHANGED <<running, link, client, stops>>

\* reg_check finds the process of a user gone: the user leaves his channel, but he
\* is not taken off the list.
chat_cleanuser(u) ==
  /\ client[u] = "chat" /\ Act(u)
  /\ client' = [client EXCEPT ![u] = "killed"]
  /\ Parted(u)
  /\ UNCHANGED <<running, link, stops>>

SetNick(u, k) ==
  LET s == Home[u] IN
  /\ client[u] = "chat" /\ Listed(u) /\ ~NickTaken(db[s], k) /\ Act(u)
  /\ db' = [db EXCEPT ![s].usr[u].nick = k]
  /\ SendAll(s, <<[cmd |-> "NICK", user |-> u, nick |-> k]>>)
  /\ UNCHANGED <<running, link, client, stops>>

UserAct(u) ==
  \/ chat_connect_r(u) \/ chat_close_r(u) \/ part(u) \/ chat_cleanuser(u)
  \/ \E c \in Channel : join(u, c)
  \/ \E k \in Nicks[u] : SetNick(u, k)

Work(s, n) == Receive(s, n) \/ Call(s, n) \/ CallTimeout(s, n) \/ GiveUp(s, n)

Next ==
  \/ \E e \in Edge : Work(e[1], e[2])
  \/ \E s \in Server : Shutdown(s) \/ Crash(s) \/ Start(s)
  \/ \E u \in User : UserAct(u)

\* ftntask polls every second and is started again; a link that is down is called
\* again and again, and of two sides that call in turn one is answered (IbcLink).
Fairness ==
  /\ \A e \in Edge : /\ WF_vars(Receive(e[1], e[2])) /\ SF_vars(Call(e[1], e[2]))
                     /\ WF_vars(GiveUp(e[1], e[2])) /\ WF_vars(CallTimeout(e[1], e[2]))
  /\ \A s \in Server : WF_vars(Start(s))

Spec == Init /\ [][Next]_vars /\ Fairness

(***************************************************************************)
(* Properties.                                                             *)
(***************************************************************************)

\* side[<<n, s>>]: the servers on the side of n when the link of n and s is cut.  A
\* network that has such sides has no loops; when every other server is on the side of
\* a neighbour, it is one tree.
Sides == [Edge -> SUBSET Server]

Splits(side) ==
  \A e \in Edge : LET back == <<e[2], e[1]>> IN
    /\ e[1] \in side[e]
    /\ side[e] \intersect side[back] = {}
    /\ \A j \in Neighbours(e[1]) \ {e[2]} : side[<<j, e[1]>>] \subseteq side[e]

Reaches(side) ==
  \A s, x \in Server : s # x => \E k \in Neighbours(s) : x \in side[<<k, s>>]

NoLoops == \E side \in Sides : Splits(side)
OneTree == \E side \in Sides : Splits(side) /\ Reaches(side)

\* The count of a channel is the number of its users on the list, at every server
\* and at every moment: nobody is counted who is not there.
ChannelCount ==
  \A s \in Server, c \in Channel : db[s].chn[c] = Cardinality(InChannel(db[s], c))

\* Every user on a list belongs to a server on the same list, and every server on it is
\* reached through a neighbour whose link is up.
NoGhosts ==
  \A s \in running :
    /\ \A u \in DOMAIN db[s].usr : Home[u] \in DOMAIN db[s].srv
    /\ \A n \in DOMAIN db[s].srv \ {s} : IsUp(s, db[s].srv[n])

\* What two servers believe of the users, but for the private channels.
View(s) ==
  [u \in DOMAIN db[s].usr |->
     IF Public(db[s].usr[u].channel) THEN db[s].usr[u] ELSE [db[s].usr[u] EXCEPT !.channel = None]]

Settled == (\A e \in Edge : net[e] = <<>> /\ IsUp(e[1], e[2])) /\ running = Server

\* When every link is up and nothing is on its way, all servers know all servers.
AllKnown == Settled => \A s \in Server : DOMAIN db[s].srv = Server

\* And they have the same users under the same nicknames, where they are.
Agreement ==
  AllKnown /\ (Settled => \A s, n \in Server :
                            /\ View(s) = View(n)
                            /\ \A c \in Channel \ Private : db[s].chn[c] = db[n].chn[c])

\* After the last disturbance the network becomes whole again and stays so.
Converges == <>[]Settled

=============================================================================
