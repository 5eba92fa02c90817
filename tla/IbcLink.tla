------------------------------ MODULE IbcLink ------------------------------
(***************************************************************************)
(* The connection of two neighbour chat servers: the slots that the        *)
(* ftntask of each keeps for the other in ncs_list (ftntask/taskibc.c),    *)
(* with check_servers, the receiver and the PASS, SERVER, SQUIT, PING and  *)
(* PONG commands.  Commands travel as UDP datagrams.  ftntask has one      *)
(* thread, so one timer of check_servers and one received datagram are one *)
(* action each.  Time passes in steps of ten seconds, the shortest delay   *)
(* check_servers uses apart from the one second after a hangup, and only   *)
(* when no timer is due, since check_servers runs every second.            *)
(***************************************************************************)
EXTENDS Integers, Sequences, SequencesExt, FiniteSets

CONSTANTS
  PingAfter,   \* silence after which a connected side sends PING (6 = 60 s)
  DeadAfter,   \* silence after which the connection is dead (13 = 130 s)
  DialDelays,  \* the random delays between two calls (1..6 for dialdelay 60)
  DeadDelay,   \* wait of a dead connection before it is called again (12)
  HalfDelay,   \* the same for a half dead connection (6)
  HangDelay,   \* the same after SQUIT (12)
  FailDelay,   \* wait after a name that does not resolve (12)
  HalfdeadMax, \* PASS commands while connected that are put up with (5)
  Passwords,   \* passwords the two sysops may have set for the link
  MaxFaults,   \* bound: losses, outages, restarts and the like
  MaxTies,     \* bound: times both sides draw the same delay
  MaxTokens    \* bound: tokens that can be told apart at one time

ASSUME DelaysKnown ==
  /\ {PingAfter, DeadAfter, DeadDelay, HalfDelay, HangDelay, FailDelay} \subseteq Nat \ {0}
  /\ DialDelays \subseteq Nat \ {0} /\ DialDelays # {}
  /\ PingAfter < DeadAfter
ASSUME BoundsKnown == {HalfdeadMax, MaxFaults, MaxTies, MaxTokens} \subseteq Nat

VARIABLES
  ncs,     \* per server: the slot for its neighbour, and whether ftntask runs
  net,     \* per server: the datagrams it sent that are on their way
  cut,     \* the servers whose datagrams the network does not deliver
  passwd,  \* per server: the password in its configuration
  faults,  \* faults so far
  ties     \* equal delays so far

vars == <<ncs, net, cut, passwd, faults, ties>>

Server == {"a", "b"}
Neighbour(s) == IF s = "a" THEN "b" ELSE "a"

NoToken == 0

\* "Off": ftntask does not run.  The other states are the NCS_ constants.
States == {"Off", "Init", "Call", "WaitPwd", "Connect", "Hangup", "Dead", "Fail"}

Message ==
  [cmd : {"PASS"}, pass : Passwords] \union [cmd : {"SERVER"}, token : 1..MaxTokens]
    \union [cmd : {"PING", "PONG", "SQUIT", "401"}]

Pass(s) == [cmd |-> "PASS", pass |-> passwd[s]]
Announce(t) == [cmd |-> "SERVER", token |-> t]
Cmd(c) == [cmd |-> c]

\* ftntask writes its sequence number to disk and never uses one twice; a number
\* that nobody carries anymore stands for a new one.
TokensInUse ==
  {ncs[s].token : s \in Server} \union
    {m.token : m \in {x \in UNION {ToSet(net[s]) : s \in Server} : x.cmd = "SERVER"}}
gettoken == CHOOSE t \in 1..MaxTokens : t \notin TokensInUse

\* fill_ncslist: a slot as it is read from the configuration.
FreshSlot == [state |-> "Init", wait |-> 0, silent |-> 0, gotpass |-> FALSE,
              token |-> NoToken, halfdead |-> 0]

Slot == [state : States, wait : Nat, silent : 0..(DeadAfter + 1), gotpass : BOOLEAN,
         token : 0..MaxTokens, halfdead : Nat]

TypeOK ==
  /\ ncs \in [Server -> Slot]
  /\ net \in [Server -> Seq(Message)]
  /\ cut \subseteq Server
  /\ passwd \in [Server -> Passwords]
  /\ faults \in 0..MaxFaults /\ ties \in 0..MaxTies

Init ==
  /\ ncs = [s \in Server |-> FreshSlot]
  /\ net = [s \in Server |-> <<>>]
  /\ cut = {}
  /\ passwd \in [Server -> Passwords]
  /\ faults = 0 /\ ties = 0

(***************************************************************************)
(* Sending.  sendto succeeds whether or not the datagram arrives.          *)
(***************************************************************************)
Arriving(s, msgs) == IF s \in cut THEN <<>> ELSE msgs

Send(s, msgs) == net' = [net EXCEPT ![s] = @ \o Arriving(s, msgs)]

Calm == UNCHANGED <<cut, passwd, faults>>

CanFault == faults < MaxFaults
Fault == CanFault /\ faults' = faults + 1

(***************************************************************************)
(* check_servers: the action of a slot whose time has come.                *)
(***************************************************************************)
Due(s) == ncs[s].state # "Off" /\ ncs[s].wait = 0

Goto(s, state, wait) == ncs' = [ncs EXCEPT ![s].state = state, ![s].wait = wait]

InitTimer(s) ==
  /\ Due(s) /\ ncs[s].state = "Init"
  /\ \/ Goto(s, "Call", 0) /\ UNCHANGED faults
     \/ Goto(s, "Init", 1) /\ Fault             \* no internet
     \/ Goto(s, "Fail", FailDelay) /\ Fault     \* no address, no socket
  /\ UNCHANGED <<net, cut, passwd, ties>>

CallTimer(s) ==
  /\ Due(s) /\ ncs[s].state = "Call"
  /\ \E t \in 1..MaxTokens : t \notin TokensInUse
  /\ ncs' = [ncs EXCEPT ![s].state = "WaitPwd", ![s].wait = 1, ![s].token = gettoken]
  /\ Send(s, <<Pass(s), Announce(gettoken)>>)
  /\ Calm /\ UNCHANGED ties

\* Nobody answered: call again after a random delay.  The two sides draw their
\* delays independently; that the next timers of both end together is a tie.
Tie(s, j) ==
  LET n == ncs[Neighbour(s)] IN n.state \in {"Call", "WaitPwd"} /\ n.wait = j

WaitPwdTimer(s) ==
  /\ Due(s) /\ ncs[s].state = "WaitPwd"
  /\ \E j \in DialDelays :
       /\ ncs' = [ncs EXCEPT ![s].state = "Call", ![s].wait = j, ![s].token = NoToken]
       /\ IF Tie(s, j) THEN ties < MaxTies /\ ties' = ties + 1 ELSE UNCHANGED ties
  /\ UNCHANGED net /\ Calm

\* The slot of a connection that is given up; del_router and the SQUIT for the
\* other neighbours go with it.
Lost(s, wait) ==
  [ncs[s] EXCEPT !.state = "Dead", !.wait = wait, !.silent = 0, !.gotpass = FALSE,
                 !.token = NoToken, !.halfdead = 0]

HalfDead(s) == ncs[s].halfdead > HalfdeadMax

ConnectTimer(s) ==
  /\ Due(s) /\ ncs[s].state = "Connect"
  /\ \/ /\ HalfDead(s)
        /\ ncs' = [ncs EXCEPT ![s] = Lost(s, HalfDelay)]
        /\ UNCHANGED net
     \/ /\ ~HalfDead(s)
        /\ ncs[s].silent > DeadAfter
        /\ ncs' = [ncs EXCEPT ![s] = Lost(s, DeadDelay)]
        /\ UNCHANGED net
     \/ /\ ~HalfDead(s)
        /\ ncs[s].silent <= DeadAfter
        /\ ncs' = [ncs EXCEPT ![s].wait = 1]
        /\ Send(s, IF ncs[s].silent > PingAfter THEN <<Cmd("PING")>> ELSE <<>>)
  /\ Calm /\ UNCHANGED ties

RetryTimer(s) ==
  /\ Due(s)
  /\ \/ ncs[s].state \in {"Hangup", "Dead"} /\ Goto(s, "Call", 0)
     \/ ncs[s].state = "Fail" /\ Goto(s, "Init", 0)
  /\ UNCHANGED <<net, ties>> /\ Calm

(***************************************************************************)
(* ibc_receiver and do_command.  A handler gives the new slot and the      *)
(* answers; any message but one that is dropped makes the slot heard.      *)
(***************************************************************************)
Heard(s) == [ncs[s] EXCEPT !.silent = 0]

\* Mutant: a PASS while connected is refused without being counted.
command_pass_uncounted(s, m) ==
  LET refused == [Heard(s) EXCEPT !.gotpass = FALSE] IN
  IF m.pass # passwd[s] THEN [slot |-> refused, answer |-> <<>>]
  ELSE IF ncs[s].state = "Connect"
       THEN [slot |-> refused, answer |-> <<Cmd("401")>>]
       ELSE [slot |-> [refused EXCEPT !.gotpass = TRUE], answer |-> <<>>]

\* command_pass: a wrong password, or a second PASS while connected, is not kept.
\* The statement before the checks forgets the previous one.
command_pass(s, m) ==
  LET refused == [Heard(s) EXCEPT !.gotpass = FALSE] IN
  IF m.pass # passwd[s] THEN [slot |-> refused, answer |-> <<>>]
  ELSE IF ncs[s].state = "Connect"
       THEN [slot |-> [refused EXCEPT !.halfdead = @ + 1], answer |-> <<Cmd("401")>>]
       ELSE [slot |-> [refused EXCEPT !.gotpass = TRUE], answer |-> <<>>]

Connected(s) == [Heard(s) EXCEPT !.state = "Connect", !.wait = 1]

\* Mutant: SERVER without PASS is answered.
command_server_nopass(s, m) ==
  IF ncs[s].token # NoToken
  THEN [slot |-> IF m.token = ncs[s].token THEN Connected(s)
                 ELSE [Heard(s) EXCEPT !.state = "WaitPwd"],
        answer |-> <<>>]
  ELSE [slot |-> Connected(s), answer |-> <<Pass(s), Announce(m.token)>>]

\* Mutant: the password is looked at before the token, so that both callers answer.
command_server_passfirst(s, m) ==
  IF ncs[s].gotpass
  THEN [slot |-> Connected(s), answer |-> <<Pass(s), Announce(m.token)>>]
  ELSE [slot |-> Heard(s), answer |-> <<>>]

\* command_server: a caller looks only at the token, an answerer only at the
\* password.  Two callers that meet wait until their calls time out.
command_server(s, m) ==
  IF ncs[s].token # NoToken
  THEN [slot |-> IF m.token = ncs[s].token THEN Connected(s)
                 ELSE [Heard(s) EXCEPT !.state = "WaitPwd"],
        answer |-> <<>>]
  ELSE IF ncs[s].gotpass
       THEN [slot |-> Connected(s), answer |-> <<Pass(s), Announce(m.token)>>]
       ELSE [slot |-> Heard(s), answer |-> <<>>]

command_squit(s) ==
  [slot |-> [Heard(s) EXCEPT !.state = "Hangup", !.wait = HangDelay, !.gotpass = FALSE,
                             !.token = NoToken],
   answer |-> <<>>]

\* Mutant: PONG counts one back instead of forgetting the count.
do_command_countback(s, m) ==
  CASE m.cmd = "PASS"   -> command_pass(s, m)
    [] m.cmd = "SERVER" -> command_server(s, m)
    [] m.cmd = "SQUIT"  -> command_squit(s)
    [] m.cmd = "PING"   -> [slot |-> Heard(s), answer |-> <<Cmd("PONG")>>]
    [] m.cmd = "PONG"   -> [slot |-> [Heard(s) EXCEPT !.halfdead = @ - 1], answer |-> <<>>]
    [] m.cmd = "401"    -> [slot |-> Heard(s), answer |-> <<>>]

do_command(s, m) ==
  CASE m.cmd = "PASS"   -> command_pass(s, m)
    [] m.cmd = "SERVER" -> command_server(s, m)
    [] m.cmd = "SQUIT"  -> command_squit(s)
    [] m.cmd = "PING"   -> [slot |-> Heard(s), answer |-> <<Cmd("PONG")>>]
    [] m.cmd = "PONG"   -> [slot |-> [Heard(s) EXCEPT !.halfdead = 0], answer |-> <<>>]
    [] m.cmd = "401"    -> [slot |-> Heard(s), answer |-> <<>>]

Receive(s) ==
  LET n == Neighbour(s) IN
  /\ net[n] # <<>>
  /\ IF ncs[s].state \in {"Off", "Init"}
     THEN net' = [net EXCEPT ![n] = Tail(@)] /\ UNCHANGED ncs
     ELSE LET r == do_command(s, Head(net[n])) IN
            /\ ncs' = [ncs EXCEPT ![s] = r.slot]
            /\ net' = [net EXCEPT ![n] = Tail(@), ![s] = @ \o Arriving(s, r.answer)]
  /\ Calm /\ UNCHANGED ties

(***************************************************************************)
(* Reset, shutdown and start.                                              *)
(***************************************************************************)
Bye(s) == IF ncs[s].state = "Connect" THEN <<Cmd("SQUIT")>> ELSE <<>>

\* The configuration changed, a dynamic address changed, or the daily reset came:
\* the slot is removed and filled again.
ResetLink(s) ==
  /\ ncs[s].state # "Off"
  /\ Send(s, Bye(s))
  /\ ncs' = [ncs EXCEPT ![s] = FreshSlot]
  /\ Fault /\ UNCHANGED <<cut, passwd, ties>>

\* ibc_shutdown.
Shutdown(s) ==
  /\ ncs[s].state # "Off"
  /\ Send(s, Bye(s))
  /\ ncs' = [ncs EXCEPT ![s] = [FreshSlot EXCEPT !.state = "Off"]]
  /\ Fault /\ UNCHANGED <<cut, passwd, ties>>

Crash(s) ==
  /\ ncs[s].state # "Off"
  /\ ncs' = [ncs EXCEPT ![s] = [FreshSlot EXCEPT !.state = "Off"]]
  /\ Fault /\ UNCHANGED <<net, cut, passwd, ties>>

Start(s) ==
  /\ ncs[s].state = "Off"
  /\ ncs' = [ncs EXCEPT ![s] = FreshSlot]
  /\ UNCHANGED <<net, ties>> /\ Calm

(***************************************************************************)
(* Time and the network.                                                   *)
(***************************************************************************)
Later(slot) ==
  [slot EXCEPT !.wait = IF @ > 0 THEN @ - 1 ELSE 0,
               !.silent = IF slot.state = "Connect" /\ @ <= DeadAfter THEN @ + 1 ELSE @]

\* A datagram usually takes less than ten seconds; that one takes more is a fault.
Tick ==
  /\ \A s \in Server : ~Due(s)
  /\ ncs' = [s \in Server |-> Later(ncs[s])]
  /\ IF \A s \in Server : net[s] = <<>> THEN UNCHANGED faults ELSE Fault
  /\ UNCHANGED <<net, cut, passwd, ties>>

Lose(s) ==
  /\ net[s] # <<>> /\ Fault
  /\ net' = [net EXCEPT ![s] = Tail(@)]
  /\ UNCHANGED <<ncs, cut, passwd, ties>>

Duplicate(s) ==
  /\ net[s] # <<>> /\ Fault
  /\ net' = [net EXCEPT ![s] = Append(@, Head(@))]
  /\ UNCHANGED <<ncs, cut, passwd, ties>>

CutPath(s) ==
  /\ s \notin cut /\ Fault
  /\ cut' = cut \union {s}
  /\ UNCHANGED <<ncs, net, passwd, ties>>

MendPath(s) ==
  /\ s \in cut
  /\ cut' = cut \ {s}
  /\ UNCHANGED <<ncs, net, passwd, faults, ties>>

Step(s) ==
  \/ InitTimer(s) \/ CallTimer(s) \/ WaitPwdTimer(s) \/ ConnectTimer(s) \/ RetryTimer(s)
  \/ Receive(s)

Disturb(s) ==
  \/ ResetLink(s) \/ Shutdown(s) \/ Crash(s)
  \/ Lose(s) \/ Duplicate(s) \/ CutPath(s)

Next == Tick \/ \E s \in Server : Step(s) \/ Disturb(s) \/ Start(s) \/ MendPath(s)

\* ftntask polls every second, its parent starts it again, an outage ends and time
\* passes.  Nothing is assumed of the random delays but that ties are bounded.
Fairness == /\ WF_vars(Tick)
            /\ \A s \in Server : WF_vars(Step(s)) /\ WF_vars(Start(s)) /\ WF_vars(MendPath(s))

Spec == Init /\ [][Next]_vars /\ Fairness

(***************************************************************************)
(* Properties.                                                             *)
(***************************************************************************)
Up(s) == ncs[s].state = "Connect"
BothUp == \A s \in Server : Up(s)
SamePassword == passwd["a"] = passwd["b"]

\* Two neighbours whose sysops agreed on a password are connected for good once
\* nothing disturbs them, whatever losses, restarts and collisions came before.
Heals == SamePassword => <>[]BothUp

\* A side is connected only with a neighbour that has its password, although the
\* caller looks at the token alone.
Authorized == \A s \in Server : Up(s) => SamePassword

\* The two ends of a connection never both believe that they called: a collision
\* ends in two waiting sides, not in two sessions.
OneCaller == ~ (BothUp /\ \A s \in Server : ncs[s].token # NoToken)

\* Only a fault ends a connection: pings, time-outs and calls that cross do not.
SteadyLink ==
  [][faults' = 0 => \A s \in Server : Up(s) => ncs'[s].state = "Connect"]_vars

=============================================================================
