--------------------------- MODULE IbcLinkProofs ---------------------------
(***************************************************************************)
(* IbcLink for all delays, passwords and numbers of faults: every variable *)
(* keeps its type, servers with different passwords are never connected,   *)
(* and at most one end of a connection is its caller.                      *)
(***************************************************************************)
EXTENDS IbcLink, SequenceTheorems, TLAPS

\* The delays and the bounds are numbers.
LEMMA Numbers ==
  /\ DeadAfter \in Nat /\ DeadDelay \in Nat /\ HalfDelay \in Nat /\ HangDelay \in Nat
  /\ FailDelay \in Nat /\ DialDelays \subseteq Nat
  /\ MaxFaults \in Nat /\ MaxTies \in Nat /\ MaxTokens \in Nat
BY DelaysKnown, BoundsKnown

USE Numbers

(***************************************************************************)
(* What a sequence carries.                                                *)
(***************************************************************************)

\* A concatenation carries what its parts carry.
LEMMA ConcatCarries ==
  ASSUME NEW S, NEW p \in Seq(S), NEW q \in Seq(S)
  PROVE  p \o q \in Seq(S) /\ ToSet(p \o q) \subseteq ToSet(p) \union ToSet(q)
BY ConcatProperties DEF ToSet

\* What is left of a queue was in it, and so was its head.
LEMMA TailCarries ==
  ASSUME NEW S, NEW q \in Seq(S), q # <<>>
  PROVE  /\ Tail(q) \in Seq(S) /\ ToSet(Tail(q)) \subseteq ToSet(q)
         /\ Head(q) \in S /\ Head(q) \in ToSet(q)
<1>1. Head(q) = q[1] /\ 1 \in DOMAIN q
  OBVIOUS
<1>2. Tail(q) \in Seq(S) /\ Len(Tail(q)) = Len(q) - 1 /\ Head(q) \in S
      /\ \A i \in 1..Len(Tail(q)) : Tail(q)[i] = q[i + 1]
  BY HeadTailProperties
<1>3. \A i \in DOMAIN Tail(q) : Tail(q)[i] = q[i + 1] /\ i + 1 \in DOMAIN q
  BY <1>2
<1> QED
  BY <1>1, <1>2, <1>3 DEF ToSet

\* A head that is sent once more adds nothing.
LEMMA AgainCarries ==
  ASSUME NEW S, NEW q \in Seq(S), q # <<>>
  PROVE  Append(q, Head(q)) \in Seq(S) /\ ToSet(Append(q, Head(q))) \subseteq ToSet(q)
<1> DEFINE h == Head(q)
<1>1. h \in S /\ h \in ToSet(q)
  BY TailCarries
<1>2. /\ Append(q, h) \in Seq(S) /\ Len(Append(q, h)) = Len(q) + 1
      /\ \A i \in 1..Len(q) : Append(q, h)[i] = q[i]
      /\ Append(q, h)[Len(q) + 1] = h
  BY <1>1, AppendProperties
<1> HIDE DEF h
<1>3. \A i \in DOMAIN Append(q, h) : Append(q, h)[i] \in ToSet(q)
  BY <1>1, <1>2 DEF ToSet
<1> QED
  BY <1>2, <1>3 DEF h, ToSet

(***************************************************************************)
(* The messages a server sends, and what sending does to the network.      *)
(***************************************************************************)
Plain == {"PING", "PONG", "SQUIT", "401"}

LEMMA CmdIsMessage ==
  ASSUME NEW c \in Plain
  PROVE  /\ Cmd(c) \in Message /\ Cmd(c).cmd = c
         /\ <<Cmd(c)>> \in Seq(Message) /\ ToSet(<<Cmd(c)>>) = {Cmd(c)}
BY DEF Cmd, Message, Plain, ToSet

LEMMA AnnounceIsMessage ==
  ASSUME NEW t \in 1..MaxTokens
  PROVE  Announce(t) \in Message /\ Announce(t).cmd = "SERVER" /\ Announce(t).token = t
BY DEF Announce, Message

LEMMA PassIsMessage ==
  ASSUME TypeOK, NEW s \in Server
  PROVE  Pass(s) \in Message /\ Pass(s).cmd = "PASS" /\ Pass(s).pass = passwd[s]
BY DEF Pass, Message, TypeOK

\* A call and an answer are a PASS and a SERVER command.
LEMMA IntroductionIsMessages ==
  ASSUME TypeOK, NEW s \in Server, NEW t \in 1..MaxTokens
  PROVE  /\ <<Pass(s), Announce(t)>> \in Seq(Message)
         /\ ToSet(<<Pass(s), Announce(t)>>) = {Pass(s), Announce(t)}
BY AnnounceIsMessage, PassIsMessage DEF ToSet

\* The kinds of message and what they carry.
LEMMA MessageKinds ==
  ASSUME NEW m \in Message
  PROVE  /\ m.cmd \in Plain \union {"PASS", "SERVER"}
         /\ m.cmd = "PASS" => m.pass \in Passwords
         /\ m.cmd = "SERVER" => m.token \in 1..MaxTokens /\ m = Announce(m.token)
BY DEF Message, Plain, Announce

LEMMA ArrivingCarries ==
  ASSUME NEW s \in Server, NEW msgs \in Seq(Message)
  PROVE  Arriving(s, msgs) \in Seq(Message) /\ ToSet(Arriving(s, msgs)) \subseteq ToSet(msgs)
BY DEF Arriving, ToSet

LEMMA SendCarries ==
  ASSUME TypeOK, NEW s \in Server, NEW msgs \in Seq(Message), Send(s, msgs)
  PROVE  /\ net' \in [Server -> Seq(Message)]
         /\ ToSet(net'[s]) \subseteq ToSet(net[s]) \union ToSet(msgs)
         /\ \A n \in Server \ {s} : net'[n] = net[n]
<1>1. net \in [Server -> Seq(Message)]
  BY DEF TypeOK
<1>2. net[s] \in Seq(Message) /\ Arriving(s, msgs) \in Seq(Message)
  BY <1>1, ArrivingCarries
<1>3. /\ net[s] \o Arriving(s, msgs) \in Seq(Message)
      /\ ToSet(net[s] \o Arriving(s, msgs)) \subseteq ToSet(net[s]) \union ToSet(msgs)
  BY <1>2, ConcatCarries, ArrivingCarries
<1>4. net' = [net EXCEPT ![s] = net[s] \o Arriving(s, msgs)]
  BY DEF Send
<1> QED
  BY <1>1, <1>3, <1>4

(***************************************************************************)
(* Types.                                                                  *)
(***************************************************************************)
\* A slot whose fields get values of their types is a slot.
LEMMA SlotWait ==
  ASSUME NEW r \in Slot, NEW w \in Nat
  PROVE  [r EXCEPT !.wait = w] \in Slot
BY DEF Slot

LEMMA SlotGoto ==
  ASSUME NEW r \in Slot, NEW st \in States, NEW w \in Nat
  PROVE  [r EXCEPT !.state = st, !.wait = w] \in Slot
BY DEF Slot

LEMMA SlotToken ==
  ASSUME NEW r \in Slot, NEW st \in States, NEW w \in Nat, NEW t \in 0..MaxTokens
  PROVE  [r EXCEPT !.state = st, !.wait = w, !.token = t] \in Slot
BY DEF Slot

LEMMA SlotSquit ==
  ASSUME NEW r \in Slot, NEW st \in States, NEW w \in Nat
  PROVE  [r EXCEPT !.state = st, !.wait = w, !.gotpass = FALSE, !.token = NoToken] \in Slot
<1>1. ASSUME NEW g \in BOOLEAN, NEW t \in 0..MaxTokens
      PROVE  [r EXCEPT !.state = st, !.wait = w, !.gotpass = g, !.token = t] \in Slot
  BY DEF Slot
<1>2. NoToken \in 0..MaxTokens
  BY DEF NoToken
<1> QED
  BY <1>1, <1>2

LEMMA SlotTime ==
  ASSUME NEW r \in Slot, NEW w \in Nat, NEW si \in 0..(DeadAfter + 1)
  PROVE  [r EXCEPT !.wait = w, !.silent = si] \in Slot
BY DEF Slot

LEMMA SlotLost ==
  ASSUME NEW r \in Slot, NEW st \in States, NEW w \in Nat
  PROVE  [r EXCEPT !.state = st, !.wait = w, !.silent = 0, !.gotpass = FALSE,
                   !.token = NoToken, !.halfdead = 0] \in Slot
<1>1. ASSUME NEW g \in BOOLEAN, NEW t \in 0..MaxTokens, NEW si \in 0..(DeadAfter + 1)
      PROVE  [r EXCEPT !.state = st, !.wait = w, !.silent = si, !.gotpass = g, !.token = t,
                       !.halfdead = 0] \in Slot
  BY DEF Slot
<1>2. NoToken \in 0..MaxTokens /\ 0 \in 0..(DeadAfter + 1)
  BY DEF NoToken
<1> QED
  BY <1>1, <1>2

\* A slot in its place leaves the table well typed.
LEMMA SlotType ==
  ASSUME TypeOK, NEW s \in Server, NEW r \in Slot
  PROVE  [ncs EXCEPT ![s] = r] \in [Server -> Slot]
BY DEF TypeOK

LEMMA GotoType ==
  ASSUME TypeOK, NEW s \in Server, NEW st \in States, NEW w \in Nat, Goto(s, st, w)
  PROVE  ncs' \in [Server -> Slot]
<1>1. ncs[s] \in Slot
  BY DEF TypeOK
<1>2. ncs' = [ncs EXCEPT ![s] = [ncs[s] EXCEPT !.state = st, !.wait = w]]
  BY DEF Goto, TypeOK, Slot
<1> QED
  BY <1>1, <1>2, SlotGoto, SlotType

Handled == [slot : Slot, answer : Seq(Message)]

LEMMA TwoServers ==
  ASSUME NEW s \in Server
  PROVE  Neighbour(s) \in Server /\ Neighbour(s) # s /\ Neighbour(Neighbour(s)) = s
         /\ Server = {s, Neighbour(s)}
BY DEF Neighbour, Server

\* What a handler gives is a slot and a sequence of messages.
LEMMA HandlerType ==
  ASSUME TypeOK, NEW s \in Server, NEW m \in Message
  PROVE  do_command(s, m) \in Handled
<1>1. ncs[s] \in Slot /\ passwd[s] \in Passwords
  BY DEF TypeOK
<1>2. Heard(s) \in Slot
  BY <1>1 DEF Heard, Slot
<1>3. <<>> \in Seq(Message)
  OBVIOUS
<1>4. CASE m.cmd = "PASS"
  <2>1. <<Cmd("401")>> \in Seq(Message)
    BY CmdIsMessage DEF Plain
  <2>2. command_pass(s, m) \in Handled
    <3> DEFINE r == [Heard(s) EXCEPT !.gotpass = FALSE]
    <3>0. r \in Slot
      BY <1>2 DEF Slot
    <3> HIDE DEF r
    <3>1. [r EXCEPT !.halfdead = @ + 1] \in Slot
      BY <3>0 DEF Slot
    <3>3. [r EXCEPT !.gotpass = TRUE] \in Slot
      BY <3>0 DEF Slot
    <3>2. command_pass(s, m) =
            IF m.pass # passwd[s] THEN [slot |-> r, answer |-> <<>>]
            ELSE IF ncs[s].state = "Connect"
                 THEN [slot |-> [r EXCEPT !.halfdead = @ + 1], answer |-> <<Cmd("401")>>]
                 ELSE [slot |-> [r EXCEPT !.gotpass = TRUE], answer |-> <<>>]
      BY DEF command_pass, r
    <3> QED
      BY <3>0, <3>1, <3>2, <3>3, <2>1, <1>3 DEF Handled
  <2> QED
    BY <1>4, <2>2 DEF do_command
<1>5. CASE m.cmd = "SERVER"
  <2>1. <<Pass(s), Announce(m.token)>> \in Seq(Message)
    BY <1>5, MessageKinds, IntroductionIsMessages
  <2>2. Connected(s) \in Slot /\ [Heard(s) EXCEPT !.state = "WaitPwd"] \in Slot
    BY <1>2 DEF Connected, Slot, States
  <2>3. command_server(s, m) \in Handled
    BY <2>1, <2>2, <1>2, <1>3 DEF command_server, Handled
  <2> QED
    BY <1>5, <2>3 DEF do_command
<1>6. CASE m.cmd \in Plain
  <2>1. <<Cmd("PONG")>> \in Seq(Message)
    BY CmdIsMessage DEF Plain
  <2>2. command_squit(s).slot \in Slot /\ command_squit(s) \in Handled
    <3>1. [Heard(s) EXCEPT !.state = "Hangup", !.wait = HangDelay, !.gotpass = FALSE,
                           !.token = NoToken] \in Slot
      BY <1>2, SlotSquit DEF States
    <3> QED
      BY <3>1, <1>3 DEF command_squit, Handled
  <2>3. [Heard(s) EXCEPT !.halfdead = 0] \in Slot
    BY <1>2 DEF Slot
  <2> QED
    BY <1>6, <1>2, <1>3, <2>1, <2>2, <2>3 DEF do_command, Plain, Handled
<1> QED
  BY <1>4, <1>5, <1>6, MessageKinds

\* A token is only taken while one is left.
LEMMA TokenIsNew ==
  ASSUME \E t \in 1..MaxTokens : t \notin TokensInUse
  PROVE  gettoken \in 1..MaxTokens /\ gettoken \notin TokensInUse
BY DEF gettoken

LEMMA FreshType == FreshSlot \in Slot /\ [FreshSlot EXCEPT !.state = "Off"] \in Slot
<1>1. FreshSlot \in Slot
  BY DEF FreshSlot, Slot, States, NoToken
<1>2. ASSUME NEW r \in Slot PROVE [r EXCEPT !.state = "Off"] \in Slot
  BY DEF Slot, States
<1> QED
  BY <1>1, <1>2

LEMMA InitType == Init => TypeOK
BY FreshType DEF Init, TypeOK

LEMMA TiesType ==
  ASSUME TypeOK, UNCHANGED ties \/ (ties < MaxTies /\ ties' = ties + 1)
  PROVE  ties' \in 0..MaxTies
BY DEF TypeOK

LEMMA TimerType ==
  ASSUME TypeOK, NEW s \in Server,
         InitTimer(s) \/ WaitPwdTimer(s) \/ ConnectTimer(s) \/ RetryTimer(s)
  PROVE  TypeOK'
<1>1. ncs[s] \in Slot
  BY DEF TypeOK
<1>2. CASE InitTimer(s)
  <2>1. ncs' \in [Server -> Slot]
    BY <1>2, GotoType DEF InitTimer, States
  <2> QED
    BY <1>2, <2>1 DEF InitTimer, TypeOK, Fault, CanFault
<1>3. CASE WaitPwdTimer(s)
  <2>1. PICK j \in DialDelays :
          ncs' = [ncs EXCEPT ![s].state = "Call", ![s].wait = j, ![s].token = NoToken]
    BY <1>3 DEF WaitPwdTimer
  <2>2. ncs' = [ncs EXCEPT ![s] = [ncs[s] EXCEPT !.state = "Call", !.wait = j,
                                                 !.token = NoToken]]
    BY <2>1 DEF TypeOK, Slot
  <2>3. j \in Nat /\ "Call" \in States /\ NoToken \in 0..MaxTokens
    BY DEF States, NoToken
  <2>4. [ncs[s] EXCEPT !.state = "Call", !.wait = j, !.token = NoToken] \in Slot
    BY <1>1, <2>3, SlotToken
  <2>5. ncs' \in [Server -> Slot]
    BY <2>2, <2>4, SlotType
  <2> QED
    BY <1>3, <2>5, TiesType DEF WaitPwdTimer, TypeOK, Calm
<1>4. CASE ConnectTimer(s)
  <2>1. Lost(s, HalfDelay) \in Slot /\ Lost(s, DeadDelay) \in Slot
        /\ [ncs[s] EXCEPT !.wait = 1] \in Slot
    BY <1>1, SlotLost, SlotWait DEF Lost, States
  <2>2. ncs' \in [Server -> Slot]
    <3>1. [ncs EXCEPT ![s].wait = 1] = [ncs EXCEPT ![s] = [ncs[s] EXCEPT !.wait = 1]]
      BY DEF TypeOK, Slot
    <3> QED
      BY <1>4, <2>1, <3>1, SlotType DEF ConnectTimer
  <2>3. <<Cmd("PING")>> \in Seq(Message) /\ <<>> \in Seq(Message)
    BY CmdIsMessage DEF Plain
  <2>4. net' \in [Server -> Seq(Message)]
    BY <1>4, <2>3, SendCarries DEF ConnectTimer, TypeOK
  <2> QED
    BY <1>4, <2>2, <2>4 DEF ConnectTimer, Calm, TypeOK
<1>5. CASE RetryTimer(s)
  <2>1. ncs' \in [Server -> Slot]
    BY <1>5, GotoType DEF RetryTimer, States
  <2> QED
    BY <1>5, <2>1 DEF RetryTimer, TypeOK, Calm
<1> QED
  BY <1>2, <1>3, <1>4, <1>5

LEMMA CallType ==
  ASSUME TypeOK, NEW s \in Server, CallTimer(s)
  PROVE  TypeOK'
<1>1. gettoken \in 1..MaxTokens
  BY TokenIsNew DEF CallTimer
<1>2. net' \in [Server -> Seq(Message)]
  BY <1>1, IntroductionIsMessages, SendCarries DEF CallTimer
<1>3. ncs' \in [Server -> Slot]
  <2>1. ncs[s] \in Slot
    BY DEF TypeOK
  <2>2. ncs' = [ncs EXCEPT ![s] = [ncs[s] EXCEPT !.state = "WaitPwd", !.wait = 1,
                                                 !.token = gettoken]]
    BY DEF CallTimer, TypeOK, Slot
  <2>3. "WaitPwd" \in States /\ gettoken \in 0..MaxTokens
    BY <1>1 DEF States
  <2>4. [ncs[s] EXCEPT !.state = "WaitPwd", !.wait = 1, !.token = gettoken] \in Slot
    BY <2>1, <2>3, SlotToken
  <2> QED
    BY <2>2, <2>4, SlotType
<1> QED
  BY <1>2, <1>3 DEF CallTimer, Calm, TypeOK

LEMMA ReceiveType ==
  ASSUME TypeOK, NEW s \in Server, Receive(s)
  PROVE  TypeOK'
<1> DEFINE n == Neighbour(s)
           r == do_command(s, Head(net[n]))
<1>1. n \in Server /\ n # s
  BY TwoServers
<1>2. net[n] \in Seq(Message) /\ net[n] # <<>> /\ net[s] \in Seq(Message)
  BY <1>1 DEF TypeOK, Receive
<1>3. Tail(net[n]) \in Seq(Message) /\ Head(net[n]) \in Message
  BY <1>2, TailCarries
<1>4. r \in Handled
  BY <1>3, HandlerType
<1>5. r.slot \in Slot /\ r.answer \in Seq(Message)
  BY <1>4 DEF Handled
<1>6. net[s] \o Arriving(s, r.answer) \in Seq(Message)
  BY <1>2, <1>5, ArrivingCarries, ConcatCarries
<1> HIDE DEF r
<1>7. \/ ncs' = ncs /\ net' = [net EXCEPT ![n] = Tail(@)]
      \/ /\ ncs' = [ncs EXCEPT ![s] = r.slot]
         /\ net' = [net EXCEPT ![n] = Tail(@), ![s] = @ \o Arriving(s, r.answer)]
  BY DEF Receive, r
<1>8. ncs' \in [Server -> Slot]
  BY <1>5, <1>7, SlotType DEF TypeOK
<1>9. net' \in [Server -> Seq(Message)]
  BY <1>1, <1>3, <1>6, <1>7 DEF TypeOK
<1> QED
  BY <1>8, <1>9 DEF Receive, Calm, TypeOK

LEMMA DisturbType ==
  ASSUME TypeOK, NEW s \in Server, Disturb(s) \/ Start(s) \/ MendPath(s)
  PROVE  TypeOK'
<1>1. FreshSlot \in Slot /\ [FreshSlot EXCEPT !.state = "Off"] \in Slot
  BY FreshType
<1>2. Bye(s) \in Seq(Message)
  BY CmdIsMessage DEF Bye, Plain
<1>3. CASE ResetLink(s) \/ Shutdown(s)
  <2>1. net' \in [Server -> Seq(Message)]
    BY <1>2, <1>3, SendCarries DEF ResetLink, Shutdown
  <2>2. ncs' \in [Server -> Slot]
    BY <1>1, <1>3, SlotType DEF ResetLink, Shutdown
  <2> QED
    BY <1>3, <2>1, <2>2 DEF ResetLink, Shutdown, TypeOK, Fault, CanFault
<1>4. CASE Crash(s) \/ Start(s)
  <2>1. ncs' \in [Server -> Slot]
    BY <1>1, <1>4, SlotType DEF Crash, Start
  <2> QED
    BY <1>4, <2>1 DEF Crash, Start, Calm, TypeOK, Fault, CanFault
<1>5. CASE Lose(s) \/ Duplicate(s)
  <2>1. net[s] \in Seq(Message) /\ net[s] # <<>>
    BY <1>5 DEF Lose, Duplicate, TypeOK
  <2>2. Tail(net[s]) \in Seq(Message) /\ Append(net[s], Head(net[s])) \in Seq(Message)
    BY <2>1, TailCarries, AgainCarries
  <2>3. \/ net' = [net EXCEPT ![s] = Tail(net[s])]
        \/ net' = [net EXCEPT ![s] = Append(net[s], Head(net[s]))]
    BY <1>5 DEF Lose, Duplicate
  <2>4. net' \in [Server -> Seq(Message)]
    BY <2>2, <2>3 DEF TypeOK
  <2> QED
    BY <1>5, <2>4 DEF Lose, Duplicate, TypeOK, Fault, CanFault
<1>6. CASE CutPath(s) \/ MendPath(s)
  BY <1>6 DEF CutPath, MendPath, TypeOK, Fault, CanFault
<1> QED
  BY <1>3, <1>4, <1>5, <1>6 DEF Disturb

LEMMA TickType == ASSUME TypeOK, Tick PROVE TypeOK'
<1>1. ASSUME NEW r \in Slot PROVE Later(r) \in Slot
  <2> DEFINE w == IF r.wait > 0 THEN r.wait - 1 ELSE 0
             v == IF r.state = "Connect" /\ r.silent <= DeadAfter THEN r.silent + 1
                  ELSE r.silent
  <2>1. w \in Nat /\ v \in 0..(DeadAfter + 1)
    BY DEF Slot
  <2>2. Later(r) = [r EXCEPT !.wait = w, !.silent = v]
    BY DEF Later
  <2> HIDE DEF w, v
  <2>3. [r EXCEPT !.wait = w, !.silent = v] \in Slot
    BY <2>1, SlotTime
  <2> QED
    BY <2>2, <2>3
<1> QED
  BY <1>1 DEF Tick, TypeOK, Fault, CanFault

LEMMA NextType == TypeOK /\ [Next]_vars => TypeOK'
<1> SUFFICES ASSUME TypeOK, [Next]_vars PROVE TypeOK'
  OBVIOUS
<1>1. CASE UNCHANGED vars
  BY <1>1 DEF vars, TypeOK
<1>2. CASE Tick
  BY <1>2, TickType
<1>3. ASSUME NEW s \in Server, Step(s) PROVE TypeOK'
  BY <1>3, TimerType, CallType, ReceiveType DEF Step
<1>4. ASSUME NEW s \in Server, Disturb(s) \/ Start(s) \/ MendPath(s) PROVE TypeOK'
  BY <1>4, DisturbType
<1> QED
  BY <1>1, <1>2, <1>3, <1>4 DEF Next

\* Every variable keeps its type.
THEOREM TypeCorrect == Spec => []TypeOK
BY InitType, NextType, PTL DEF Spec

(***************************************************************************)
(* Who may be connected.  The inductive invariant says what the commands   *)
(* under way can still do: a PASS carries the password of its sender; as   *)
(* long as the passwords differ nobody has let the other in, and no SERVER *)
(* on its way returns the token of a call; and the calls of the two sides  *)
(* are never both answered.                                                *)
(***************************************************************************)
Signed == \A s \in Server : \A m \in ToSet(net[s]) : m.cmd = "PASS" => m.pass = passwd[s]

Strangers ==
  ~SamePassword =>
    \A s \in Server :
      /\ ~Up(s) /\ ~ncs[s].gotpass
      /\ \A m \in ToSet(net[s]) : m.cmd = "SERVER" => m.token # ncs[Neighbour(s)].token

\* The call of a server is answered, or the answer is on its way.
Answered(s) ==
  /\ ncs[s].token # NoToken
  /\ Up(s) \/ Announce(ncs[s].token) \in ToSet(net[Neighbour(s)])

OneAnswers == ~(\A s \in Server : Answered(s))

IInv == TypeOK /\ Signed /\ Strangers /\ OneAnswers

LEMMA InitInv == Init => IInv
<1> SUFFICES ASSUME Init PROVE IInv
  OBVIOUS
<1>1. \A s \in Server : /\ ncs[s].state = "Init" /\ ncs[s].gotpass = FALSE
                        /\ ncs[s].token = NoToken /\ ToSet(net[s]) = {}
  BY DEF Init, FreshSlot, ToSet
<1> QED
  BY <1>1, InitType DEF IInv, Signed, Strangers, OneAnswers, Answered, Up, Server

(***************************************************************************)
(* Most steps let nobody in: a slot keeps its token or drops it, and what  *)
(* is new on the network introduces nobody.                                *)
(***************************************************************************)
QuietSlot(s) ==
  /\ ncs'[s].token \in {NoToken, ncs[s].token}
  /\ ncs'[s].state = "Connect" =>
       ncs'[s].token = ncs[s].token /\ (Up(s) \/ (Answered(s) /\ SamePassword))
  /\ ncs'[s].gotpass => ncs[s].gotpass \/ SamePassword

QuietNet(s) == \A m \in ToSet(net'[s]) : m \in ToSet(net[s]) \/ m.cmd \in Plain

LEMMA Carried ==
  ASSUME TypeOK, NEW s \in Server, NEW m \in ToSet(net[s])
  PROVE  m \in Message
<1>1. net[s] \in Seq(Message)
  BY DEF TypeOK
<1> QED
  BY <1>1 DEF ToSet

LEMMA QuietKeeps ==
  ASSUME IInv, TypeOK', passwd' = passwd, \A s \in Server : QuietSlot(s) /\ QuietNet(s)
  PROVE  IInv'
<1>1. Signed'
  BY DEF IInv, Signed, QuietNet, Plain
<1>2. Strangers'
  <2> SUFFICES ASSUME ~SamePassword, NEW s \in Server
               PROVE  /\ ~Up(s)' /\ ~ncs'[s].gotpass
                      /\ \A m \in ToSet(net'[s]) :
                           m.cmd = "SERVER" => m.token # ncs'[Neighbour(s)].token
    BY DEF Strangers, SamePassword
  <2>1. ~Up(s)' /\ ~ncs'[s].gotpass
    BY DEF IInv, Strangers, QuietSlot, Up
  <2>2. ASSUME NEW m \in ToSet(net'[s]), m.cmd = "SERVER"
        PROVE  m.token # ncs'[Neighbour(s)].token
    <3>1. m \in ToSet(net[s])
      BY <2>2 DEF QuietNet, Plain
    <3>2. m.token \in 1..MaxTokens
      BY <2>2, <3>1, Carried, MessageKinds DEF IInv
    <3>3. m.token # ncs[Neighbour(s)].token
      BY <2>2, <3>1 DEF IInv, Strangers
    <3>4. ncs'[Neighbour(s)].token \in {NoToken, ncs[Neighbour(s)].token}
      BY TwoServers DEF QuietSlot
    <3> QED
      BY <3>2, <3>3, <3>4 DEF NoToken
  <2> QED
    BY <2>1, <2>2
<1>3. OneAnswers'
  <2>1. ASSUME NEW s \in Server, Answered(s)' PROVE Answered(s)
    <3>1. ncs'[s].token = ncs[s].token /\ ncs[s].token # NoToken
      BY <2>1 DEF Answered, QuietSlot
    <3>2. CASE Up(s)'
      BY <3>1, <3>2 DEF Answered, QuietSlot, Up
    <3>3. CASE Announce(ncs[s].token) \in ToSet(net'[Neighbour(s)])
      <4>1. Announce(ncs[s].token).cmd = "SERVER"
        BY DEF Announce
      <4>2. Announce(ncs[s].token) \in ToSet(net[Neighbour(s)])
        BY <3>3, <4>1, TwoServers DEF QuietNet, Plain
      <4> QED
        BY <3>1, <4>2 DEF Answered
    <3> QED
      BY <2>1, <3>1, <3>2, <3>3 DEF Answered
  <2> QED
    BY <2>1 DEF IInv, OneAnswers
<1> QED
  BY <1>1, <1>2, <1>3 DEF IInv

\* A slot that is not connected afterwards and gains nothing is quiet, and so is one
\* that stays as it is.
LEMMA QuietSlots ==
  ASSUME NEW s \in Server,
         \/ ncs'[s] = ncs[s]
         \/ /\ ncs'[s].token \in {NoToken, ncs[s].token}
            /\ ncs'[s].state # "Connect"
            /\ ncs'[s].gotpass \in {FALSE, ncs[s].gotpass}
  PROVE  QuietSlot(s)
BY DEF QuietSlot, Up

\* Goto changes the state and the time of one slot.
LEMMA GotoSlot ==
  ASSUME TypeOK, NEW s \in Server, NEW st, NEW w, Goto(s, st, w)
  PROVE  /\ ncs'[s].state = st /\ ncs'[s].token = ncs[s].token
         /\ ncs'[s].gotpass = ncs[s].gotpass
         /\ \A n \in Server \ {s} : ncs'[n] = ncs[n]
BY DEF Goto, TypeOK, Slot

LEMMA GotoQuiet ==
  ASSUME TypeOK, NEW s \in Server, NEW st, st # "Connect", NEW w, Goto(s, st, w),
         NEW n \in Server
  PROVE  QuietSlot(n)
<1>1. CASE n = s
  BY <1>1, GotoSlot, QuietSlots
<1>2. CASE n # s
  BY <1>2, GotoSlot, QuietSlots
<1> QED
  BY <1>1, <1>2

LEMMA TimerQuiet ==
  ASSUME TypeOK, TypeOK', NEW s \in Server,
         InitTimer(s) \/ WaitPwdTimer(s) \/ ConnectTimer(s) \/ RetryTimer(s),
         NEW n \in Server
  PROVE  QuietSlot(n) /\ QuietNet(n) /\ passwd' = passwd
<1>1. ncs \in [Server -> Slot]
  BY DEF TypeOK
<1>2. CASE InitTimer(s)
  <2>1. QuietSlot(n)
    BY <1>2, GotoQuiet DEF InitTimer
  <2> QED
    BY <1>2, <2>1 DEF InitTimer, QuietNet
<1>3. CASE WaitPwdTimer(s)
  <2>0. PICK j \in DialDelays :
          ncs' = [ncs EXCEPT ![s].state = "Call", ![s].wait = j, ![s].token = NoToken]
    BY <1>3 DEF WaitPwdTimer
  <2>1. ncs'[n] = ncs[n] \/ (ncs'[n].token = NoToken /\ ncs'[n].state = "Call"
                            /\ ncs'[n].gotpass = ncs[n].gotpass)
    <3>1. CASE n = s
      BY <1>1, <2>0, <3>1 DEF Slot
    <3>2. CASE n # s
      BY <1>1, <2>0, <3>2
    <3> QED
      BY <3>1, <3>2
  <2>2. QuietSlot(n)
    BY <2>1, QuietSlots
  <2> QED
    BY <1>3, <2>2 DEF WaitPwdTimer, Calm, QuietNet
<1>4. CASE ConnectTimer(s)
  <2>1. QuietSlot(n)
    <3>0. \/ ncs' = [ncs EXCEPT ![s] = Lost(s, HalfDelay)]
          \/ ncs' = [ncs EXCEPT ![s] = Lost(s, DeadDelay)]
          \/ ncs' = [ncs EXCEPT ![s].wait = 1]
      BY <1>4 DEF ConnectTimer
    <3>4. ASSUME NEW w PROVE Lost(s, w).token = NoToken /\ Lost(s, w).state = "Dead"
                             /\ Lost(s, w).gotpass = FALSE
      BY <1>1 DEF Lost, Slot
    <3>1. \/ ncs'[n] = ncs[n]
          \/ ncs'[n].token = NoToken /\ ncs'[n].state = "Dead" /\ ncs'[n].gotpass = FALSE
          \/ n = s /\ ncs' = [ncs EXCEPT ![s].wait = 1]
      <4>1. CASE n = s
        BY <1>1, <3>0, <3>4, <4>1
      <4>2. CASE n # s
        BY <1>1, <3>0, <4>2
      <4> QED
        BY <4>1, <4>2
    <3>2. CASE n = s /\ ncs' = [ncs EXCEPT ![s].wait = 1]
      <4>1. /\ ncs'[n].token = ncs[n].token /\ ncs'[n].state = ncs[n].state
            /\ ncs'[n].gotpass = ncs[n].gotpass
        BY <1>1, <3>2 DEF Slot
      <4> QED
        BY <4>1 DEF QuietSlot, Up
    <3> QED
      BY <3>1, <3>2, QuietSlots
  <2>2. net' = net \/ Send(s, <<>>) \/ Send(s, <<Cmd("PING")>>)
    BY <1>4 DEF ConnectTimer
  <2>3. ToSet(<<>>) = {} /\ ToSet(<<Cmd("PING")>>) = {Cmd("PING")} /\ Cmd("PING").cmd = "PING"
        /\ <<>> \in Seq(Message) /\ <<Cmd("PING")>> \in Seq(Message)
    BY CmdIsMessage DEF ToSet, Plain
  <2>4. ToSet(net'[n]) \subseteq ToSet(net[n]) \union {Cmd("PING")}
    <3>1. CASE net' = net
      BY <3>1
    <3>2. CASE Send(s, <<>>)
      BY <2>3, <3>2, SendCarries
    <3>3. CASE Send(s, <<Cmd("PING")>>)
      BY <2>3, <3>3, SendCarries
    <3> QED
      BY <2>2, <3>1, <3>2, <3>3
  <2> QED
    BY <1>4, <2>1, <2>3, <2>4 DEF ConnectTimer, Calm, Plain, QuietNet
<1>5. CASE RetryTimer(s)
  <2>1. QuietSlot(n)
    BY <1>5, GotoQuiet DEF RetryTimer
  <2> QED
    BY <1>5, <2>1 DEF RetryTimer, Calm, QuietNet
<1> QED
  BY <1>2, <1>3, <1>4, <1>5

LEMMA FreshIsQuiet ==
  ASSUME NEW r \in {FreshSlot, [FreshSlot EXCEPT !.state = "Off"]}
  PROVE  r.token = NoToken /\ r.state # "Connect" /\ r.gotpass = FALSE
BY DEF FreshSlot

LEMMA DisturbQuiet ==
  ASSUME TypeOK, TypeOK', NEW s \in Server, Disturb(s) \/ Start(s) \/ MendPath(s),
         NEW n \in Server
  PROVE  QuietSlot(n) /\ QuietNet(n) /\ passwd' = passwd
<1>1. ncs \in [Server -> Slot]
  BY DEF TypeOK
<1>2. CASE ResetLink(s) \/ Shutdown(s)
  <2>1. QuietSlot(n)
    <3>1. ncs'[n] \in {ncs[n], FreshSlot, [FreshSlot EXCEPT !.state = "Off"]}
      BY <1>1, <1>2 DEF ResetLink, Shutdown
    <3> QED
      BY <3>1, FreshIsQuiet, QuietSlots
  <2>2. /\ Bye(s) \in Seq(Message)
        /\ ToSet(Bye(s)) \subseteq {Cmd("SQUIT")} /\ Cmd("SQUIT").cmd = "SQUIT"
    BY CmdIsMessage DEF Bye, Plain, ToSet
  <2>3. ToSet(net'[n]) \subseteq ToSet(net[n]) \union {Cmd("SQUIT")}
    BY <1>2, <2>2, SendCarries DEF ResetLink, Shutdown
  <2> QED
    BY <1>2, <2>1, <2>2, <2>3 DEF ResetLink, Shutdown, QuietNet, Plain
<1>3. CASE Crash(s) \/ Start(s)
  <2>1. ncs'[n] \in {ncs[n], FreshSlot, [FreshSlot EXCEPT !.state = "Off"]}
    BY <1>1, <1>3 DEF Crash, Start
  <2>2. QuietSlot(n)
    BY <2>1, FreshIsQuiet, QuietSlots
  <2> QED
    BY <1>3, <2>2 DEF Crash, Start, Calm, QuietNet
<1>4. CASE Lose(s) \/ Duplicate(s)
  <2>1. net[s] \in Seq(Message) /\ net[s] # <<>> /\ net \in [Server -> Seq(Message)]
    BY <1>4 DEF Lose, Duplicate, TypeOK
  <2>2. /\ ToSet(Tail(net[s])) \subseteq ToSet(net[s])
        /\ ToSet(Append(net[s], Head(net[s]))) \subseteq ToSet(net[s])
    BY <2>1, TailCarries, AgainCarries
  <2>3. \/ net' = [net EXCEPT ![s] = Tail(net[s])]
        \/ net' = [net EXCEPT ![s] = Append(net[s], Head(net[s]))]
    BY <1>4 DEF Lose, Duplicate
  <2>4. ToSet(net'[n]) \subseteq ToSet(net[n])
    BY <2>1, <2>2, <2>3
  <2>5. QuietSlot(n)
    BY <1>4, QuietSlots DEF Lose, Duplicate
  <2> QED
    BY <1>4, <2>4, <2>5 DEF Lose, Duplicate, QuietNet
<1>5. CASE CutPath(s) \/ MendPath(s)
  BY <1>5, QuietSlots DEF CutPath, MendPath, QuietNet
<1> QED
  BY <1>2, <1>3, <1>4, <1>5 DEF Disturb

LEMMA TickQuiet ==
  ASSUME TypeOK, TypeOK', Tick, NEW n \in Server
  PROVE  QuietSlot(n) /\ QuietNet(n) /\ passwd' = passwd
<1>1. ncs[n] \in Slot
  BY DEF TypeOK
<1>2. ncs'[n].token = ncs[n].token /\ ncs'[n].state = ncs[n].state
      /\ ncs'[n].gotpass = ncs[n].gotpass
  BY <1>1 DEF Tick, Later, Slot
<1> QED
  BY <1>2 DEF Tick, QuietSlot, QuietNet, Up

\* The token of a call is nobody's: nothing on the network answers it.
LEMMA CallKeeps ==
  ASSUME IInv, TypeOK', NEW s \in Server, CallTimer(s)
  PROVE  IInv'
<1> DEFINE n == Neighbour(s)
           t == gettoken
<1>1. n \in Server /\ n # s /\ Server = {s, n} /\ Neighbour(n) = s
  BY TwoServers
<1>2. t \in 1..MaxTokens /\ t \notin TokensInUse
  BY TokenIsNew DEF CallTimer
<1> HIDE DEF t
<1>3. ncs \in [Server -> Slot] /\ TypeOK
  BY DEF IInv, TypeOK
<1>4. /\ ncs' = [ncs EXCEPT ![s].state = "WaitPwd", ![s].wait = 1, ![s].token = t]
      /\ Send(s, <<Pass(s), Announce(t)>>) /\ passwd' = passwd
  BY DEF CallTimer, Calm, t
<1>5. /\ ncs'[s].state = "WaitPwd" /\ ncs'[s].token = t /\ ncs'[s].gotpass = ncs[s].gotpass
      /\ ncs'[n] = ncs[n]
  BY <1>1, <1>3, <1>4 DEF Slot
<1>6. /\ ToSet(net'[s]) \subseteq ToSet(net[s]) \union {Pass(s), Announce(t)}
      /\ net'[n] = net[n]
  BY <1>1, <1>2, <1>3, <1>4, IntroductionIsMessages, SendCarries
<1>7. /\ Pass(s).cmd = "PASS" /\ Pass(s).pass = passwd[s]
      /\ Announce(t).cmd = "SERVER" /\ Announce(t).token = t
  BY DEF Pass, Announce
<1>8. ncs[n].token # t /\ \A m \in ToSet(net[n]) : m.cmd = "SERVER" => m.token # t
  BY <1>1, <1>2 DEF TokensInUse
<1>9. Signed'
  BY <1>1, <1>4, <1>6, <1>7 DEF IInv, Signed
<1>10. Strangers'
  <2> SUFFICES ASSUME ~SamePassword PROVE Strangers'
    BY <1>4 DEF Strangers, SamePassword
  <2>1. ~Up(s)' /\ ~ncs'[s].gotpass /\ ~Up(n)' /\ ~ncs'[n].gotpass
    BY <1>1, <1>5 DEF IInv, Strangers, Up
  <2>2. \A m \in ToSet(net'[n]) : m.cmd = "SERVER" => m.token # ncs'[s].token
    BY <1>5, <1>6, <1>8
  <2>3. \A m \in ToSet(net'[s]) : m.cmd = "SERVER" => m.token # ncs'[n].token
    BY <1>1, <1>5, <1>6, <1>7, <1>8 DEF IInv, Strangers
  <2> QED
    BY <1>1, <2>1, <2>2, <2>3 DEF Strangers
<1>11. OneAnswers'
  <2>1. Announce(t) \notin ToSet(net'[n])
    BY <1>6, <1>7, <1>8
  <2>2. ~Answered(s)'
    BY <1>5, <2>1 DEF Answered, Up
  <2> QED
    BY <2>2 DEF OneAnswers
<1> QED
  BY <1>9, <1>10, <1>11 DEF IInv

(***************************************************************************)
(* Receiving.  What a handler does to the three fields that count.         *)
(***************************************************************************)
LEMMA HeardSlot ==
  ASSUME TypeOK, NEW s \in Server
  PROVE  /\ Heard(s) \in Slot /\ Heard(s).state = ncs[s].state
         /\ Heard(s).token = ncs[s].token /\ Heard(s).gotpass = ncs[s].gotpass
<1>1. ncs[s] \in Slot
  BY DEF TypeOK
<1> QED
  BY <1>1 DEF Heard, Slot

LEMMA PassKeeps ==
  ASSUME TypeOK, NEW s \in Server, NEW m, m.cmd = "PASS"
  PROVE  LET r == do_command(s, m) IN
           /\ r.slot.state = ncs[s].state /\ r.slot.token = ncs[s].token
           /\ r.slot.gotpass => m.pass = passwd[s]
           /\ r.answer \in {<<>>, <<Cmd("401")>>}
<1> DEFINE h == Heard(s)
           q == [h EXCEPT !.gotpass = FALSE]
<1>1. h \in Slot /\ h.state = ncs[s].state /\ h.token = ncs[s].token
  BY HeardSlot
<1> HIDE DEF h
<1>2. q.gotpass = FALSE /\ q.state = h.state /\ q.token = h.token
  BY <1>1 DEF Slot
<1>3. [q EXCEPT !.halfdead = @ + 1].gotpass = FALSE
      /\ [q EXCEPT !.halfdead = @ + 1].state = h.state
      /\ [q EXCEPT !.halfdead = @ + 1].token = h.token
  BY <1>1 DEF Slot
<1>4. [q EXCEPT !.gotpass = TRUE].state = h.state /\ [q EXCEPT !.gotpass = TRUE].token = h.token
  BY <1>1 DEF Slot
<1>5. do_command(s, m) =
        IF m.pass # passwd[s] THEN [slot |-> q, answer |-> <<>>]
        ELSE IF ncs[s].state = "Connect"
             THEN [slot |-> [q EXCEPT !.halfdead = @ + 1], answer |-> <<Cmd("401")>>]
             ELSE [slot |-> [q EXCEPT !.gotpass = TRUE], answer |-> <<>>]
  BY DEF do_command, command_pass, h
<1> HIDE DEF q
<1> QED
  BY <1>1, <1>2, <1>3, <1>4, <1>5

LEMMA PlainKeeps ==
  ASSUME TypeOK, NEW s \in Server, NEW m, m.cmd \in Plain
  PROVE  LET d == do_command(s, m) IN
           /\ \/ d.slot.state = ncs[s].state /\ d.slot.token = ncs[s].token
              \/ d.slot.state = "Hangup" /\ d.slot.token = NoToken
           /\ d.slot.gotpass = FALSE \/ d.slot.gotpass = ncs[s].gotpass
           /\ d.answer = <<>> \/ d.answer = <<Cmd("PONG")>>
<1> DEFINE h == Heard(s)
<1>1. /\ h \in Slot /\ h.state = ncs[s].state /\ h.token = ncs[s].token
      /\ h.gotpass = ncs[s].gotpass
  BY HeardSlot
<1>2. \/ do_command(s, m) = command_squit(s)
      \/ do_command(s, m) = [slot |-> h, answer |-> <<Cmd("PONG")>>]
      \/ do_command(s, m) = [slot |-> [h EXCEPT !.halfdead = 0], answer |-> <<>>]
      \/ do_command(s, m) = [slot |-> h, answer |-> <<>>]
  BY DEF do_command, Plain
<1>3. command_squit(s) = [slot |-> [h EXCEPT !.state = "Hangup", !.wait = HangDelay,
                                             !.gotpass = FALSE, !.token = NoToken],
                          answer |-> <<>>]
  BY DEF command_squit
<1> HIDE DEF h
<1>4. CASE do_command(s, m) = command_squit(s)
  <2> DEFINE r == [h EXCEPT !.state = "Hangup", !.wait = HangDelay, !.gotpass = FALSE,
                            !.token = NoToken]
  <2>1. r.state = "Hangup" /\ r.token = NoToken /\ r.gotpass = FALSE
    BY <1>1 DEF Slot
  <2> HIDE DEF r
  <2>2. do_command(s, m) = [slot |-> r, answer |-> <<>>]
    BY <1>3, <1>4 DEF r
  <2> QED
    BY <2>1, <2>2
<1>5. CASE do_command(s, m) = [slot |-> [h EXCEPT !.halfdead = 0], answer |-> <<>>]
  <2> DEFINE r == [h EXCEPT !.halfdead = 0]
  <2>1. r.state = h.state /\ r.token = h.token /\ r.gotpass = h.gotpass
    BY <1>1 DEF Slot
  <2>2. do_command(s, m) = [slot |-> r, answer |-> <<>>]
    BY <1>5
  <2> HIDE DEF r
  <2> QED
    BY <1>1, <2>1, <2>2
<1>6. CASE do_command(s, m) = [slot |-> h, answer |-> <<Cmd("PONG")>>]
  BY <1>1, <1>6
<1>7. CASE do_command(s, m) = [slot |-> h, answer |-> <<>>]
  BY <1>1, <1>7
<1> QED
  BY <1>2, <1>4, <1>5, <1>6, <1>7

\* The four outcomes of a SERVER command.
LEMMA ServerKeeps ==
  ASSUME TypeOK, NEW s \in Server, NEW m, m.cmd = "SERVER"
  PROVE  LET r == do_command(s, m) IN
         /\ r.slot.token = ncs[s].token /\ r.slot.gotpass = ncs[s].gotpass
         /\ \/ /\ ncs[s].token # NoToken /\ m.token = ncs[s].token
               /\ r.slot.state = "Connect" /\ r.answer = <<>>
            \/ ncs[s].token # NoToken /\ r.slot.state = "WaitPwd" /\ r.answer = <<>>
            \/ /\ ncs[s].token = NoToken /\ ncs[s].gotpass
               /\ r.answer = <<Pass(s), Announce(m.token)>>
            \/ r.slot.state = ncs[s].state /\ r.answer = <<>>
<1> DEFINE h == Heard(s)
           c == [h EXCEPT !.state = "Connect", !.wait = 1]
           w == [h EXCEPT !.state = "WaitPwd"]
<1>1. /\ h \in Slot /\ h.state = ncs[s].state /\ h.token = ncs[s].token
      /\ h.gotpass = ncs[s].gotpass
  BY HeardSlot
<1>2. do_command(s, m) =
        IF ncs[s].token # NoToken
        THEN [slot |-> IF m.token = ncs[s].token THEN c ELSE w, answer |-> <<>>]
        ELSE IF ncs[s].gotpass
             THEN [slot |-> c, answer |-> <<Pass(s), Announce(m.token)>>]
             ELSE [slot |-> h, answer |-> <<>>]
  BY DEF do_command, command_server, Connected
<1> HIDE DEF h
<1>3. c.state = "Connect" /\ c.token = h.token /\ c.gotpass = h.gotpass
  BY <1>1 DEF Slot
<1>4. w.state = "WaitPwd" /\ w.token = h.token /\ w.gotpass = h.gotpass
  BY <1>1 DEF Slot
<1> HIDE DEF c, w
<1> QED
  BY <1>1, <1>2, <1>3, <1>4

\* A received datagram: who was let in had the password, and only one side answers.
LEMMA ReceiveKeeps ==
  ASSUME IInv, TypeOK', NEW s \in Server, Receive(s)
  PROVE  IInv'
<1> DEFINE n == Neighbour(s)
           m == Head(net[n])
           r == do_command(s, m)
<1>1. n \in Server /\ n # s /\ Server = {s, n} /\ Neighbour(n) = s
  BY TwoServers
<1>2. TypeOK /\ ncs \in [Server -> Slot] /\ net \in [Server -> Seq(Message)]
  BY DEF IInv, TypeOK
<1>3. net[n] \in Seq(Message) /\ net[n] # <<>>
  BY <1>1, <1>2 DEF Receive
<1>4. /\ Tail(net[n]) \in Seq(Message) /\ ToSet(Tail(net[n])) \subseteq ToSet(net[n])
      /\ m \in Message /\ m \in ToSet(net[n])
  BY <1>3, TailCarries
<1>5. r.slot \in Slot /\ r.answer \in Seq(Message)
  BY <1>2, <1>4, HandlerType DEF Handled
<1>6. passwd' = passwd
  BY DEF Receive, Calm
<1>7. m.cmd = "PASS" => m.pass = passwd[n]
  BY <1>1, <1>4 DEF IInv, Signed
<1>8. SamePassword <=> passwd[s] = passwd[n]
  BY <1>1 DEF SamePassword, Server
<1>9. \/ ncs' = ncs /\ net' = [net EXCEPT ![n] = Tail(@)]
      \/ /\ ncs' = [ncs EXCEPT ![s] = r.slot]
         /\ net' = [net EXCEPT ![n] = Tail(@), ![s] = @ \o Arriving(s, r.answer)]
  BY DEF Receive
<1>10. CASE ncs' = ncs /\ net' = [net EXCEPT ![n] = Tail(@)]
  <2>1. \A x \in Server : QuietSlot(x) /\ QuietNet(x)
    BY <1>2, <1>4, <1>10, QuietSlots DEF QuietNet
  <2> QED
    BY <1>6, <2>1, QuietKeeps
<1>11. CASE /\ ncs' = [ncs EXCEPT ![s] = r.slot]
            /\ net' = [net EXCEPT ![n] = Tail(@), ![s] = @ \o Arriving(s, r.answer)]
  <2>1. ncs'[s] = r.slot /\ ncs'[n] = ncs[n]
    BY <1>1, <1>2, <1>11
  <2>2. net[s] \in Seq(Message) /\ Arriving(s, r.answer) \in Seq(Message)
        /\ ToSet(Arriving(s, r.answer)) \subseteq ToSet(r.answer)
    BY <1>2, <1>5, ArrivingCarries
  <2>3. net'[n] = Tail(net[n]) /\ net'[s] = net[s] \o Arriving(s, r.answer)
    BY <1>1, <1>2, <1>11
  <2>4. /\ ToSet(net'[n]) \subseteq ToSet(net[n])
        /\ ToSet(net'[s]) \subseteq ToSet(net[s]) \union ToSet(r.answer)
    BY <1>4, <2>2, <2>3, ConcatCarries
  <2>5. QuietSlot(n) /\ QuietNet(n)
    BY <1>1, <2>1, <2>4, QuietSlots DEF QuietNet
  <2>6. ASSUME QuietSlot(s), QuietNet(s) PROVE IInv'
    BY <1>1, <1>6, <2>5, <2>6, QuietKeeps
  <2>7. ToSet(<<>>) = {}
    BY DEF ToSet
  <2>8. CASE m.cmd = "PASS"
    <3>1. /\ r.slot.state = ncs[s].state /\ r.slot.token = ncs[s].token
          /\ r.slot.gotpass => m.pass = passwd[s]
          /\ r.answer \in {<<>>, <<Cmd("401")>>}
      BY <1>2, <2>8, PassKeeps
    <3>2. QuietSlot(s)
      BY <1>7, <1>8, <2>1, <2>8, <3>1 DEF QuietSlot, Up
    <3>3. Cmd("401").cmd = "401" /\ ToSet(<<Cmd("401")>>) = {Cmd("401")}
      BY CmdIsMessage DEF Plain
    <3>4. QuietNet(s)
      BY <2>4, <2>7, <3>1, <3>3 DEF QuietNet, Plain
    <3> QED
      BY <2>6, <3>2, <3>4
  <2>9. CASE m.cmd \in Plain
    <3>1. /\ \/ r.slot.state = ncs[s].state /\ r.slot.token = ncs[s].token
             \/ r.slot.state = "Hangup" /\ r.slot.token = NoToken
          /\ r.slot.gotpass \in {FALSE, ncs[s].gotpass}
          /\ r.answer \in {<<>>, <<Cmd("PONG")>>}
      BY <1>2, <2>9, PlainKeeps
    <3>2. QuietSlot(s)
      BY <2>1, <3>1 DEF QuietSlot, Up
    <3>3. Cmd("PONG").cmd = "PONG" /\ ToSet(<<Cmd("PONG")>>) = {Cmd("PONG")}
      BY CmdIsMessage DEF Plain
    <3>4. QuietNet(s)
      BY <2>4, <2>7, <3>1, <3>3 DEF QuietNet, Plain
    <3> QED
      BY <2>6, <3>2, <3>4
  <2>10. CASE m.cmd = "SERVER"
    <3>1. /\ r.slot.token = ncs[s].token /\ r.slot.gotpass = ncs[s].gotpass
          /\ \/ /\ ncs[s].token # NoToken /\ m.token = ncs[s].token
                /\ r.slot.state = "Connect" /\ r.answer = <<>>
             \/ ncs[s].token # NoToken /\ r.slot.state = "WaitPwd" /\ r.answer = <<>>
             \/ /\ ncs[s].token = NoToken /\ ncs[s].gotpass
                /\ r.answer = <<Pass(s), Announce(m.token)>>
             \/ r.slot.state = ncs[s].state /\ r.answer = <<>>
      BY <1>2, <2>10, ServerKeeps
    <3>2. m = Announce(m.token) /\ m.token \in 1..MaxTokens
      BY <1>4, <2>10, MessageKinds
    <3>3. ASSUME r.answer = <<>> PROVE QuietNet(s)
      BY <2>4, <2>7, <3>3 DEF QuietNet
    <3>4. CASE ncs[s].token # NoToken /\ m.token = ncs[s].token /\ r.answer = <<>>
      <4>1. Answered(s)
        BY <1>4, <3>2, <3>4 DEF Answered
      <4>2. SamePassword
        BY <1>1, <1>4, <2>10, <3>4 DEF IInv, Strangers
      <4>3. QuietSlot(s)
        BY <2>1, <3>1, <4>1, <4>2 DEF QuietSlot
      <4> QED
        BY <2>6, <3>3, <3>4, <4>3
    <3>5. CASE (r.slot.state = "WaitPwd" \/ r.slot.state = ncs[s].state) /\ r.answer = <<>>
      <4>1. QuietSlot(s)
        BY <2>1, <3>1, <3>5 DEF QuietSlot, Up
      <4> QED
        BY <2>6, <3>3, <3>5, <4>1
    <3>6. CASE /\ ncs[s].token = NoToken /\ ncs[s].gotpass
               /\ r.answer = <<Pass(s), Announce(m.token)>>
      <4>1. SamePassword /\ SamePassword'
        BY <1>1, <1>6, <3>6 DEF IInv, Strangers, SamePassword
      <4>2. ToSet(r.answer) = {Pass(s), Announce(m.token)}
        BY <1>2, <3>2, <3>6, IntroductionIsMessages
      <4>3. Pass(s).pass = passwd[s] /\ Announce(m.token).cmd = "SERVER"
        BY DEF Pass, Announce
      <4>4. Signed'
        BY <1>1, <1>6, <2>4, <4>2, <4>3 DEF IInv, Signed
      <4>5. ~Answered(s)'
        BY <2>1, <3>1, <3>6 DEF Answered
      <4> QED
        BY <4>1, <4>4, <4>5 DEF IInv, Strangers, OneAnswers
    <3> QED
      BY <3>1, <3>4, <3>5, <3>6
  <2> QED
    BY <1>4, <2>8, <2>9, <2>10, MessageKinds
<1> QED
  BY <1>9, <1>10, <1>11

LEMMA NextInv == IInv /\ [Next]_vars => IInv'
<1> SUFFICES ASSUME IInv, [Next]_vars PROVE IInv'
  OBVIOUS
<1>1. TypeOK /\ TypeOK'
  BY NextType DEF IInv
<1>2. CASE UNCHANGED vars
  BY <1>1, <1>2 DEF vars, IInv, Signed, Strangers, OneAnswers, Answered, Up, SamePassword
<1>3. CASE Tick
  BY <1>1, <1>3, TickQuiet, QuietKeeps, TwoServers DEF Tick
<1>4. ASSUME NEW s \in Server, Step(s) PROVE IInv'
  <2>1. CASE InitTimer(s) \/ WaitPwdTimer(s) \/ ConnectTimer(s) \/ RetryTimer(s)
    BY <1>1, <2>1, TimerQuiet, QuietKeeps
  <2> QED
    BY <1>1, <1>4, <2>1, CallKeeps, ReceiveKeeps DEF Step
<1>5. ASSUME NEW s \in Server, Disturb(s) \/ Start(s) \/ MendPath(s) PROVE IInv'
  BY <1>1, <1>5, DisturbQuiet, QuietKeeps
<1> QED
  BY <1>2, <1>3, <1>4, <1>5 DEF Next

\* A server is connected only with a neighbour that has its password.
THEOREM OnlyAuthorized == Spec => []Authorized
<1>1. IInv => Authorized
  BY DEF IInv, Strangers, Authorized
<1> QED
  BY <1>1, InitInv, NextInv, PTL DEF Spec

\* A connection has at most one caller.
THEOREM NotTwoCallers == Spec => []OneCaller
<1>1. IInv => OneCaller
  BY DEF IInv, OneAnswers, Answered, OneCaller, BothUp
<1> QED
  BY <1>1, InitInv, NextInv, PTL DEF Spec

=============================================================================
