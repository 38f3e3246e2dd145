----------------------------- MODULE TftpProofs -----------------------------
(***************************************************************************)
(* Proofs about Tftp: a file that is shorter than the space of block       *)
(* numbers is loaded as it is, whatever the network loses, duplicates or   *)
(* delays, however often either side times out, and with any window.       *)
(***************************************************************************)
EXTENDS Tftp, WellFoundedInduction, TLAPS

-----------------------------------------------------------------------------
(* Types *)

Clients ==
  [state : {"SEND_RRQ", "OACK", "DATA"}, remote : Sessions \cup {WellKnownPort},
   cur_block : 0..(SequenceSize - 1), prev_block : Nat, wrap_offset : Nat, windowsize : Nat,
   next_ack : Nat, last_nack : Nat, timeout_count : Nat]

Transfers == [st : {"free", "oack", "data", "done"}, window : Nat, acked : Nat, sent : Nat]

Answers == [type : {"OACK", "DATA", "ERROR", "REFUSAL"}, port : Sessions, block : Nat, window : Nat]

Acks == [type : {"ACK"}, port : Sessions, block : Nat]
Requests == {RRQ} \cup Acks

NetStates == {"CONTINUE", "WAIT", "RESTART", "FAIL", "SUCCESS", "ENONET"}

TypeOK ==
  /\ c \in Clients /\ (c.state # "SEND_RRQ" => c.remote \in Sessions)
  /\ mem \in [Blocks -> Nat]
  /\ size \in Nat /\ tries \in Nat /\ faults \in Nat
  /\ net_state \in NetStates
  /\ srv \in [Sessions -> Transfers]
  /\ file \in Nat
  /\ toClient \in Seq(Answers)
  /\ toServer \in Seq(Requests)

-----------------------------------------------------------------------------
(* A transfer without a wrap of block numbers *)

\* What the server sends of a file of n blocks
AnswersOf(n) == {m \in Answers : m.type = "DATA" => m.block \in 1..n}

\* What client cl may have sent: to the server it has settled on, acknowledgements
\* of blocks it has received
RequestsOf(cl) ==
  {RRQ} \cup {m \in Acks : cl.state # "SEND_RRQ" /\ m.port = cl.remote /\ m.block <= cl.cur_block}

\* Blocks 1 to cur_block have been stored, each where it belongs.
ClientInv ==
  /\ c.state = "SEND_RRQ" => c.cur_block = 0
  /\ c.state = "DATA" => c.wrap_offset = 0
  /\ c.cur_block <= file /\ size = c.cur_block
  /\ \A n \in 1..c.cur_block : n \in Blocks /\ mem[n] = n

\* No transfer is ahead of the client.
ServerInv ==
  \A s \in Sessions :
    srv[s].acked = 0 \/ (c.state # "SEND_RRQ" /\ s = c.remote /\ srv[s].acked <= c.cur_block)

NetworkInv == toClient \in Seq(AnswersOf(file)) /\ toServer \in Seq(RequestsOf(c))

TransferInv ==
  /\ net_state = "CONTINUE" => ClientInv /\ ServerInv /\ NetworkInv
  /\ LoadedIsFile

-----------------------------------------------------------------------------

\* There are enough block numbers for a window.
LEMMA EnoughNumbers == SequenceSize \in Nat /\ SequenceSize > 3
BY SequenceAssumption, WindowAssumption

\* What 16 bits of a number are
LEMMA SeqRange ==
  ASSUME NEW n \in Nat
  PROVE  /\ Seq16(n) \in 0..(SequenceSize - 1) /\ Seq16(n) \in Nat
         /\ n < SequenceSize => Seq16(n) = n
         /\ n = SequenceSize => Seq16(n) = 0
BY EnoughNumbers DEF Seq16

\* A sequence over a smaller set
LEMMA SeqGrows ==
  ASSUME NEW S, NEW S1, S \subseteq S1, NEW q \in Seq(S)
  PROVE  q \in Seq(S1)
OBVIOUS

\* The packets left when the first one is taken
LEMMA TakeFirst ==
  ASSUME NEW S, NEW q \in Seq(S), q # <<>>
  PROVE  Head(q) \in S /\ Tail(q) \in Seq(S)
OBVIOUS

\* A packet that is sent
LEMMA AddLast ==
  ASSUME NEW S, NEW q \in Seq(S), NEW m \in S
  PROVE  Append(q, m) \in Seq(S)
OBVIOUS

\* The network makes up no packets.
LEMMA MishapTyped ==
  ASSUME NEW S, NEW q \in Seq(S), q # <<>>, NEW q1 \in Mishap(q)
  PROVE  q1 \in Seq(S)
<1>1. Head(q) \in S /\ Tail(q) \in Seq(S)
  BY TakeFirst
<1> QED BY <1>1, AddLast DEF Mishap

\* A request gets a free transfer.
LEMMA FreeTransfer ==
  ASSUME Free # {}
  PROVE  (CHOOSE s \in Free : \A t \in Free : s <= t) \in Free
<1> DEFINE R == OpToRel(<, Nat)
<1>1. Free \in SUBSET Nat /\ Free # {}
  BY SessionsAssumption DEF Free
<1>2. \A y, x \in Nat : y < x => <<y, x>> \in R
  <2>1. R = {ss \in Nat \X Nat : ss[1] < ss[2]}
    BY DEF OpToRel
  <2> HIDE DEF R
  <2> SUFFICES ASSUME NEW y \in Nat, NEW x \in Nat, y < x PROVE <<y, x>> \in R
    OBVIOUS
  <2>2. <<y, x>> \in Nat \X Nat /\ <<y, x>>[1] = y /\ <<y, x>>[2] = x
    OBVIOUS
  <2>3. <<y, x>>[1] < <<y, x>>[2]
    BY <2>2
  <2> QED BY <2>1, <2>2, <2>3, Zenon
<1>3. IsWellFoundedOn(R, Nat)
  BY NatLessThanWellFounded
<1> HIDE DEF R
<1>4. PICK x \in Free : \A y \in Free : ~(<<y, x>> \in R)
  <2>1. \E x \in Free : \A y \in Free : ~(<<y, x>> \in R)
    BY <1>1, <1>3, WFMin
  <2> QED BY <2>1
<1>5. \A y \in Free : x <= y
  <2> SUFFICES ASSUME NEW y \in Free, ~(x <= y) PROVE FALSE
    OBVIOUS
  <2>1. x \in Nat /\ y \in Nat /\ y < x
    BY <1>1
  <2> QED BY <1>2, <1>4, <2>1, Zenon
<1> QED BY <1>5

-----------------------------------------------------------------------------
(* What the client's functions do to its globals *)

\* The globals when a transfer is started
LEMMA StartedClient ==
  ASSUME NEW cl \in Clients
  PROVE  /\ Started(cl) \in Clients /\ Started(cl).state = "SEND_RRQ" /\ Started(cl).cur_block = 0
<1> DEFINE r1 == [cl EXCEPT !.state = "SEND_RRQ", !.remote = WellKnownPort]
           r2 == [r1 EXCEPT !.cur_block = 0, !.windowsize = 1]
           r3 == [r2 EXCEPT !.last_nack = 0, !.timeout_count = 0]
<1>1. Started(cl) = r3
  BY DEF Started
<1>2. r1 \in Clients /\ r1.state = "SEND_RRQ"
  BY DEF Clients
<1> HIDE DEF r1
<1>3. 0 \in 0..(SequenceSize - 1)
  BY EnoughNumbers
<1>4. r2 \in Clients /\ r2.state = "SEND_RRQ" /\ r2.cur_block = 0
  BY <1>2, <1>3 DEF Clients
<1> HIDE DEF r2
<1>5. r3 \in Clients /\ r3.state = "SEND_RRQ" /\ r3.cur_block = 0
  BY <1>4 DEF Clients
<1> QED BY <1>1, <1>5

\* and at first
LEMMA FirstClient ==
  ASSUME Init
  PROVE  c \in Clients /\ c.state = "SEND_RRQ" /\ c.cur_block = 0
<1>1. c = [state |-> "SEND_RRQ", remote |-> WellKnownPort, cur_block |-> 0, prev_block |-> 0,
           wrap_offset |-> 0, windowsize |-> 1, next_ack |-> 0, last_nack |-> 0, timeout_count |-> 0]
  BY DEF Init, Started
<1> QED BY <1>1, EnoughNumbers DEF Clients, WellKnownPort

\* The client moves on to the next block.
LEMMA AdvancedClient ==
  ASSUME c \in Clients, NEW m \in Answers
  PROVE  /\ Advanced(m) \in Clients /\ Advanced(m).state = "DATA"
         /\ Advanced(m).cur_block = Seq16(c.cur_block + 1)
         /\ c.state = "DATA" => Advanced(m).remote = c.remote /\ Advanced(m).wrap_offset = c.wrap_offset
         /\ c.state # "DATA" => Advanced(m).remote = m.port /\ Advanced(m).wrap_offset = 0
<1> DEFINE q == Seq16(c.cur_block + 1)
           a == IF c.state = "SEND_RRQ" THEN c.windowsize ELSE c.next_ack
           cl == [c EXCEPT !.cur_block = q, !.next_ack = a]
<1>1. q \in 0..(SequenceSize - 1) /\ a \in Nat
  <2>1. c.cur_block + 1 \in Nat
    BY EnoughNumbers DEF Clients
  <2> QED BY <2>1, SeqRange DEF Clients
<1>2. m.port \in Sessions
  BY DEF Answers
<1>3. Advanced(m) = IF c.state = "DATA" THEN cl
                    ELSE [cl EXCEPT !.state = "DATA", !.remote = m.port, !.prev_block = 0, !.wrap_offset = 0]
  BY DEF Advanced, Clients
<1> HIDE DEF q, a
<1>4. /\ cl \in Clients /\ cl.state = c.state /\ cl.cur_block = q /\ cl.remote = c.remote
      /\ cl.wrap_offset = c.wrap_offset
  BY <1>1 DEF Clients
<1> HIDE DEF cl
<1>5. CASE c.state = "DATA"
  BY <1>3, <1>4, <1>5 DEF q
<1>6. CASE c.state # "DATA"
  <2>1. Advanced(m) = [cl EXCEPT !.state = "DATA", !.remote = m.port, !.prev_block = 0, !.wrap_offset = 0]
    BY <1>3, <1>6
  <2>2. Advanced(m) = [state |-> "DATA", remote |-> m.port, cur_block |-> cl.cur_block, prev_block |-> 0,
                       wrap_offset |-> 0, windowsize |-> cl.windowsize, next_ack |-> cl.next_ack,
                       last_nack |-> cl.last_nack, timeout_count |-> cl.timeout_count]
    BY <1>4, <2>1 DEF Clients
  <2>3. /\ cl.cur_block \in 0..(SequenceSize - 1) /\ cl.windowsize \in Nat /\ cl.next_ack \in Nat
        /\ cl.last_nack \in Nat /\ cl.timeout_count \in Nat
    BY <1>4 DEF Clients
  <2>4. Advanced(m) \in Clients
    BY <1>2, <2>2, <2>3 DEF Clients
  <2> QED BY <1>4, <1>6, <2>2, <2>4 DEF q
<1> QED BY <1>5, <1>6

\* update_block_number()
LEMMA UpdatedClient ==
  ASSUME NEW cl \in Clients
  PROVE  /\ update_block_number(cl) \in Clients
         /\ update_block_number(cl).state = cl.state /\ update_block_number(cl).remote = cl.remote
         /\ update_block_number(cl).cur_block = cl.cur_block
         /\ cl.cur_block # 0 => update_block_number(cl).wrap_offset = cl.wrap_offset
<1> DEFINE w == IF cl.cur_block = 0 /\ cl.prev_block # 0 THEN cl.wrap_offset + SequenceSize ELSE cl.wrap_offset
<1>1. w \in Nat /\ (cl.cur_block # 0 => w = cl.wrap_offset) /\ cl.cur_block \in Nat
  BY EnoughNumbers DEF Clients
<1>2. update_block_number(cl) =
        [cl EXCEPT !.wrap_offset = w, !.prev_block = cl.cur_block, !.timeout_count = 0]
  BY DEF update_block_number, Clients
<1> HIDE DEF w
<1>3. update_block_number(cl) =
        [state |-> cl.state, remote |-> cl.remote, cur_block |-> cl.cur_block, prev_block |-> cl.cur_block,
         wrap_offset |-> w, windowsize |-> cl.windowsize, next_ack |-> cl.next_ack,
         last_nack |-> cl.last_nack, timeout_count |-> 0]
  BY <1>2 DEF Clients
<1>4. /\ cl.state \in {"SEND_RRQ", "OACK", "DATA"} /\ cl.remote \in Sessions \cup {WellKnownPort}
      /\ cl.cur_block \in 0..(SequenceSize - 1) /\ cl.windowsize \in Nat /\ cl.next_ack \in Nat
      /\ cl.last_nack \in Nat
  BY DEF Clients
<1>5. update_block_number(cl) \in Clients
  BY <1>1, <1>3, <1>4 DEF Clients
<1> QED BY <1>1, <1>3, <1>5

\* The acknowledgement at the end of a window
LEMMA AcknowledgedClient ==
  ASSUME NEW cl \in Clients, cl.state = "DATA", cl.remote \in Sessions
  PROVE  /\ Acknowledge(cl).c \in Clients
         /\ Acknowledge(cl).c.state = cl.state /\ Acknowledge(cl).c.remote = cl.remote
         /\ Acknowledge(cl).c.cur_block = cl.cur_block
         /\ Acknowledge(cl).c.wrap_offset = cl.wrap_offset
         /\ Acknowledge(cl).out \in Seq({Ack(cl)})
<1>1. tftp_send(cl) = Ack(cl)
  BY DEF tftp_send
<1>2. CASE cl.cur_block = cl.next_ack
  <2> DEFINE a == Seq16(cl.next_ack + cl.windowsize)
             c1 == [cl EXCEPT !.next_ack = a]
  <2>1. a \in Nat
    BY SeqRange DEF Clients
  <2>2. Acknowledge(cl) = [c |-> c1, out |-> <<Ack(cl)>>]
    BY <1>1, <1>2 DEF Acknowledge, Clients
  <2> HIDE DEF a
  <2>3. /\ c1 \in Clients /\ c1.state = cl.state /\ c1.remote = cl.remote /\ c1.cur_block = cl.cur_block
        /\ c1.wrap_offset = cl.wrap_offset
    BY <2>1 DEF Clients
  <2> HIDE DEF c1
  <2>4. <<Ack(cl)>> \in Seq({Ack(cl)})
    OBVIOUS
  <2> QED BY <2>2, <2>3, <2>4
<1>3. CASE cl.cur_block # cl.next_ack
  <2>1. Acknowledge(cl) = [c |-> cl, out |-> <<>>]
    BY <1>3 DEF Acknowledge
  <2> QED BY <2>1
<1> QED BY <1>2, <1>3

\* An acknowledgement names a block received and the server settled on.
LEMMA AckTyped ==
  ASSUME NEW cl \in Clients, cl.remote \in Sessions, cl.state # "SEND_RRQ"
  PROVE  Ack(cl) \in Acks /\ Ack(cl) \in RequestsOf(cl)
<1>1. cl.cur_block \in Nat
  BY EnoughNumbers DEF Clients
<1>2. Ack(cl) \in Acks /\ Ack(cl).port = cl.remote /\ Ack(cl).block = cl.cur_block
  BY <1>1 DEF Ack, Acks
<1> QED BY <1>1, <1>2 DEF RequestsOf

\* Whatever tftp_send() sends may be on its way.
LEMMA SendTyped ==
  ASSUME NEW cl \in Clients, cl.state # "SEND_RRQ" => cl.remote \in Sessions
  PROVE  tftp_send(cl) \in Requests /\ tftp_send(cl) \in RequestsOf(cl)
BY AckTyped DEF tftp_send, Requests, RequestsOf

\* An option acknowledgement settles the server and the window.
Oacked(cl, p, w) == [cl EXCEPT !.state = "OACK", !.remote = p, !.windowsize = w, !.next_ack = w]

\* The transfer is where it was.
LEMMA OackClient ==
  ASSUME NEW cl \in Clients, NEW p \in Sessions, NEW w \in Nat
  PROVE  /\ Oacked(cl, p, w) \in Clients /\ Oacked(cl, p, w).state = "OACK"
         /\ Oacked(cl, p, w).remote = p /\ Oacked(cl, p, w).cur_block = cl.cur_block
<1> DEFINE r1 == [cl EXCEPT !.state = "OACK", !.remote = p]
           r2 == [r1 EXCEPT !.windowsize = w, !.next_ack = w]
<1>1. r1 \in Clients /\ r1.state = "OACK" /\ r1.remote = p /\ r1.cur_block = cl.cur_block
  BY DEF Clients
<1>2. Oacked(cl, p, w) = r2
  BY DEF Oacked
<1> HIDE DEF r1
<1>3. r2 \in Clients /\ r2.state = "OACK" /\ r2.remote = p /\ r2.cur_block = cl.cur_block
  BY <1>1 DEF Clients
<1> QED BY <1>2, <1>3

\* The client after a step that does not change where the transfer is
Keeps(cl, c1) ==
  /\ c1 \in Clients /\ c1.state = cl.state /\ c1.remote = cl.remote
  /\ c1.cur_block = cl.cur_block /\ c1.wrap_offset = cl.wrap_offset

\* A NACK is noted,
LEMMA NackedClient ==
  ASSUME NEW cl \in Clients,
         NEW c1, c1 = [cl EXCEPT !.last_nack = cl.cur_block, !.next_ack = Seq16(cl.cur_block + cl.windowsize)]
  PROVE  Keeps(cl, c1)
<1> DEFINE a == Seq16(cl.cur_block + cl.windowsize)
<1>1. cl.cur_block \in Nat /\ a \in Nat
  <2>1. cl.cur_block \in Nat /\ cl.windowsize \in Nat
    BY EnoughNumbers DEF Clients
  <2>2. cl.cur_block + cl.windowsize \in Nat
    BY <2>1
  <2> QED BY <2>1, <2>2, SeqRange
<1>2. c1 = [cl EXCEPT !.last_nack = cl.cur_block, !.next_ack = a]
  OBVIOUS
<1> HIDE DEF a
<1> QED BY <1>1, <1>2 DEF Clients, Keeps

\* or a timeout counted.
LEMMA TimedClient ==
  ASSUME NEW cl \in Clients, NEW c1, c1 = [cl EXCEPT !.timeout_count = @ + 1]
  PROVE  Keeps(cl, c1)
<1>1. cl.timeout_count \in Nat
  BY DEF Clients
<1>2. c1 = [cl EXCEPT !.timeout_count = cl.timeout_count + 1]
  BY DEF Clients
<1> QED BY <1>1, <1>2 DEF Clients, Keeps

-----------------------------------------------------------------------------
(* What each packet does to the client *)

\* A packet is taken.
LEMMA ClientTakes ==
  ASSUME TypeOK, Receive
  PROVE  /\ Head(toClient) \in Answers /\ Head(toClient).port \in Sessions
         /\ Head(toClient).block \in Nat /\ Head(toClient).window \in Nat
         /\ toClient' \in Seq(Answers) /\ net_state = "CONTINUE"
         /\ UNCHANGED <<srv, file, faults>>
<1>1. Head(toClient) \in Answers /\ toClient' \in Seq(Answers)
  BY TakeFirst DEF TypeOK, Receive
<1> QED BY <1>1 DEF Receive, Answers

\* net_start_again(), called by a handler or by net_loop(): the attempt is over.
LEMMA StartsAgain ==
  ASSUME tries \in Nat, HandlerStartsAgain \/ net_start_again("ENONET", "ENONET")
  PROVE  net_state' \in NetStates \ {"CONTINUE", "SUCCESS"} /\ tries' \in Nat
BY DEF HandlerStartsAgain, net_start_again, NetStates

\* What is left to say when it is
LEMMA AttemptOver ==
  ASSUME net_state' \in NetStates \ {"CONTINUE", "SUCCESS"}
  PROVE  net_state' \in NetStates /\ TransferInv'
BY DEF TransferInv, LoadedIsFile

\* The client and its answer when the next block has been stored
DataClient(m) ==
  LET cl == update_block_number(Advanced(m))
  IN IF m.block = file THEN [c |-> cl, out |-> <<tftp_send(cl)>>] ELSE Acknowledge(cl)

\* Its place in the transfer
LEMMA DataClientIs ==
  ASSUME TypeOK, NEW m \in Answers, FromServer(m)
  PROVE  LET cl == update_block_number(Advanced(m)) IN
         /\ cl \in Clients /\ cl.state = "DATA" /\ cl.remote \in Sessions
         /\ cl.cur_block = Seq16(c.cur_block + 1)
         /\ c.state # "SEND_RRQ" => cl.remote = c.remote
         /\ cl.cur_block # 0 => cl.wrap_offset = IF c.state = "DATA" THEN c.wrap_offset ELSE 0
         /\ Keeps(cl, DataClient(m).c) /\ DataClient(m).out \in Seq({Ack(cl)})
<1> DEFINE a == Advanced(m)
           cl == update_block_number(a)
<1>1. /\ c \in Clients /\ c.state \in {"SEND_RRQ", "OACK", "DATA"}
      /\ (c.state # "SEND_RRQ" => c.remote \in Sessions) /\ m.port \in Sessions
  BY DEF TypeOK, Clients, Answers
<1>2. /\ a \in Clients /\ a.state = "DATA" /\ a.cur_block = Seq16(c.cur_block + 1)
      /\ a.remote = (IF c.state = "DATA" THEN c.remote ELSE m.port)
      /\ a.wrap_offset = (IF c.state = "DATA" THEN c.wrap_offset ELSE 0)
  BY <1>1, AdvancedClient
<1> HIDE DEF a
<1>3. /\ cl \in Clients /\ cl.state = "DATA" /\ cl.cur_block = a.cur_block /\ cl.remote = a.remote
      /\ cl.cur_block # 0 => cl.wrap_offset = a.wrap_offset
  BY <1>2, UpdatedClient
<1> HIDE DEF cl
<1>4. cl.remote \in Sessions /\ (c.state # "SEND_RRQ" => cl.remote = c.remote)
  BY <1>1, <1>2, <1>3 DEF FromServer
<1>5. DataClient(m) = IF m.block = file THEN [c |-> cl, out |-> <<tftp_send(cl)>>] ELSE Acknowledge(cl)
  BY DEF DataClient, cl, a
<1>6. Keeps(cl, DataClient(m).c) /\ DataClient(m).out \in Seq({Ack(cl)})
  <2>1. CASE m.block = file
    <3>1. tftp_send(cl) = Ack(cl)
      BY <1>3 DEF tftp_send
    <3>2. <<Ack(cl)>> \in Seq({Ack(cl)})
      OBVIOUS
    <3>3. DataClient(m).c = cl /\ DataClient(m).out = <<Ack(cl)>>
      BY <1>5, <2>1, <3>1
    <3> QED BY <1>3, <3>2, <3>3 DEF Keeps
  <2>2. CASE m.block # file
    <3>1. DataClient(m) = Acknowledge(cl)
      BY <1>5, <2>2
    <3> QED BY <1>3, <1>4, <3>1, AcknowledgedClient DEF Keeps
  <2> QED BY <2>1, <2>2
<1> QED BY <1>2, <1>3, <1>4, <1>6 DEF cl, a

\* What has been sent may still be on its way when the transfer has moved on.
LEMMA RequestsStay ==
  ASSUME NEW cl \in Clients, NEW c1 \in Clients, cl.cur_block <= c1.cur_block,
         cl.state # "SEND_RRQ" => c1.state # "SEND_RRQ" /\ c1.remote = cl.remote
  PROVE  RequestsOf(cl) \subseteq RequestsOf(c1)
<1>1. cl.cur_block \in Nat /\ c1.cur_block \in Nat
  BY EnoughNumbers DEF Clients
<1>2. \A m \in Acks : m.block \in Nat
  BY DEF Acks
<1> QED BY <1>1, <1>2 DEF RequestsOf

\* So the server and the network fit the client, when it sends no more than it
\* has received.
LEMMA OthersStay ==
  ASSUME TypeOK, ServerInv, NetworkInv, srv' = srv, file' = file, c' \in Clients, c.cur_block <= c'.cur_block,
         c.state # "SEND_RRQ" => c'.state # "SEND_RRQ" /\ c'.remote = c.remote,
         toClient' \in Seq(AnswersOf(file)),
         NEW out \in Seq(RequestsOf(c')), toServer' = toServer \o out
  PROVE  ServerInv' /\ NetworkInv'
<1>1. c \in Clients /\ c.cur_block \in Nat /\ c'.cur_block \in Nat /\ srv \in [Sessions -> Transfers]
  BY EnoughNumbers DEF TypeOK, Clients
<1>2. \A s \in Sessions : srv[s].acked \in Nat
  BY <1>1 DEF Transfers
<1>3. ServerInv'
  BY <1>1, <1>2 DEF ServerInv
<1>4. RequestsOf(c) \subseteq RequestsOf(c')
  BY <1>1, RequestsStay
<1>5. toServer \in Seq(RequestsOf(c'))
  BY <1>4, SeqGrows DEF NetworkInv
<1>6. toServer' \in Seq(RequestsOf(c'))
  BY <1>5
<1> QED BY <1>3, <1>6 DEF NetworkInv

\* The same without an answer
LEMMA NothingSent ==
  ASSUME TypeOK, ServerInv, NetworkInv, srv' = srv, file' = file, c' \in Clients, c.cur_block <= c'.cur_block,
         c.state # "SEND_RRQ" => c'.state # "SEND_RRQ" /\ c'.remote = c.remote,
         toClient' \in Seq(AnswersOf(file)), toServer' = toServer
  PROVE  ServerInv' /\ NetworkInv'
<1>1. toServer' = toServer \o <<>> /\ <<>> \in Seq(RequestsOf(c'))
  <2>1. toServer \in Seq(Requests)
    BY DEF TypeOK
  <2> QED BY <2>1
<1> QED BY <1>1, OthersStay

\* The first packet of a transfer is one of the file's.
LEMMA FirstAnswer ==
  ASSUME NetworkInv, Receive
  PROVE  toClient' \in Seq(AnswersOf(file)) /\ Head(toClient) \in AnswersOf(file)
BY TakeFirst DEF NetworkInv, Receive

\* A packet from elsewhere, an option acknowledgement, an error and a refusal
LEMMA OtherPackets ==
  ASSUME TypeOK, HandleForeign \/ HandleOack \/ HandleError \/ HandleRefusal
  PROVE  TypeOK' /\ (TransferInv => TransferInv')
<1> DEFINE m == Head(toClient)
<1>1. Receive
  BY DEF HandleForeign, HandleOack, HandleError, HandleRefusal
<1>2. /\ m \in Answers /\ m.port \in Sessions /\ m.block \in Nat /\ m.window \in Nat
      /\ toClient' \in Seq(Answers) /\ net_state = "CONTINUE"
      /\ UNCHANGED <<srv, file, faults>>
  BY <1>1, ClientTakes
<1>3. TransferInv => /\ ClientInv /\ ServerInv /\ NetworkInv
                     /\ toClient' \in Seq(AnswersOf(file))
  BY <1>1, <1>2, FirstAnswer DEF TransferInv
<1>4. c \in Clients /\ c.cur_block \in Nat
  BY EnoughNumbers DEF TypeOK, Clients
<1>5. CASE HandleForeign
  <2>1. UNCHANGED <<c, mem, size, net_state, tries, toServer>>
    BY <1>5 DEF HandleForeign, Ignore
  <2>2. TypeOK'
    BY <1>2, <2>1 DEF TypeOK
  <2>3. ASSUME TransferInv PROVE TransferInv'
    <3>1. ClientInv'
      BY <1>2, <1>3, <2>1, <2>3 DEF ClientInv
    <3>2. ServerInv' /\ NetworkInv'
      BY <1>2, <1>3, <1>4, <2>1, <2>3, NothingSent
    <3>3. LoadedIsFile'
      BY <1>2, <2>1 DEF LoadedIsFile
    <3> QED BY <3>1, <3>2, <3>3 DEF TransferInv
  <2> QED BY <2>2, <2>3
<1>6. CASE HandleOack
  <2>1. /\ c' = Oacked(c, m.port, m.window)
        /\ toServer' = Append(toServer, tftp_send(c')) /\ UNCHANGED <<mem, size, net_state, tries>>
        /\ FromServer(m)
    BY <1>6 DEF HandleOack, Oacked
  <2> HIDE DEF m
  <2>2. c' \in Clients /\ c'.state = "OACK" /\ c'.remote = m.port /\ c'.cur_block = c.cur_block
    BY <1>2, <1>4, <2>1, OackClient
  <2>3. tftp_send(c') \in Requests /\ tftp_send(c') \in RequestsOf(c')
    BY <1>2, <2>2, SendTyped
  <2> DEFINE ack == tftp_send(c')
  <2>4. toServer' = Append(toServer, ack) /\ ack \in Requests /\ ack \in RequestsOf(c')
    BY <2>1, <2>3
  <2> HIDE DEF ack
  <2>5. TypeOK'
    BY <1>2, <2>1, <2>2, <2>4, AddLast DEF TypeOK
  <2>6. ASSUME TransferInv PROVE TransferInv'
    <3>1. ClientInv'
      BY <1>2, <1>3, <2>1, <2>2, <2>6 DEF ClientInv
    <3>2. ServerInv' /\ NetworkInv'
      <4>1. <<ack>> \in Seq(RequestsOf(c')) /\ toServer' = toServer \o <<ack>>
        BY <2>4 DEF TypeOK
      <4>2. c.state # "SEND_RRQ" => c'.state # "SEND_RRQ" /\ c'.remote = c.remote
        BY <2>1, <2>2 DEF FromServer
      <4>3. c.cur_block <= c'.cur_block
        BY <1>4, <2>2
      <4> QED BY <1>2, <1>3, <2>2, <2>6, <4>1, <4>2, <4>3, OthersStay
    <3>3. LoadedIsFile'
      BY <1>2, <2>1 DEF LoadedIsFile
    <3> QED BY <3>1, <3>2, <3>3 DEF TransferInv
  <2> QED BY <2>5, <2>6
<1>7. CASE HandleError \/ HandleRefusal
  <2>1. /\ \/ net_state' = "FAIL" /\ UNCHANGED tries
           \/ HandlerStartsAgain
        /\ UNCHANGED <<c, mem, size, toServer>>
    BY <1>7 DEF HandleError, HandleRefusal
  <2>2. tries \in Nat
    BY DEF TypeOK
  <2>3. net_state' \in NetStates \ {"CONTINUE", "SUCCESS"} /\ tries' \in Nat
    BY <2>1, <2>2, StartsAgain DEF NetStates
  <2>4. net_state' \in NetStates /\ TransferInv'
    BY <2>3, AttemptOver
  <2> QED BY <1>2, <2>1, <2>3, <2>4 DEF TypeOK
<1> QED BY <1>5, <1>6, <1>7

\* A block that is not expected
LEMMA UnexpectedBlock ==
  ASSUME TypeOK, HandleUnexpected \/ HandleNotFirst
  PROVE  TypeOK' /\ (TransferInv => TransferInv')
<1> DEFINE m == Head(toClient)
<1>1. Receive
  BY DEF HandleUnexpected, HandleNotFirst
<1>2. /\ m \in Answers /\ m.port \in Sessions /\ m.block \in Nat /\ m.window \in Nat
      /\ toClient' \in Seq(Answers) /\ net_state = "CONTINUE"
      /\ UNCHANGED <<srv, file, faults>>
  BY <1>1, ClientTakes
<1>3. TransferInv => /\ ClientInv /\ ServerInv /\ NetworkInv
                     /\ toClient' \in Seq(AnswersOf(file))
  BY <1>1, <1>2, FirstAnswer DEF TransferInv
<1>4. c \in Clients /\ c.cur_block \in Nat /\ (c.state # "SEND_RRQ" => c.remote \in Sessions)
  BY EnoughNumbers DEF TypeOK, Clients
<1>5. CASE HandleUnexpected
  <2>1. \/ UNCHANGED <<c, toServer>>
        \/ /\ toServer' = Append(toServer, tftp_send(c))
           /\ c' = [c EXCEPT !.last_nack = c.cur_block, !.next_ack = Seq16(c.cur_block + c.windowsize)]
    BY <1>5 DEF HandleUnexpected, Ignore, Nack
  <2>2. UNCHANGED <<mem, size, net_state, tries>>
    BY <1>5 DEF HandleUnexpected, Ignore
  <2>3. Keeps(c, c')
    BY <1>4, <2>1, NackedClient DEF Keeps
  <2>4. /\ c' \in Clients /\ c'.state = c.state /\ c'.remote = c.remote
        /\ c'.cur_block = c.cur_block /\ c'.wrap_offset = c.wrap_offset
    BY <2>3 DEF Keeps
  <2> DEFINE ack == tftp_send(c)
  <2>5. ack \in Requests /\ ack \in RequestsOf(c)
    BY <1>4, SendTyped
  <2>6. RequestsOf(c') = RequestsOf(c)
    BY <2>4 DEF RequestsOf
  <2>7. toServer' = toServer \/ toServer' = Append(toServer, ack)
    BY <2>1
  <2> HIDE DEF ack
  <2>8. TypeOK'
    BY <1>2, <2>2, <2>4, <2>5, <2>7, AddLast DEF TypeOK
  <2>9. ASSUME TransferInv PROVE TransferInv'
    <3>1. ClientInv'
      BY <1>2, <1>3, <2>2, <2>4, <2>9 DEF ClientInv
    <3>2. ServerInv' /\ NetworkInv'
      <4>1. <<ack>> \in Seq(RequestsOf(c')) /\ (toServer' = toServer \/ toServer' = toServer \o <<ack>>)
        BY <2>5, <2>6, <2>7 DEF TypeOK
      <4>2. c.cur_block <= c'.cur_block
        BY <1>4, <2>4
      <4> QED BY <1>2, <1>3, <2>4, <2>9, <4>1, <4>2, OthersStay, NothingSent
    <3>3. LoadedIsFile'
      BY <1>2, <2>2 DEF LoadedIsFile
    <3> QED BY <3>1, <3>2, <3>3 DEF TransferInv
  <2> QED BY <2>8, <2>9
<1>6. CASE HandleNotFirst
  <2>1. HandlerStartsAgain /\ UNCHANGED <<mem, size, toServer>> /\ c' = Advanced(m) /\ FromServer(m)
    BY <1>6 DEF HandleNotFirst
  <2>2. c' \in Clients /\ c'.remote \in Sessions
    <3>1. c.state \in {"SEND_RRQ", "OACK", "DATA"}
      BY <1>4 DEF Clients
    <3> HIDE DEF m
    <3> QED BY <1>2, <1>4, <2>1, <3>1, AdvancedClient
  <2>3. tries \in Nat
    BY DEF TypeOK
  <2>4. net_state' \in NetStates \ {"CONTINUE", "SUCCESS"} /\ tries' \in Nat
    BY <2>1, <2>3, StartsAgain
  <2>5. net_state' \in NetStates /\ TransferInv'
    BY <2>4, AttemptOver
  <2> QED BY <1>2, <2>1, <2>2, <2>4, <2>5 DEF TypeOK
<1> QED BY <1>5, <1>6

\* The next block of the file
LEMMA NextBlock ==
  ASSUME TypeOK, HandleData
  PROVE  TypeOK' /\ (file < SequenceSize /\ TransferInv => TransferInv')
<1> DEFINE m == Head(toClient)
           cl == update_block_number(Advanced(m))
           n == StoreAt(cl)
<1>1. Receive /\ FromServer(m) /\ IsExpected(m) /\ ~NotTheFirst(m) /\ m.type = "DATA"
  BY DEF HandleData
<1>2. /\ m \in Answers /\ m.port \in Sessions /\ m.block \in Nat
      /\ toClient' \in Seq(Answers) /\ net_state = "CONTINUE"
      /\ UNCHANGED <<tries, srv, file, faults>>
  BY <1>1, ClientTakes DEF HandleData
<1>3. /\ c \in Clients /\ c.cur_block \in Nat /\ c.state \in {"SEND_RRQ", "OACK", "DATA"} /\ size \in Nat
      /\ file \in Nat /\ LoadLimit \in Nat /\ mem \in [Blocks -> Nat] /\ Blocks = 1..LoadLimit
      /\ toServer \in Seq(Requests)
  BY EnoughNumbers, SizesAssumption DEF TypeOK, Clients, Blocks
<1>4. /\ cl \in Clients /\ cl.state = "DATA" /\ cl.remote \in Sessions
      /\ cl.cur_block = Seq16(c.cur_block + 1)
      /\ c.state # "SEND_RRQ" => cl.remote = c.remote
      /\ cl.cur_block # 0 => cl.wrap_offset = IF c.state = "DATA" THEN c.wrap_offset ELSE 0
      /\ Keeps(cl, DataClient(m).c) /\ DataClient(m).out \in Seq({Ack(cl)})
  BY <1>1, <1>2, DataClientIs
<1>5. \/ n > LoadLimit /\ c' = cl /\ net_state' = "FAIL" /\ UNCHANGED <<mem, size, toServer>>
      \/ /\ ~(n > LoadLimit)
         /\ mem' = [mem EXCEPT ![n] = m.block] /\ size' = NewSize(cl)
         /\ c' = DataClient(m).c /\ toServer' = toServer \o DataClient(m).out
         /\ net_state' = IF m.block = file THEN "SUCCESS" ELSE net_state
  BY DEF HandleData, DataClient
<1>6. c.state # "DATA" => cl.cur_block = 1
  <2>1. Advanced(m).cur_block = Seq16(c.cur_block + 1)
    BY <1>2, <1>3, AdvancedClient
  <2> QED BY <1>1, <1>4, <2>1 DEF NotTheFirst
<1>7. n = cl.cur_block + cl.wrap_offset /\ NewSize(cl) = IF size < n THEN n ELSE size
  BY DEF StoreAt, NewSize
<1> DEFINE new == DataClient(m).c
           out == DataClient(m).out
<1>8. Seq16(m.block) = cl.cur_block
  BY <1>1, <1>4 DEF IsExpected
<1> HIDE DEF m, cl, n, new, out
<1>9. /\ cl.cur_block \in Nat /\ cl.wrap_offset \in Nat /\ n \in Nat
      /\ new \in Clients /\ new.state = "DATA" /\ new.remote = cl.remote
      /\ new.cur_block = cl.cur_block /\ new.wrap_offset = cl.wrap_offset
  BY <1>4, <1>7, EnoughNumbers DEF Clients, Keeps, new
<1>10. out \in Seq(Requests) /\ out \in Seq(RequestsOf(new))
  <2>1. Ack(cl) \in Acks /\ Ack(cl) \in RequestsOf(cl)
    BY <1>4, AckTyped
  <2>2. RequestsOf(cl) = RequestsOf(new)
    BY <1>4, <1>9 DEF RequestsOf
  <2>3. {Ack(cl)} \subseteq Requests /\ {Ack(cl)} \subseteq RequestsOf(new)
    BY <2>1, <2>2 DEF Requests
  <2>4. out \in Seq({Ack(cl)})
    BY <1>4 DEF out
  <2> QED BY <2>3, <2>4, SeqGrows
<1>11. CASE n > LoadLimit /\ c' = cl /\ net_state' = "FAIL" /\ UNCHANGED <<mem, size, toServer>>
  <2>1. net_state' \in NetStates /\ TransferInv'
    BY <1>11, AttemptOver DEF NetStates
  <2> QED BY <1>2, <1>4, <1>11, <2>1 DEF TypeOK
<1>12. CASE /\ ~(n > LoadLimit)
            /\ mem' = [mem EXCEPT ![n] = m.block] /\ size' = NewSize(cl)
            /\ c' = new /\ toServer' = toServer \o out
            /\ net_state' = IF m.block = file THEN "SUCCESS" ELSE net_state
  <2>1. TypeOK'
    <3>1. mem' \in [Blocks -> Nat] /\ size' \in Nat
      BY <1>2, <1>3, <1>7, <1>9, <1>12
    <3>2. toServer' \in Seq(Requests)
      BY <1>3, <1>10, <1>12
    <3>3. c' \in Clients /\ c'.remote \in Sessions
      BY <1>4, <1>9, <1>12
    <3>4. net_state' \in NetStates
      BY <1>2, <1>12 DEF NetStates
    <3> QED BY <1>2, <3>1, <3>2, <3>3, <3>4 DEF TypeOK
  <2>2. ASSUME file < SequenceSize, TransferInv PROVE TransferInv'
    <3>1. ClientInv /\ ServerInv /\ NetworkInv
      BY <1>2, <2>2 DEF TransferInv
    <3>2. toClient' \in Seq(AnswersOf(file)) /\ m \in AnswersOf(file)
      BY <1>1, <3>1, FirstAnswer DEF m
    <3>3. m.block \in 1..file
      BY <1>1, <3>2 DEF AnswersOf
    <3>4. cl.cur_block = m.block /\ cl.cur_block = c.cur_block + 1
      <4>1. Seq16(m.block) = m.block
        BY <1>2, <1>3, <2>2, <3>3, EnoughNumbers, SeqRange
      <4>2. c.cur_block <= file /\ c.cur_block + 1 \in Nat
        BY <1>3, <3>1 DEF ClientInv
      <4>3. c.cur_block + 1 < SequenceSize \/ c.cur_block + 1 = SequenceSize
        BY <1>3, <2>2, <4>2, EnoughNumbers
      <4>4. c.cur_block + 1 = SequenceSize => Seq16(c.cur_block + 1) = 0
        BY <4>2, SeqRange
      <4>5. c.cur_block + 1 < SequenceSize => Seq16(c.cur_block + 1) = c.cur_block + 1
        BY <4>2, SeqRange
      <4> QED BY <1>4, <1>8, <3>3, <4>1, <4>3, <4>4, <4>5
    <3>5. cl.wrap_offset = 0 /\ n = m.block
      <4>1. cl.cur_block # 0
        BY <3>3, <3>4
      <4>2. cl.wrap_offset = 0
        BY <1>4, <3>1, <4>1 DEF ClientInv
      <4> QED BY <1>7, <1>9, <3>4, <4>2
    <3>6. size = c.cur_block /\ \A k \in 1..c.cur_block : k \in Blocks /\ mem[k] = k
      BY <3>1 DEF ClientInv
    <3>7. size' = n /\ n \in Blocks
      BY <1>3, <1>7, <1>9, <1>12, <3>3, <3>4, <3>5, <3>6
    <3>8. ASSUME NEW k \in 1..n PROVE k \in Blocks /\ mem'[k] = k
      <4>1. CASE k = n
        BY <1>3, <1>12, <3>5, <3>7, <4>1
      <4>2. CASE k # n
        <5>1. k \in 1..c.cur_block
          <6>1. n = c.cur_block + 1
            BY <3>4, <3>5
          <6>2. \A j \in Nat : \A i \in 1..(j + 1) : i # j + 1 => i \in 1..j
            OBVIOUS
          <6> QED BY <1>3, <4>2, <6>1, <6>2
        <5> QED BY <1>3, <1>12, <3>6, <4>2, <5>1
      <4> QED BY <4>1, <4>2
    <3>9. LoadedIsFile'
      BY <1>2, <1>12, <3>5, <3>7, <3>8 DEF LoadedIsFile
    <3>10. ClientInv'
      <4>1. c'.cur_block = n /\ c'.state = "DATA" /\ c'.wrap_offset = 0 /\ n <= file /\ file' = file
        <5>1. c' = new /\ file' = file
          BY <1>2, <1>12
        <5>2. m.block <= file
          BY <1>3, <3>3
        <5> QED BY <1>9, <3>4, <3>5, <5>1, <5>2
      <4> QED BY <3>7, <3>8, <4>1 DEF ClientInv
    <3>11. ServerInv' /\ NetworkInv'
      <4>1. c.cur_block <= c'.cur_block
        BY <1>3, <1>9, <1>12, <3>4
      <4>2. c' \in Clients /\ c'.state # "SEND_RRQ" /\ (c.state # "SEND_RRQ" => c'.remote = c.remote)
        BY <1>4, <1>9, <1>12
      <4>3. out \in Seq(RequestsOf(c')) /\ toServer' = toServer \o out
        BY <1>10, <1>12
      <4> QED BY <1>2, <3>1, <3>2, <4>1, <4>2, <4>3, OthersStay
    <3> QED BY <3>9, <3>10, <3>11 DEF TransferInv
  <2> QED BY <2>1, <2>2
<1> QED BY <1>5, <1>11, <1>12 DEF new, out

-----------------------------------------------------------------------------
(* The server *)

\* A request or an acknowledgement is taken.
LEMMA ServerTook ==
  ASSUME TypeOK, ServerTakes
  PROVE  /\ net_state = "CONTINUE" /\ Head(toServer) \in Requests /\ toServer' \in Seq(Requests)
         /\ UNCHANGED <<c, mem, size, net_state, tries, file>>
         /\ NetworkInv => Head(toServer) \in RequestsOf(c) /\ toServer' \in Seq(RequestsOf(c))
BY TakeFirst DEF TypeOK, ServerTakes, NetworkInv

\* What the server has sent
LEMMA AnswersTyped ==
  ASSUME NEW s \in Sessions, NEW n \in Nat, WindowSize \in Nat
  PROVE  /\ Oack(s) \in Answers /\ Error(s) \in Answers /\ Refusal(s) \in Answers
         /\ Data(s, n) \in Answers
         /\ Oack(s).type = "OACK" /\ Error(s).type = "ERROR" /\ Refusal(s).type = "REFUSAL"
         /\ Data(s, n).type = "DATA" /\ Data(s, n).block = n
BY DEF Oack, Error, Refusal, Data, Answers

\* The server does not send beyond the file.
LEMMA LimitTyped ==
  ASSUME TypeOK, NEW t \in Transfers
  PROVE  Limit(t) \in Nat /\ Limit(t) <= file
BY DEF Limit, TypeOK, Transfers

\* A step of the server leaves the client as it is.
LEMMA ServerStays ==
  ASSUME TypeOK, TransferInv, net_state = "CONTINUE", UNCHANGED <<c, mem, size, net_state, file>>,
         ServerInv', toClient' \in Seq(AnswersOf(file)), toServer' \in Seq(RequestsOf(c))
  PROVE  TransferInv'
<1>1. ClientInv'
  BY DEF TransferInv, ClientInv
<1>2. NetworkInv'
  BY DEF NetworkInv
<1>3. LoadedIsFile'
  BY DEF LoadedIsFile
<1> QED BY <1>1, <1>2, <1>3 DEF TransferInv

\* A request
LEMMA RequestServed ==
  ASSUME TypeOK, ServeRRQ
  PROVE  TypeOK' /\ (TransferInv => TransferInv')
<1> DEFINE s == CHOOSE s \in Free : \A t \in Free : s <= t
<1>1. ServerTakes /\ Free # {}
  BY DEF ServeRRQ
<1>2. s \in Sessions
  BY <1>1, FreeTransfer DEF Free
<1>3. \/ /\ srv' = [srv EXCEPT ![s].st = "oack", ![s].window = WindowSize]
         /\ toClient' = Append(toClient, Oack(s)) /\ UNCHANGED faults
      \/ srv' = [srv EXCEPT ![s].st = "data"] /\ UNCHANGED <<toClient, faults>>
      \/ /\ srv' = [srv EXCEPT ![s].st = "done"]
         /\ \/ toClient' = Append(toClient, Error(s)) /\ faults' = faults + 1
            \/ toClient' = Append(toClient, Refusal(s)) /\ UNCHANGED faults
  BY DEF ServeRRQ, Fault
<1> HIDE DEF s
<1>4. /\ net_state = "CONTINUE" /\ toServer' \in Seq(Requests)
      /\ UNCHANGED <<c, mem, size, net_state, tries, file>>
      /\ NetworkInv => toServer' \in Seq(RequestsOf(c))
  BY <1>1, ServerTook
<1>5. WindowSize \in Nat
  BY WindowAssumption
<1>6. srv \in [Sessions -> Transfers]
  BY DEF TypeOK
<1>7. srv' \in [Sessions -> Transfers] /\ \A t \in Sessions : srv'[t].acked = srv[t].acked
  <2>1. CASE srv' = [srv EXCEPT ![s].st = "oack", ![s].window = WindowSize]
    BY <1>2, <1>5, <1>6, <2>1 DEF Transfers
  <2>2. CASE srv' = [srv EXCEPT ![s].st = "data"]
    BY <1>2, <1>6, <2>2 DEF Transfers
  <2>3. CASE srv' = [srv EXCEPT ![s].st = "done"]
    BY <1>2, <1>6, <2>3 DEF Transfers
  <2> QED BY <1>3, <2>1, <2>2, <2>3
<1>8. /\ Oack(s) \in Answers /\ Error(s) \in Answers /\ Refusal(s) \in Answers
      /\ Oack(s) \in AnswersOf(file) /\ Error(s) \in AnswersOf(file) /\ Refusal(s) \in AnswersOf(file)
  BY <1>2, <1>5, AnswersTyped DEF AnswersOf
<1>9. toClient' \in Seq(Answers) /\ faults' \in Nat
  <2>1. toClient' \in {toClient, Append(toClient, Oack(s)), Append(toClient, Error(s)),
                        Append(toClient, Refusal(s))}
        /\ faults' \in {faults, faults + 1}
    BY <1>3
  <2>2. toClient \in Seq(Answers) /\ faults \in Nat
    BY DEF TypeOK
  <2>3. Append(toClient, Oack(s)) \in Seq(Answers) /\ Append(toClient, Error(s)) \in Seq(Answers)
        /\ Append(toClient, Refusal(s)) \in Seq(Answers)
    BY <1>8, <2>2, AddLast
  <2> QED BY <2>1, <2>2, <2>3
<1>10. TypeOK'
  BY <1>4, <1>7, <1>9 DEF TypeOK
<1>11. ASSUME TransferInv PROVE TransferInv'
  <2>1. ServerInv /\ NetworkInv
    BY <1>4, <1>11 DEF TransferInv
  <2>2. ServerInv'
    BY <1>4, <1>7, <2>1 DEF ServerInv
  <2>3. toClient' \in Seq(AnswersOf(file))
    BY <1>3, <1>8, <2>1, AddLast DEF NetworkInv
  <2> QED BY <1>4, <1>11, <2>1, <2>2, <2>3, ServerStays
<1> QED BY <1>10, <1>11

\* An acknowledgement
LEMMA AckServed ==
  ASSUME TypeOK, ServeAck
  PROVE  TypeOK' /\ (file < SequenceSize /\ TransferInv => TransferInv')
<1> DEFINE m == Head(toServer)
           t == srv[m.port]
<1>1. ServerTakes /\ m.type = "ACK" /\ UNCHANGED <<toClient, faults>>
  BY DEF ServeAck
<1>2. /\ net_state = "CONTINUE" /\ m \in Requests /\ toServer' \in Seq(Requests)
      /\ UNCHANGED <<c, mem, size, net_state, tries, file>>
      /\ NetworkInv => m \in RequestsOf(c) /\ toServer' \in Seq(RequestsOf(c))
  BY <1>1, ServerTook
<1>3. m.port \in Sessions /\ m.block \in Nat
  <2>1. m # RRQ
    BY <1>1 DEF RRQ
  <2> QED BY <1>2, <2>1 DEF Requests, Acks
<1>4. srv \in [Sessions -> Transfers] /\ t \in Transfers /\ t.acked \in Nat /\ file \in Nat
  BY <1>3 DEF TypeOK, Transfers
<1>5. \/ srv' = [srv EXCEPT ![m.port].st = "data"]
      \/ \E b \in InWindow(t) :
           /\ Seq16(b) = m.block
           /\ srv' = [srv EXCEPT ![m.port].acked = b, ![m.port].sent = b,
                                 ![m.port].st = IF b = file THEN "done" ELSE @]
  BY DEF ServeAck
<1> DEFINE p == m.port
<1> HIDE DEF m, t
<1>6. \A b \in InWindow(t) : b \in Nat /\ b <= file
  <2>1. Limit(t) \in Nat /\ Limit(t) <= file
    BY <1>4, LimitTyped
  <2> QED BY <1>4, <2>1 DEF InWindow
<1>7. p \in Sessions
  BY <1>3
<1>8. CASE srv' = [srv EXCEPT ![p].st = "data"]
  <2>1. srv' \in [Sessions -> Transfers] /\ \A s \in Sessions : srv'[s].acked = srv[s].acked
    BY <1>4, <1>7, <1>8 DEF Transfers
  <2>2. TypeOK'
    BY <1>1, <1>2, <2>1 DEF TypeOK
  <2>3. ASSUME TransferInv PROVE TransferInv'
    <3>1. ServerInv /\ NetworkInv
      BY <1>2, <2>3 DEF TransferInv
    <3>2. ServerInv'
      BY <1>2, <2>1, <3>1 DEF ServerInv
    <3>3. toClient' \in Seq(AnswersOf(file))
      BY <1>1, <3>1 DEF NetworkInv
    <3> QED BY <1>2, <2>3, <3>1, <3>2, <3>3, ServerStays
  <2> QED BY <2>2, <2>3
<1>9. CASE \E b \in InWindow(t) :
             /\ Seq16(b) = m.block
             /\ srv' = [srv EXCEPT ![p].acked = b, ![p].sent = b, ![p].st = IF b = file THEN "done" ELSE @]
  <2>1. PICK b \in InWindow(t) :
          /\ Seq16(b) = m.block
          /\ srv' = [srv EXCEPT ![p].acked = b, ![p].sent = b, ![p].st = IF b = file THEN "done" ELSE @]
    BY <1>9
  <2>2. b \in Nat /\ b <= file
    BY <1>6
  <2>3. /\ srv' \in [Sessions -> Transfers] /\ srv'[p].acked = b
        /\ \A s \in Sessions \ {p} : srv'[s] = srv[s]
    BY <1>4, <1>7, <2>1, <2>2 DEF Transfers
  <2>4. TypeOK'
    BY <1>1, <1>2, <2>3 DEF TypeOK
  <2>5. ASSUME file < SequenceSize, TransferInv PROVE TransferInv'
    <3>1. ServerInv /\ NetworkInv
      BY <1>2, <2>5 DEF TransferInv
    <3>2. b = m.block
      BY <1>4, <2>1, <2>2, <2>5, EnoughNumbers, SeqRange
    <3>3. c.state # "SEND_RRQ" /\ p = c.remote /\ m.block <= c.cur_block
      <4>1. m # RRQ
        BY <1>1 DEF RRQ, m
      <4> QED BY <1>2, <3>1, <4>1 DEF RequestsOf
    <3>4. ServerInv'
      BY <1>2, <2>3, <3>1, <3>2, <3>3 DEF ServerInv
    <3>5. toClient' \in Seq(AnswersOf(file))
      BY <1>1, <3>1 DEF NetworkInv
    <3> QED BY <1>2, <2>5, <3>1, <3>4, <3>5, ServerStays
  <2> QED BY <2>4, <2>5
<1> QED BY <1>5, <1>8, <1>9

\* What the server ignores, sends and sends again
LEMMA ServerSends ==
  ASSUME TypeOK,
         \/ ServerIgnores \/ \E s \in Sessions : SendData(s) \/ ServerTimeout(s)
  PROVE  TypeOK' /\ (TransferInv => TransferInv')
<1>1. WindowSize \in Nat /\ srv \in [Sessions -> Transfers] /\ toClient \in Seq(Answers) /\ faults \in Nat
      /\ toServer \in Seq(Requests)
  BY WindowAssumption DEF TypeOK
<1>2. CASE ServerIgnores
  <2>1. ServerTakes /\ UNCHANGED <<srv, toClient, faults>>
    BY <1>2 DEF ServerIgnores
  <2>2. /\ net_state = "CONTINUE" /\ toServer' \in Seq(Requests)
        /\ UNCHANGED <<c, mem, size, net_state, tries, file>>
        /\ NetworkInv => toServer' \in Seq(RequestsOf(c))
    BY <2>1, ServerTook
  <2>3. TypeOK'
    BY <2>1, <2>2 DEF TypeOK
  <2>4. ASSUME TransferInv PROVE TransferInv'
    <3>1. ServerInv' /\ NetworkInv
      BY <2>1, <2>2, <2>4 DEF TransferInv, ServerInv
    <3>2. toClient' \in Seq(AnswersOf(file))
      BY <2>1, <3>1 DEF NetworkInv
    <3> QED BY <2>2, <2>4, <3>1, <3>2, ServerStays
  <2> QED BY <2>3, <2>4
\* A packet is sent, and no transfer goes on.
<1>3. ASSUME net_state = "CONTINUE", UNCHANGED <<c, mem, size, net_state, tries, file, toServer>>,
             faults' \in Nat, srv' \in [Sessions -> Transfers],
             \A s \in Sessions : srv'[s].acked = srv[s].acked,
             NEW m \in AnswersOf(file), toClient' \in {toClient, Append(toClient, m)}
      PROVE  TypeOK' /\ (TransferInv => TransferInv')
  <2>1. m \in Answers
    BY DEF AnswersOf
  <2>2. toClient' \in Seq(Answers)
    <3>1. Append(toClient, m) \in Seq(Answers)
      BY <1>1, <2>1, AddLast
    <3> QED BY <1>1, <1>3, <3>1
  <2>3. TypeOK'
    BY <1>3, <2>2 DEF TypeOK
  <2>4. ASSUME TransferInv PROVE TransferInv'
    <3>1. ServerInv /\ NetworkInv
      BY <1>3, <2>4 DEF TransferInv
    <3>2. ServerInv'
      BY <1>3, <3>1 DEF ServerInv
    <3>3. toClient \in Seq(AnswersOf(file)) /\ toServer' \in Seq(RequestsOf(c))
      BY <1>3, <3>1 DEF NetworkInv
    <3>4. Append(toClient, m) \in Seq(AnswersOf(file))
      BY <3>3, AddLast
    <3>5. toClient' \in Seq(AnswersOf(file))
      BY <1>3, <3>3, <3>4
    <3> QED BY <1>3, <2>4, <3>2, <3>3, <3>5, ServerStays
  <2> QED BY <2>3, <2>4
<1>4. ASSUME NEW s \in Sessions, SendData(s) PROVE TypeOK' /\ (TransferInv => TransferInv')
  <2> DEFINE n == srv[s].sent + 1
  <2>1. /\ net_state = "CONTINUE" /\ srv[s].sent < Limit(srv[s])
        /\ srv' = [srv EXCEPT ![s].sent = @ + 1] /\ toClient' = Append(toClient, Data(s, n))
        /\ UNCHANGED <<c, mem, size, net_state, tries, file, toServer, faults>>
    BY <1>4 DEF SendData
  <2>2. srv[s] \in Transfers /\ srv[s].sent \in Nat
    BY <1>1 DEF Transfers
  <2>3. Limit(srv[s]) \in Nat /\ Limit(srv[s]) <= file /\ file \in Nat
    BY <2>2, LimitTyped DEF TypeOK
  <2>4. n \in Nat /\ n \in 1..file
    BY <2>1, <2>2, <2>3
  <2>5. srv' = [srv EXCEPT ![s].sent = n]
    BY <2>1
  <2> HIDE DEF n
  <2>6. srv' \in [Sessions -> Transfers] /\ \A t \in Sessions : srv'[t].acked = srv[t].acked
    BY <1>1, <2>2, <2>4, <2>5 DEF Transfers
  <2>7. Data(s, n) \in AnswersOf(file)
    BY <1>1, <2>4, AnswersTyped DEF AnswersOf
  <2>8. faults' \in Nat /\ toClient' \in {toClient, Append(toClient, Data(s, n))}
    BY <1>1, <2>1
  <2> QED BY <1>3, <2>1, <2>6, <2>7, <2>8
<1>5. ASSUME NEW s \in Sessions, ServerTimeout(s) PROVE TypeOK' /\ (TransferInv => TransferInv')
  <2>1. /\ net_state = "CONTINUE" /\ faults' \in {faults, faults + 1}
        /\ \/ toClient' = Append(toClient, Oack(s)) /\ UNCHANGED srv
           \/ srv' = [srv EXCEPT ![s].sent = srv[s].acked] /\ UNCHANGED toClient
        /\ UNCHANGED <<c, mem, size, net_state, tries, file, toServer>>
    BY <1>5 DEF ServerTimeout, TimerExpires, Fault
  <2>2. srv[s] \in Transfers /\ srv[s].acked \in Nat
    BY <1>1 DEF Transfers
  <2>3. srv' \in [Sessions -> Transfers] /\ \A t \in Sessions : srv'[t].acked = srv[t].acked
    <3>1. CASE UNCHANGED srv
      BY <1>1, <3>1
    <3>2. CASE srv' = [srv EXCEPT ![s].sent = srv[s].acked]
      BY <1>1, <2>2, <3>2 DEF Transfers
    <3> QED BY <2>1, <3>1, <3>2
  <2>4. Oack(s) \in AnswersOf(file)
    BY <1>1, AnswersTyped DEF AnswersOf
  <2>5. faults' \in Nat /\ toClient' \in {toClient, Append(toClient, Oack(s))}
    BY <1>1, <2>1
  <2> QED BY <1>3, <2>1, <2>3, <2>4, <2>5
<1> QED BY <1>2, <1>4, <1>5

-----------------------------------------------------------------------------
(* Timeouts, retries and the network *)

\* The client's timer
LEMMA ClientTimeout ==
  ASSUME TypeOK, tftp_timeout_handler
  PROVE  TypeOK' /\ (TransferInv => TransferInv')
<1>1. /\ c \in Clients /\ c.cur_block \in Nat /\ (c.state # "SEND_RRQ" => c.remote \in Sessions)
      /\ faults \in Nat /\ toServer \in Seq(Requests)
  BY EnoughNumbers DEF TypeOK, Clients
<1>2. /\ net_state = "CONTINUE" /\ faults' \in {faults, faults + 1}
      /\ c' = [c EXCEPT !.timeout_count = @ + 1]
      /\ \/ HandlerStartsAgain /\ UNCHANGED toServer
         \/ toServer' = Append(toServer, tftp_send(c)) /\ UNCHANGED <<net_state, tries>>
      /\ UNCHANGED <<mem, size, srv, file, toClient>>
  BY DEF tftp_timeout_handler, TimerExpires, Fault
<1>3. Keeps(c, c')
  BY <1>1, <1>2, TimedClient
<1>4. /\ c' \in Clients /\ c'.state = c.state /\ c'.remote = c.remote
      /\ c'.cur_block = c.cur_block /\ c'.wrap_offset = c.wrap_offset
  BY <1>3 DEF Keeps
<1> DEFINE ack == tftp_send(c)
<1>5. ack \in Requests /\ ack \in RequestsOf(c)
  BY <1>1, SendTyped
<1>6. RequestsOf(c') = RequestsOf(c)
  BY <1>4 DEF RequestsOf
<1>7. \/ net_state' \in NetStates \ {"CONTINUE", "SUCCESS"} /\ tries' \in Nat /\ toServer' = toServer
      \/ net_state' = net_state /\ tries' = tries /\ toServer' = Append(toServer, ack)
  <2>1. tries \in Nat
    BY DEF TypeOK
  <2> QED BY <1>2, <2>1, StartsAgain
<1> HIDE DEF ack
<1>8. TypeOK'
  <2>1. Append(toServer, ack) \in Seq(Requests)
    BY <1>1, <1>5, AddLast
  <2>2. toServer' \in Seq(Requests)
    BY <1>1, <1>7, <2>1
  <2>3. faults' \in Nat
    BY <1>1, <1>2
  <2>4. net_state' \in NetStates /\ tries' \in Nat
    BY <1>7 DEF TypeOK
  <2> QED BY <1>2, <1>4, <2>2, <2>3, <2>4 DEF TypeOK
<1>9. ASSUME TransferInv PROVE TransferInv'
  <2>1. CASE net_state' \in NetStates \ {"CONTINUE", "SUCCESS"}
    BY <2>1, AttemptOver
  <2>2. CASE net_state' = net_state /\ toServer' = Append(toServer, ack)
    <3>1. ClientInv /\ ServerInv /\ NetworkInv
      BY <1>2, <1>9 DEF TransferInv
    <3>2. ClientInv'
      BY <1>2, <1>4, <3>1 DEF ClientInv
    <3>3. toServer' = toServer \o <<ack>> /\ <<ack>> \in Seq(RequestsOf(c'))
      BY <1>1, <1>5, <1>6, <2>2
    <3>4. c.cur_block <= c'.cur_block /\ toClient' \in Seq(AnswersOf(file))
      BY <1>1, <1>2, <1>4, <3>1 DEF NetworkInv
    <3>5. ServerInv' /\ NetworkInv'
      BY <1>2, <1>4, <3>1, <3>3, <3>4, OthersStay
    <3>6. LoadedIsFile'
      BY <1>2, <2>2 DEF LoadedIsFile
    <3> QED BY <3>2, <3>5, <3>6 DEF TransferInv
  <2> QED BY <1>7, <2>1, <2>2
<1> QED BY <1>8, <1>9

\* net_loop() starts again or ends, and what goes wrong in the network
LEMMA OtherSteps ==
  ASSUME TypeOK, LoopStep \/ NetworkFault
  PROVE  TypeOK' /\ (TransferInv => TransferInv')
<1>1. /\ c \in Clients /\ toClient \in Seq(Answers) /\ toServer \in Seq(Requests) /\ faults \in Nat
      /\ tries \in Nat /\ file \in Nat
  BY DEF TypeOK
<1>2. CASE Restart
  <2>1. /\ tries' = tries /\ net_state' = "CONTINUE" /\ c' = Started(c) /\ size' = 0
        /\ mem' = [n \in Blocks |-> NoBlock] /\ toServer' = <<RRQ>> /\ toClient' = <<>>
        /\ srv' = [s \in Sessions |-> NoTransfer] /\ UNCHANGED <<file, faults>>
    BY <1>2 DEF Restart
  <2>2. c' \in Clients /\ c'.state = "SEND_RRQ" /\ c'.cur_block = 0
    BY <1>1, <2>1, StartedClient
  <2>3. /\ srv' \in [Sessions -> Transfers] /\ \A s \in Sessions : srv'[s].acked = 0
    BY <2>1 DEF Transfers, NoTransfer
  <2>4. mem' \in [Blocks -> Nat]
    BY <2>1 DEF NoBlock
  <2>5. toServer' \in Seq(Requests) /\ toServer' \in Seq(RequestsOf(c'))
    BY <2>1 DEF Requests, RequestsOf
  <2>6. TypeOK'
    BY <1>1, <2>1, <2>2, <2>3, <2>4, <2>5 DEF TypeOK, NetStates
  <2>7. ClientInv'
    BY <1>1, <2>1, <2>2 DEF ClientInv
  <2>8. ServerInv'
    BY <2>3 DEF ServerInv
  <2>9. NetworkInv'
    BY <2>1, <2>5 DEF NetworkInv
  <2>10. LoadedIsFile'
    BY <2>1 DEF LoadedIsFile
  <2> QED BY <2>6, <2>7, <2>8, <2>9, <2>10 DEF TransferInv
<1>3. CASE net_loop_fail \/ start_again_timeout_handler
  <2>1. /\ net_start_again("ENONET", "ENONET") \/ (net_state' = "RESTART" /\ UNCHANGED tries)
        /\ UNCHANGED <<c, mem, size, srv, file, toClient, toServer, faults>>
    BY <1>3 DEF net_loop_fail, start_again_timeout_handler, net
  <2>2. net_state' \in NetStates \ {"CONTINUE", "SUCCESS"} /\ tries' \in Nat
    BY <1>1, <2>1, StartsAgain DEF NetStates
  <2>3. net_state' \in NetStates /\ TransferInv'
    BY <2>2, AttemptOver
  <2> QED BY <2>1, <2>2, <2>3 DEF TypeOK
<1>4. CASE NetworkFault
  <2>1. /\ net_state = "CONTINUE" /\ faults' = faults + 1
        /\ \/ toClient # <<>> /\ toClient' \in Mishap(toClient) /\ UNCHANGED toServer
           \/ toServer # <<>> /\ toServer' \in Mishap(toServer) /\ UNCHANGED toClient
        /\ UNCHANGED <<c, mem, size, net_state, tries, srv, file>>
    BY <1>4 DEF NetworkFault, Fault
  <2>2. toClient' \in Seq(Answers) /\ toServer' \in Seq(Requests)
    BY <1>1, <2>1, MishapTyped
  <2>3. TypeOK'
    BY <1>1, <2>1, <2>2 DEF TypeOK
  <2>4. ASSUME TransferInv PROVE TransferInv'
    <3>1. ServerInv /\ NetworkInv
      BY <2>1, <2>4 DEF TransferInv
    <3>2. toClient \in Seq(AnswersOf(file)) /\ toServer \in Seq(RequestsOf(c))
      BY <3>1 DEF NetworkInv
    <3>3. toClient' \in Seq(AnswersOf(file)) /\ toServer' \in Seq(RequestsOf(c))
      BY <2>1, <3>2, MishapTyped
    <3>4. ServerInv'
      BY <2>1, <3>1 DEF ServerInv
    <3> QED BY <2>1, <2>4, <3>3, <3>4, ServerStays
  <2> QED BY <2>3, <2>4
<1> QED BY <1>2, <1>3, <1>4 DEF LoopStep

-----------------------------------------------------------------------------
(* Every step *)

\* The first transfer
LEMMA TransferStarts == ASSUME Init PROVE TypeOK /\ TransferInv
<1>1. c \in Clients /\ c.state = "SEND_RRQ" /\ c.cur_block = 0
  BY FirstClient DEF Init
<1>2. /\ mem \in [Blocks -> Nat] /\ size = 0 /\ net_state = "CONTINUE" /\ tries \in Nat /\ faults \in Nat
      /\ file \in Nat /\ toClient = <<>> /\ toServer = <<RRQ>>
  BY SizesAssumption DEF Init, NoBlock
<1>3. srv \in [Sessions -> Transfers] /\ \A s \in Sessions : srv[s].acked = 0
  BY DEF Init, Transfers, NoTransfer
<1>4. toServer \in Seq(Requests) /\ toServer \in Seq(RequestsOf(c))
  BY <1>2 DEF Requests, RequestsOf
<1>5. TypeOK
  BY <1>1, <1>2, <1>3, <1>4 DEF TypeOK, NetStates
<1>6. ClientInv
  BY <1>1, <1>2 DEF ClientInv
<1>7. ServerInv
  BY <1>3 DEF ServerInv
<1>8. NetworkInv
  BY <1>2, <1>4 DEF NetworkInv
<1> QED BY <1>2, <1>5, <1>6, <1>7, <1>8 DEF TransferInv, LoadedIsFile

\* The file on the server stays what it is.
LEMMA FileStays == ASSUME [Next]_vars PROVE file' = file
<1>1. CASE ClientStep
  BY <1>1 DEF ClientStep, Receive, HandleForeign, HandleOack, HandleError, HandleRefusal,
     HandleUnexpected, HandleNotFirst, HandleData
<1>2. CASE ServerStep
  BY <1>2 DEF ServerStep, ServerTakes, ServeRRQ, ServeAck, ServerIgnores, SendData
<1>3. CASE tftp_timeout_handler \/ (\E s \in Sessions : ServerTimeout(s))
  BY <1>3 DEF tftp_timeout_handler, ServerTimeout
<1>4. CASE LoopStep \/ NetworkFault
  BY <1>4 DEF LoopStep, Restart, net_loop_fail, start_again_timeout_handler, NetworkFault
<1>5. CASE Finished \/ UNCHANGED vars
  BY <1>5 DEF Finished, vars
<1> QED BY <1>1, <1>2, <1>3, <1>4, <1>5 DEF Next

\* What holds of a step that changes nothing
LEMMA Stutters ==
  ASSUME UNCHANGED vars
  PROVE  (TypeOK => TypeOK') /\ (TransferInv => TransferInv')
<1>1. UNCHANGED <<c, mem, size, net_state, tries, srv, file, toClient, toServer, faults>>
  BY DEF vars, net
<1>2. TypeOK => TypeOK'
  BY <1>1 DEF TypeOK
<1>3. TransferInv => TransferInv'
  BY <1>1 DEF TransferInv, ClientInv, ServerInv, NetworkInv, LoadedIsFile
<1> QED BY <1>2, <1>3

\* Types and the state of the transfer are kept by every step.
LEMMA TransferStep ==
  ASSUME TypeOK, [Next]_vars
  PROVE  TypeOK' /\ (file < SequenceSize /\ TransferInv => TransferInv')
<1>1. CASE ClientStep
  BY <1>1, OtherPackets, UnexpectedBlock, NextBlock DEF ClientStep
<1>2. CASE ServerStep \/ \E s \in Sessions : ServerTimeout(s)
  BY <1>2, RequestServed, AckServed, ServerSends DEF ServerStep
<1>3. CASE tftp_timeout_handler
  BY <1>3, ClientTimeout
<1>4. CASE LoopStep \/ NetworkFault
  BY <1>4, OtherSteps
<1>5. CASE Finished \/ UNCHANGED vars
  BY <1>5, Stutters DEF Finished
<1> QED BY <1>1, <1>2, <1>3, <1>4, <1>5 DEF Next

\* What the invariant says of the server's count of blocks
LEMMA CountIsBehind == ASSUME TypeOK, TransferInv PROVE AckedIsStored
<1> SUFFICES ASSUME net_state = "CONTINUE", c.state = "DATA", NEW n \in 1..srv[c.remote].acked
             PROVE  n \in Blocks /\ mem[n] = n
  BY DEF AckedIsStored
<1>1. /\ c.remote \in Sessions /\ srv[c.remote].acked \in Nat
      /\ c.cur_block \in Nat
  BY EnoughNumbers DEF TypeOK, Clients, Transfers
<1>2. srv[c.remote].acked <= c.cur_block
  BY <1>1 DEF TransferInv, ServerInv
<1>3. n \in 1..c.cur_block
  BY <1>1, <1>2
<1> QED BY <1>3 DEF TransferInv, ClientInv

-----------------------------------------------------------------------------
(* The theorems *)

\* Every variable has its type, the block numbers of the client their 16 bits,
\* and a client that has left SEND_RRQ talks to a port of the server.
THEOREM TypeTheorem == Spec => []TypeOK
<1>1. Init => TypeOK
  BY TransferStarts
<1>2. TypeOK /\ [Next]_vars => TypeOK'
  BY TransferStep
<1> QED BY <1>1, <1>2, PTL DEF Spec

\* While block numbers do not wrap, TransferInv holds: blocks 1 to tftp_cur_block
\* are stored, and no acknowledgement sent or counted is ahead of that.
THEOREM TransferTheorem == Spec => [](file < SequenceSize => TransferInv)
<1> DEFINE ShortInv == file < SequenceSize => TransferInv
<1>1. Init => ShortInv
  BY TransferStarts
<1>2. TypeOK /\ ShortInv /\ [Next]_vars => ShortInv'
  BY TransferStep, FileStays
<1>3. Spec => []ShortInv
  <2> HIDE DEF ShortInv
  <2> QED BY <1>1, <1>2, TypeTheorem, PTL DEF Spec
<1> QED BY <1>3

\* A file shorter than the space of block numbers that is reported as loaded
\* (NETLOOP_SUCCESS in tftp_handler()) is loaded as it is.
THEOREM ShortLoadedTheorem == Spec => [](file < SequenceSize => LoadedIsFile)
<1>1. (file < SequenceSize => TransferInv) => (file < SequenceSize => LoadedIsFile)
  BY DEF TransferInv
<1> QED BY <1>1, TransferTheorem, PTL

\* The server never counts a block of such a file as received that the client
\* has not stored (the ACKs and NACKs tftp_send() sends).
THEOREM ShortAckedTheorem == Spec => [](file < SequenceSize => AckedIsStored)
<1>1. TypeOK /\ (file < SequenceSize => TransferInv) => (file < SequenceSize => AckedIsStored)
  BY CountIsBehind
<1> QED BY <1>1, TypeTheorem, TransferTheorem, PTL
=============================================================================
