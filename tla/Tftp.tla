-------------------------------- MODULE Tftp --------------------------------
(***************************************************************************)
(* A TFTP download (net/tftp.c, the "get" side), with its retries by       *)
(* net_loop() and net_start_again() in net/net.c.  Block numbers have 16   *)
(* bits and wrap; with a window negotiated, a window of blocks is          *)
(* acknowledged at once.  The server and the network are external: packets *)
(* are lost, duplicated and delayed, and either side may time out before   *)
(* the answer arrives.                                                     *)
(***************************************************************************)
EXTENDS Integers, Sequences

CONSTANTS SequenceSize,  \* TFTP_SEQUENCE_SIZE, 2^16 in the code
          WindowSize,    \* the window size option
          FileSizes,     \* sizes of the file, in blocks; the last is short; 0
                         \* is a server that refuses to send it
          LoadLimit,     \* blocks that lmb_read_check() lets us store
          TimeoutMax,    \* tftp_timeout_count_max
          RetryCount,    \* the environment variable netretry
          EthDevices,    \* Ethernet devices to rotate through, 0 for ethrotate=no
          MaxFaults,     \* bound on what goes wrong in the network
          Sessions       \* the ports a server answers requests from

ASSUME SequenceAssumption == SequenceSize \in Nat /\ SequenceSize % 2 = 0
ASSUME WindowAssumption == WindowSize \in 1..(SequenceSize \div 2 - 1)
ASSUME SizesAssumption == FileSizes \subseteq Nat /\ LoadLimit \in Nat
ASSUME CountsAssumption == {TimeoutMax, RetryCount, EthDevices, MaxFaults} \subseteq Nat
ASSUME SessionsAssumption == Sessions \subseteq Nat \ {0}

VARIABLES c,          \* the client's globals
          mem,        \* what this attempt stored at the load address
          size,       \* net_boot_file_size, in blocks
          net_state,  \* NETLOOP_..., "WAIT" for a timer of net_start_again(), or
                      \* "ENONET", what net_loop() returns
          tries,      \* net_try_count
          srv,        \* the transfers of the server
          file,       \* the size of the file
          toClient, toServer,  \* packets on their way
          faults      \* what has gone wrong in the network so far

net == <<toClient, toServer, faults>>
vars == <<c, mem, size, net_state, tries, srv, file, net>>

NoBlock == 0
WellKnownPort == 0
Blocks == 1..LoadLimit
Seq16(n) == n % SequenceSize
\* A block number converted to short
Short(q) == IF q >= SequenceSize \div 2 THEN q - SequenceSize ELSE q

-----------------------------------------------------------------------------
(* Retries *)

\* Mutated form: the first attempt counts as a retry.
MayRetry_oneless == tries < RetryCount

\* The test of net_start_again() against the variable netretry
MayRetry == tries <= RetryCount

\* eth_try_another(): every failed attempt moves on to the next device, and
\* net_restart_wrap says that this is the one of the first attempt.
Wraps == EthDevices # 0 /\ tries % EthDevices = 0

\* net_start_again(), with the states that follow when the retries are used up
\* and when the devices have all been tried: then it sets a timer of ten seconds
\* and leaves net_state as it is.
net_start_again(failed, wrapped) ==
  \/ ~MayRetry /\ net_state' = failed /\ UNCHANGED tries
  \/ MayRetry /\ net_state' = (IF Wraps THEN wrapped ELSE "RESTART") /\ tries' = tries + 1

\* A handler calls it in NETLOOP_CONTINUE: the loop waits for the timer.
HandlerStartsAgain == net_start_again("FAIL", "WAIT")

\* net_loop() calls it in NETLOOP_FAIL: unless that makes it NETLOOP_RESTART, the
\* loop ends.
net_loop_fail ==
  /\ net_state = "FAIL"
  /\ net_start_again("ENONET", "ENONET")
  /\ UNCHANGED <<c, mem, size, srv, file, net>>

-----------------------------------------------------------------------------
(* The client *)

\* What tftp_start() leaves of the globals
Started(old) ==
  [old EXCEPT !.state = "SEND_RRQ", !.remote = WellKnownPort, !.cur_block = 0,
              !.windowsize = 1, !.last_nack = 0, !.timeout_count = 0]

RRQ == [type |-> "RRQ", port |-> WellKnownPort, block |-> 0]
Ack(cl) == [type |-> "ACK", port |-> cl.remote, block |-> cl.cur_block]

\* tftp_send() in the states a download goes through
tftp_send(cl) == IF cl.state = "SEND_RRQ" THEN RRQ ELSE Ack(cl)

\* tftp_handler() drops what does not come from the server's port, once that
\* is known.
FromServer(m) == c.state = "SEND_RRQ" \/ m.port = c.remote

Receive ==
  /\ net_state = "CONTINUE"
  /\ toClient # <<>>
  /\ toClient' = Tail(toClient)
  /\ UNCHANGED <<srv, file, faults>>

\* Nothing happens but the packet being taken.
Ignore == UNCHANGED <<c, mem, size, net_state, tries, toServer>>

HandleForeign ==
  /\ Receive
  /\ ~FromServer(Head(toClient))
  /\ Ignore

\* An option acknowledgement, also one that comes late
HandleOack ==
  LET m == Head(toClient)
      cl == [c EXCEPT !.state = "OACK", !.remote = m.port,
                      !.windowsize = m.window, !.next_ack = m.window]
  IN /\ Receive
     /\ m.type = "OACK" /\ FromServer(m)
     /\ c' = cl
     /\ toServer' = Append(toServer, tftp_send(cl))
     /\ UNCHANGED <<mem, size, net_state, tries>>

\* TFTP_ERROR with a code that is no refusal
HandleError ==
  /\ Receive
  /\ Head(toClient).type = "ERROR" /\ FromServer(Head(toClient))
  /\ HandlerStartsAgain
  /\ UNCHANGED <<c, mem, size, toServer>>

\* TFTP_ERR_FILE_NOT_FOUND and TFTP_ERR_ACCESS_DENIED, or an option the client
\* did not ask for.  What the latter leaves in c is set again by tftp_start(),
\* and the error packet that answers it comes after the transfer.
HandleRefusal ==
  /\ Receive
  /\ Head(toClient).type = "REFUSAL" /\ FromServer(Head(toClient))
  /\ net_state' = "FAIL"
  /\ UNCHANGED <<c, mem, size, tries, toServer>>

IsExpected(m) == Seq16(m.block) = Seq16(c.cur_block + 1)

\* The comparison that decides whether an unexpected block is answered
SkipsAck(q) == Seq16(c.cur_block + 1) - Short(q) > 0

\* Mutated form: the block that has arrived is acknowledged.
Nack_received(m) == [Ack(c) EXCEPT !.block = Seq16(m.block)]

\* What answers an unexpected block
Nack(m) == tftp_send(c)

\* An unexpected block: one NACK, if it is ahead
HandleUnexpected ==
  LET m == Head(toClient)
  IN /\ Receive
     /\ m.type = "DATA" /\ FromServer(m) /\ ~IsExpected(m)
     /\ IF SkipsAck(Seq16(m.block)) \/ c.last_nack = c.cur_block
        THEN Ignore
        ELSE /\ toServer' = Append(toServer, Nack(m))
             /\ c' = [c EXCEPT !.last_nack = c.cur_block,
                               !.next_ack = Seq16(c.cur_block + c.windowsize)]
             /\ UNCHANGED <<mem, size, net_state, tries>>

\* The expected block has arrived: tftp_cur_block moves on, and the first
\* block of a transfer is where new_transfer() resets the rest.
Advanced(m) ==
  LET cl == [c EXCEPT !.cur_block = Seq16(c.cur_block + 1),
                      !.next_ack = IF c.state = "SEND_RRQ" THEN c.windowsize
                                   ELSE @]
  IN IF c.state = "DATA" THEN cl
     ELSE [cl EXCEPT !.state = "DATA", !.remote = m.port,
                     !.prev_block = 0, !.wrap_offset = 0]

\* A first block that is not block 1: what the handler calls an assertion fails,
\* and net_start_again() follows.
NotTheFirst(m) == c.state # "DATA" /\ Advanced(m).cur_block # 1

\* Mutated form: the wrap is taken to skip block number 0.
update_block_number_short(cl) ==
  LET wraps == cl.cur_block = 0 /\ cl.prev_block # 0
  IN [cl EXCEPT !.wrap_offset = IF wraps THEN @ + SequenceSize - 1 ELSE @,
                !.prev_block = cl.cur_block,
                !.timeout_count = 0]

\* update_block_number() and what follows it up to store_block()
update_block_number(cl) ==
  LET wraps == cl.cur_block = 0 /\ cl.prev_block # 0
  IN [cl EXCEPT !.wrap_offset = IF wraps THEN @ + SequenceSize ELSE @,
                !.prev_block = cl.cur_block,
                !.timeout_count = 0]

\* The block of the file that store_block() takes this one for
StoreAt(cl) == cl.cur_block + cl.wrap_offset

\* net_boot_file_size after store_block()
NewSize(cl) == IF size < StoreAt(cl) THEN StoreAt(cl) ELSE size

HandleNotFirst ==
  LET m == Head(toClient)
  IN /\ Receive
     /\ m.type = "DATA" /\ FromServer(m) /\ IsExpected(m) /\ NotTheFirst(m)
     /\ c' = Advanced(m)
     /\ HandlerStartsAgain
     /\ UNCHANGED <<mem, size, toServer>>

\* A block that ends a window is acknowledged.
Acknowledge(cl) ==
  IF cl.cur_block = cl.next_ack
  THEN [c |-> [cl EXCEPT !.next_ack = Seq16(@ + cl.windowsize)],
        out |-> <<tftp_send(cl)>>]
  ELSE [c |-> cl, out |-> <<>>]

\* The next block is stored, or store_block() fails; the short one completes
\* the transfer.
HandleData ==
  LET m == Head(toClient)
      cl == update_block_number(Advanced(m))
      n == StoreAt(cl)
      last == m.block = file
      ack == IF last THEN [c |-> cl, out |-> <<tftp_send(cl)>>]
             ELSE Acknowledge(cl)
  IN /\ Receive
     /\ m.type = "DATA" /\ FromServer(m) /\ IsExpected(m) /\ ~NotTheFirst(m)
     /\ IF n > LoadLimit
        THEN /\ c' = cl
             /\ net_state' = "FAIL"
             /\ UNCHANGED <<mem, size, toServer>>
        ELSE /\ mem' = [mem EXCEPT ![n] = m.block]
             /\ size' = NewSize(cl)
             /\ c' = ack.c
             /\ toServer' = toServer \o ack.out
             /\ net_state' = IF last THEN "SUCCESS" ELSE net_state
     /\ UNCHANGED tries

-----------------------------------------------------------------------------
(* The server, as RFC 1350 and RFC 7440 have it: a transfer for each request, *)
(* each from a port of its own.                                               *)

NoTransfer == [st |-> "free", window |-> 1, acked |-> 0, sent |-> 0]

\* The transfers the client may still listen to; others are left out.
Active(s) ==
  /\ srv[s].st \in {"oack", "data"}
  /\ c.state = "SEND_RRQ" \/ c.remote = s

\* What the window and the file allow the server to have sent
Limit(t) == IF t.acked + t.window > file THEN file ELSE t.acked + t.window

\* The blocks an acknowledgement may be for, also while they are sent again
InWindow(t) == t.acked..Limit(t)

Oack(s) == [type |-> "OACK", port |-> s, block |-> 0, window |-> WindowSize]
Data(s, n) == [type |-> "DATA", port |-> s, block |-> n, window |-> 0]
Error(s) == [type |-> "ERROR", port |-> s, block |-> 0, window |-> 0]

Free == {s \in Sessions : srv[s].st = "free"}
Fault == faults < MaxFaults /\ faults' = faults + 1

ServerTakes ==
  /\ net_state = "CONTINUE"
  /\ toServer # <<>>
  /\ toServer' = Tail(toServer)
  /\ UNCHANGED <<c, mem, size, net_state, tries, file>>

Refusal(s) == [type |-> "REFUSAL", port |-> s, block |-> 0, window |-> 0]

\* A request: the options are acknowledged, or ignored, or there is an error.
ServeRRQ ==
  LET s == CHOOSE s \in Free : \A t \in Free : s <= t
  IN /\ ServerTakes
     /\ Head(toServer).type = "RRQ"
     /\ Free # {}
     /\ \/ /\ file # 0
           /\ srv' = [srv EXCEPT ![s].st = "oack", ![s].window = WindowSize]
           /\ toClient' = Append(toClient, Oack(s))
           /\ UNCHANGED faults
        \/ /\ file # 0
           /\ srv' = [srv EXCEPT ![s].st = "data"]
           /\ UNCHANGED <<toClient, faults>>
        \/ /\ file = 0
           /\ srv' = [srv EXCEPT ![s].st = "done"]
           /\ toClient' = Append(toClient, Refusal(s))
           /\ UNCHANGED faults
        \/ /\ srv' = [srv EXCEPT ![s].st = "done"]
           /\ toClient' = Append(toClient, Error(s))
           /\ Fault

\* An acknowledgement moves the window to the block after it; one that is not
\* of this window is ignored.
ServeAck ==
  LET m == Head(toServer)
      t == srv[m.port]
      acked == {b \in InWindow(t) : Seq16(b) = m.block}
  IN /\ ServerTakes
     /\ m.type = "ACK"
     /\ \/ /\ t.st = "oack" /\ m.block = 0
           /\ srv' = [srv EXCEPT ![m.port].st = "data"]
        \/ /\ t.st = "data"
           /\ \E b \in acked :
                srv' = [srv EXCEPT ![m.port].acked = b, ![m.port].sent = b,
                                   ![m.port].st = IF b = file THEN "done" ELSE @]
     /\ UNCHANGED <<toClient, faults>>

ServerIgnores ==
  LET m == Head(toServer)
      t == srv[m.port]
  IN /\ ServerTakes
     /\ \/ m.type = "RRQ" /\ Free = {}
        \/ m.type = "ACK" /\ t.st = "oack" /\ m.block # 0
        \/ /\ m.type = "ACK" /\ t.st = "data"
           /\ \A b \in InWindow(t) : Seq16(b) # m.block
        \/ m.type = "ACK" /\ t.st \notin {"oack", "data"}
     /\ UNCHANGED <<srv, toClient, faults>>

SendData(s) ==
  /\ net_state = "CONTINUE"
  /\ Active(s) /\ srv[s].st = "data"
  /\ srv[s].sent < Limit(srv[s])
  /\ srv' = [srv EXCEPT ![s].sent = @ + 1]
  /\ toClient' = Append(toClient, Data(s, srv[s].sent + 1))
  /\ UNCHANGED <<c, mem, size, net_state, tries, file, toServer, faults>>

-----------------------------------------------------------------------------
(* Timeouts and restarts *)

\* Everything sent has arrived and the server is waiting.
Quiet ==
  /\ toClient = <<>> /\ toServer = <<>>
  /\ \A s \in Sessions :
       Active(s) /\ srv[s].st = "data" => srv[s].sent = Limit(srv[s])

\* A timer that expires although something is on its way is a fault.
TimerExpires ==
  /\ net_state = "CONTINUE"
  /\ \/ Quiet /\ UNCHANGED faults
     \/ ~Quiet /\ Fault

tftp_timeout_handler ==
  /\ TimerExpires
  /\ c' = [c EXCEPT !.timeout_count = @ + 1]
  /\ IF c.timeout_count + 1 > TimeoutMax
     THEN HandlerStartsAgain /\ UNCHANGED toServer
     ELSE toServer' = Append(toServer, tftp_send(c)) /\ UNCHANGED <<net_state, tries>>
  /\ UNCHANGED <<mem, size, srv, file, toClient>>

ServerTimeout(s) ==
  /\ TimerExpires
  /\ Active(s)
  /\ IF srv[s].st = "oack"
     THEN toClient' = Append(toClient, Oack(s)) /\ UNCHANGED srv
     ELSE srv' = [srv EXCEPT ![s].sent = srv[s].acked] /\ UNCHANGED toClient
  /\ UNCHANGED <<c, mem, size, net_state, tries, file, toServer>>

\* start_again_timeout_handler()
start_again_timeout_handler ==
  /\ net_state = "WAIT"
  /\ net_state' = "RESTART"
  /\ UNCHANGED <<c, mem, size, tries, srv, file, net>>

\* net_loop() and tftp_start() again: our port is a new one, so whatever is on
\* its way will be dropped.
Restart ==
  /\ net_state = "RESTART"
  /\ net_state' = "CONTINUE"
  /\ c' = Started(c)
  /\ size' = 0
  /\ mem' = [n \in Blocks |-> NoBlock]
  /\ toServer' = <<RRQ>>
  /\ toClient' = <<>>
  /\ srv' = [s \in Sessions |-> NoTransfer]
  /\ UNCHANGED <<tries, file, faults>>

\* What the network does to the packet at the head of q, at the price of a
\* fault: lose it, duplicate it, or deliver it after the others.
Mishap(q) == {Tail(q), Append(q, Head(q)), Append(Tail(q), Head(q))}

NetworkFault ==
  /\ net_state = "CONTINUE"
  /\ Fault
  /\ \/ toClient # <<>> /\ toClient' \in Mishap(toClient) /\ UNCHANGED toServer
     \/ toServer # <<>> /\ toServer' \in Mishap(toServer) /\ UNCHANGED toClient
  /\ UNCHANGED <<c, mem, size, net_state, tries, srv, file>>

-----------------------------------------------------------------------------

Init ==
  /\ c = Started([state |-> "", remote |-> 0, cur_block |-> 0, prev_block |-> 0,
                  wrap_offset |-> 0, windowsize |-> 1, next_ack |-> 0,
                  last_nack |-> 0, timeout_count |-> 0])
  /\ mem = [n \in Blocks |-> NoBlock]
  /\ size = 0
  /\ net_state = "CONTINUE"
  /\ tries = 1
  /\ srv = [s \in Sessions |-> NoTransfer]
  /\ file \in FileSizes
  /\ toClient = <<>>
  /\ toServer = <<RRQ>>
  /\ faults = 0

ClientStep ==
  \/ HandleForeign \/ HandleOack \/ HandleError \/ HandleRefusal
  \/ HandleUnexpected \/ HandleNotFirst \/ HandleData

ServerStep == ServeRRQ \/ ServeAck \/ ServerIgnores \/ \E s \in Sessions : SendData(s)

LoopStep == net_loop_fail \/ start_again_timeout_handler \/ Restart

Finished == net_state \in {"SUCCESS", "ENONET"} /\ UNCHANGED vars

Next ==
  \/ ClientStep \/ ServerStep
  \/ tftp_timeout_handler \/ (\E s \in Sessions : ServerTimeout(s))
  \/ LoopStep
  \/ NetworkFault
  \/ Finished

\* Packets are delivered and handled unless the network drops them, net_loop()
\* polls the timer and the state, and the server does its part.  The timer of
\* tftp_timeout_handler() is restarted by a block that is accepted and by
\* nothing else the server sends, so a server that repeats itself cannot put it
\* off for ever: strong fairness.  The server's own timer is not relied on.
Fairness ==
  /\ WF_vars(ClientStep)
  /\ WF_vars(ServerStep)
  /\ SF_vars(tftp_timeout_handler)
  /\ WF_vars(LoopStep)

Spec == Init /\ [][Next]_vars /\ Fairness

-----------------------------------------------------------------------------

\* A transfer that ends in NETLOOP_SUCCESS has loaded the whole file, and
\* net_boot_file_size is its size (tftp_handler(), tftp_complete()).
LoadedIsFile ==
  net_state = "SUCCESS" => size = file /\ \A n \in 1..file : mem[n] = n

\* The server never counts a block as received that the client has not stored
\* (the acknowledgements and NACKs of tftp_handler() and of its timeouts).
AckedIsStored ==
  net_state = "CONTINUE" /\ c.state = "DATA" =>
    \A n \in 1..srv[c.remote].acked : n \in Blocks /\ mem[n] = n

\* net_loop() ends, and with no more faults than retries (MaxFaults and
\* RetryCount) it ends well if the server has the file and it fits: no loss,
\* duplicate or timeout leaves client and server waiting for each other.
\* Refused or too large, it ends in an error (tftp_timeout_handler(),
\* net_start_again() and its timer, tftp_handler()).
TransferEnds ==
  <>[](net_state = IF file \in 1..LoadLimit THEN "SUCCESS" ELSE "ENONET")
=============================================================================
