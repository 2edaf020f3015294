-------------------------------- MODULE BtIO --------------------------------
(***************************************************************************)
(* The socket layer, examples/vehicle-tool/btio/btio.c: channels that      *)
(* connect, listen and accept, each with a GLib watch that reports to the  *)
(* user, and the descriptors below them.                                   *)
(*                                                                         *)
(* What makes it delicate is the main loop.  One iteration polls all       *)
(* descriptors, then dispatches what was ready, so a watch may act on a    *)
(* condition that an earlier dispatch of the same iteration has outdated;  *)
(* and a descriptor that was closed is given to the next socket, while the *)
(* watch of its former channel is still attached.  The user is a GLib      *)
(* source as well, as the terminal of vehicle-tool is: it makes one call   *)
(* in an iteration, and its callbacks close no channel.  Watches have one  *)
(* priority; no order among them is assumed.                               *)
(***************************************************************************)
EXTENDS Integers, Sequences, FiniteSets, SequencesExt

CONSTANTS
  Fd,          \* descriptors
  MaxChans     \* bound on the channels created

ASSUME BtIOAssumption == Fd \subseteq Nat /\ IsFiniteSet(Fd) /\ MaxChans \in Nat

VARIABLES
  sock,        \* of each descriptor: free, pending, up, down, listen or incoming
  chan,        \* every channel so far
  ready,       \* the watches that the last poll found ready, as [c, nval]
  user         \* the user's source is ready and was not dispatched

vars == <<sock, chan, ready, user>>

(***************************************************************************)
(* A GIOChannel: held says that the user owns a reference; the watch, that *)
(* of a connect, a server, an accept or none, owns another one.  confirm:  *)
(* a server asks its user first.  shut: it was shut down.  The rest is history: the watch   *)
(* it had last, how often that of a connect or an accept has called the    *)
(* user, whether a watch did so after the channel was shut down, and       *)
(* whether accept() got its descriptor while its watch was attached.       *)
(***************************************************************************)
NewChannel(fd, held, watch, confirm) ==
  [fd |-> fd, held |-> held, watch |-> watch, confirm |-> confirm,
   shut |-> FALSE, had |-> watch, calls |-> 0, late |-> FALSE, stolen |-> FALSE]

Alive(ch) == ch.held \/ ch.watch # "none"

Init ==
  /\ sock = [f \in Fd |-> "free"] /\ chan = <<>> /\ ready = {} /\ user = FALSE
-----------------------------------------------------------------------------
\* The kernel hands out the lowest descriptor.
Lowest(f) == sock[f] = "free" /\ \A g \in Fd : g < f => sock[g] # "free"

close(s, f) == [s EXCEPT ![f] = "free"]

\* A reference to the channel is gone: with the last one goes its descriptor,
\* unless it was shut down before (close_on_unref).
g_io_channel_unref(s, ch) ==
  IF ~ Alive(ch) /\ ~ ch.shut THEN close(s, ch.fd) ELSE s

Room == Len(chan) + Cardinality({f \in Fd : sock[f] = "incoming"}) < MaxChans

(***************************************************************************)
(* bt_io_connect and bt_io_listen.  They stop at the first stage that      *)
(* fails: the options, the socket, its address and options, then connect() *)
(* or listen(); whatever was opened is closed again.                       *)
(***************************************************************************)
parse_set_opts(stage) == stage # "options"
l2cap_set(stage)      == stage # "configure"  \* and l2cap_bind before it
l2cap_connect(stage)  == stage # "connect"

create_io_NoClose(s, f, stage) ==                                     \* mutant
  IF stage = "socket" THEN s ELSE [s EXCEPT ![f] = "pending"]
create_io(s, f, stage) ==
  LET opened == [s EXCEPT ![f] = "pending"]
  IN  IF stage = "socket" THEN s
      ELSE IF l2cap_set(stage) THEN opened ELSE close(opened, f)

bt_io_connect(f, stage) ==
  /\ user /\ Room
  /\ stage \in {"options", "socket", "configure", "connect", "done"}
  /\ IF parse_set_opts(stage)
     THEN LET s == create_io(sock, f, stage)
          IN  sock' = IF l2cap_connect(stage) THEN s
                      ELSE g_io_channel_unref(s, NewChannel(f, FALSE, "none", FALSE))
     ELSE sock' = sock
  /\ chan' = IF stage = "done"
             THEN Append(chan, NewChannel(f, TRUE, "connect", FALSE)) ELSE chan
  /\ user' = FALSE
  /\ UNCHANGED ready

bt_io_listen(f, stage, confirm) ==
  /\ user /\ Room
  /\ stage \in {"options", "socket", "configure", "listen", "done"}
  /\ IF parse_set_opts(stage)
     THEN LET s == create_io(sock, f, stage)
          IN  sock' = CASE stage = "done"   -> [s EXCEPT ![f] = "listen"]
                        [] stage = "listen" ->
                             g_io_channel_unref(s, NewChannel(f, FALSE, "none", FALSE))
                        [] OTHER -> s
     ELSE sock' = sock
  /\ chan' = IF stage = "done"
             THEN Append(chan, NewChannel(f, TRUE, "server", confirm)) ELSE chan
  /\ user' = FALSE
  /\ UNCHANGED ready

\* bt_io_accept authorises a connection whose setup was deferred.  A failing
\* poll() or read() leaves it as it is.
bt_io_accept(c, ok) ==
  /\ user /\ chan[c].held /\ chan[c].had = "none"
  /\ chan' = IF ok THEN [chan EXCEPT ![c].watch = "accept", ![c].had = "accept"]
             ELSE chan
  /\ user' = FALSE
  /\ UNCHANGED <<sock, ready>>

\* g_io_channel_shutdown and g_io_channel_unref, as disconnect_io does.
Abort(c) ==
  /\ user /\ chan[c].held /\ ~ chan[c].shut
  /\ sock' = close(sock, chan[c].fd)
  /\ chan' = [chan EXCEPT ![c] = [@ EXCEPT !.shut = TRUE, !.held = FALSE]]
  /\ user' = FALSE
  /\ UNCHANGED ready

\* g_io_channel_unref alone: a watch keeps the channel alive.
Release(c) ==
  /\ user /\ chan[c].held
  /\ LET ch == [chan[c] EXCEPT !.held = FALSE]
     IN  /\ chan' = [chan EXCEPT ![c] = ch]
         /\ sock' = g_io_channel_unref(sock, ch)
  /\ user' = FALSE
  /\ UNCHANGED ready

UserIdle == user /\ user' = FALSE /\ UNCHANGED <<sock, chan, ready>>
-----------------------------------------------------------------------------
(***************************************************************************)
(* The callbacks of the watches.                                           *)
(***************************************************************************)
check_nval(ch) == sock[ch.fd] = "free"

aborted_CondOnly(ch, nval) == nval                                    \* mutant
aborted_PollOnly(ch, nval) == check_nval(ch)                          \* mutant
aborted(ch, nval) == nval \/ check_nval(ch)

\* The watch goes away, its record is destroyed and its reference dropped.
remove(c, ch) ==
  LET gone == [ch EXCEPT !.watch = "none"]
  IN  /\ chan' = [chan EXCEPT ![c] = gone]
      /\ sock' = g_io_channel_unref(sock, gone)

call(ch) == [ch EXCEPT !.calls = @ + 1, !.late = @ \/ ch.shut]

connect_cb_KeepsWatch(c, nval) ==                                     \* mutant
  /\ chan[c].watch = "connect"
  /\ IF aborted(chan[c], nval) THEN remove(c, chan[c])
     ELSE chan' = [chan EXCEPT ![c] = call(@)] /\ sock' = sock
connect_cb(c, nval) ==
  /\ chan[c].watch = "connect"
  /\ remove(c, IF aborted(chan[c], nval) THEN chan[c] ELSE call(chan[c]))

accept_cb(c, nval) ==
  /\ chan[c].watch = "accept"
  /\ remove(c, IF aborted(chan[c], nval) THEN chan[c] ELSE call(chan[c]))

\* The channels that lose their descriptor f to a new socket.
steal(f) ==
  [c \in DOMAIN chan |->
     [chan[c] EXCEPT !.stolen = @ \/ (chan[c].fd = f /\ chan[c].watch # "none")]]

\* The user's callback may keep the new channel, and accept it when the setup
\* is deferred; one that nobody keeps is closed when the callback returns.
server_cb(c, nval, keep, acc) ==
  /\ chan[c].watch = "server" /\ (acc => chan[c].confirm)
  /\ IF aborted(chan[c], nval) THEN remove(c, chan[c])
     ELSE IF sock[chan[c].fd] = "incoming" /\ \E f \in Fd : Lowest(f)
     THEN \E f \in Fd :
            LET cli == NewChannel(f, keep, IF acc THEN "accept" ELSE "none", FALSE)
                s == [sock EXCEPT ![chan[c].fd] = "listen",
                                  ![f] = IF chan[c].confirm THEN "pending" ELSE "up"]
            IN  /\ Lowest(f)
                /\ chan' = Append([steal(f) EXCEPT ![c].late = @ \/ chan[c].shut], cli)
                /\ sock' = g_io_channel_unref(s, cli)
     ELSE UNCHANGED <<sock, chan>>
-----------------------------------------------------------------------------
(***************************************************************************)
(* The main loop and the kernel.                                           *)
(***************************************************************************)
\* The states of a descriptor that make a watch ready.
Wakes_NoNval(watch) ==                                                \* mutant
  IF watch = "server" THEN {"incoming"} ELSE IF watch = "none" THEN {} ELSE {"up", "down"}
Wakes(watch) ==
  CASE watch = "none"   -> {}
    [] watch = "server" -> {"free", "incoming", "up", "down"}
    [] OTHER            -> {"free", "up", "down"}

Poll ==
  /\ ready = {} /\ ~ user
  /\ ready' = {[c |-> c, nval |-> sock[chan[c].fd] = "free"] :
                 c \in {d \in DOMAIN chan : sock[chan[d].fd] \in Wakes(chan[d].watch)}}
  /\ user' \in BOOLEAN
  /\ UNCHANGED <<sock, chan>>

Dispatch ==
  \E r \in ready :
    /\ \/ connect_cb(r.c, r.nval)
       \/ accept_cb(r.c, r.nval)
       \/ \E keep, acc \in BOOLEAN : server_cb(r.c, r.nval, keep, acc)
    /\ ready' = ready \ {r}
    /\ UNCHANGED user

UserCall ==
  \/ \E f \in {g \in Fd : Lowest(g)} :
       \E stage \in {"options", "socket", "configure", "connect", "listen", "done"} :
         \/ bt_io_connect(f, stage)
         \/ \E confirm \in BOOLEAN : bt_io_listen(f, stage, confirm)
  \/ \E c \in DOMAIN chan :
       \/ \E ok \in BOOLEAN : bt_io_accept(c, ok)
       \/ Abort(c) \/ Release(c)
  \/ UserIdle

\* A connection completes or fails, is lost, or comes in at a server.
Kernel(f) ==
  /\ \/ sock[f] = "pending" /\ sock' \in {[sock EXCEPT ![f] = "up"],
                                          [sock EXCEPT ![f] = "down"]}
     \/ sock[f] = "up" /\ sock' = [sock EXCEPT ![f] = "down"]
     \/ sock[f] = "listen" /\ Room /\ sock' = [sock EXCEPT ![f] = "incoming"]
  /\ UNCHANGED <<chan, ready, user>>

Next == Poll \/ Dispatch \/ UserCall \/ \E f \in Fd : Kernel(f)

\* The main loop goes on: it dispatches what is ready and polls again.
Spec ==
  Init /\ [][Next]_vars
       /\ WF_vars(Poll) /\ WF_vars(Dispatch) /\ WF_vars(UserCall)
-----------------------------------------------------------------------------
\* No descriptor is leaked and none is closed under its owner: an open one
\* belongs to exactly one channel that is referenced and not shut down, also
\* after a failed connect or listen and a connection nobody kept.
FdsAccounted ==
  \A f \in Fd :
    LET owners == {c \in DOMAIN chan :
                     chan[c].fd = f /\ Alive(chan[c]) /\ ~ chan[c].shut}
    IN  Cardinality(owners) = IF sock[f] = "free" THEN 0 ELSE 1

\* "If the user aborted this connect attempt": after a shutdown the callback
\* is not called, although a condition polled before is still dispatched and
\* the descriptor may belong to a new socket by then.  The one exception is a
\* server that accepts a connection between the shutdown and the next poll.
AbortedNotCalled == \A c \in DOMAIN chan : chan[c].late => chan[c].stolen

\* The watch of a connect or an accept ends in exactly one way: with one call,
\* or with none after a shutdown.
EndsOnce ==
  \A c \in DOMAIN chan :
    chan[c].had \in {"connect", "accept"} =>
      /\ chan[c].watch # "none" => chan[c].calls = 0
      /\ chan[c].watch = "none" => chan[c].calls = 1 \/ chan[c].shut

Lingers(c) ==
  c \in DOMAIN chan /\ chan[c].shut /\ chan[c].watch # "none" /\ ~ chan[c].stolen

\* A shutdown makes the main loop drop the watch and with it the user's data.
AbortReleases == \A c \in 1..MaxChans : Lingers(c) ~> ~ Lingers(c)
=============================================================================
