----------------------------- MODULE BtIOProofs -----------------------------
(***************************************************************************)
(* Proofs about the socket layer of BtIO, for any set of descriptors and   *)
(* any number of channels.                                                 *)
(***************************************************************************)
EXTENDS BtIO, FiniteSetTheorems, SequenceTheorems, TLAPS

(***************************************************************************)
(* The inductive invariant.  Owned is FdsAccounted without cardinalities.  *)
(* Lingering says why a callback after a shutdown is not called: until the *)
(* next poll the descriptor is closed and the user does not get another    *)
(* turn to open one, and from that poll on the watch is ready with NVAL.   *)
(***************************************************************************)
SockState == {"free", "pending", "up", "down", "listen", "incoming"}
WatchKind == {"none", "connect", "accept", "server"}
Channel ==
  [fd : Fd, held : BOOLEAN, watch : WatchKind, confirm : BOOLEAN, shut : BOOLEAN,
   had : WatchKind, calls : Nat, late : BOOLEAN, stolen : BOOLEAN]

Types ==
  /\ sock \in [Fd -> SockState] /\ chan \in Seq(Channel) /\ user \in BOOLEAN
  /\ ready \subseteq [c : DOMAIN chan, nval : BOOLEAN]

\* Of one channel: a watch is the one it had last and ends as EndsOnce says, a
\* shutdown gives up the user's reference, and AbortedNotCalled.
ChanOk(ch) ==
  /\ ch.watch # "none" => ch.had = ch.watch
  /\ ch.had = "none" => ch.calls = 0
  /\ ch.had \in {"connect", "accept"} =>
       /\ ch.watch # "none" => ch.calls = 0
       /\ ch.watch = "none" => ch.calls = 1 \/ ch.shut
  /\ ch.shut => ~ ch.held
  /\ ch.late => ch.stolen

ChansOk == \A c \in DOMAIN chan : ChanOk(chan[c])

\* A ready watch is there and is ready once, and NVAL is polled only after a
\* shutdown.
ReadyOk ==
  \A r \in ready : /\ chan[r.c].watch # "none" /\ (r.nval => chan[r.c].shut)
                   /\ \A q \in ready : q.c = r.c => q = r

Owns(ch) == Alive(ch) /\ ~ ch.shut

Owned ==
  /\ \A c \in DOMAIN chan : Owns(chan[c]) => sock[chan[c].fd] # "free"
  /\ \A c, d \in DOMAIN chan :
       Owns(chan[c]) /\ Owns(chan[d]) /\ chan[c].fd = chan[d].fd => c = d
  /\ \A f \in Fd : sock[f] # "free" => \E c \in DOMAIN chan : Owns(chan[c]) /\ chan[c].fd = f

Waits(ch) == ch.shut /\ ch.watch # "none" /\ ~ ch.stolen
Seen(c) == [c |-> c, nval |-> TRUE] \in ready
Lingering ==
  \A c \in DOMAIN chan :
    Waits(chan[c]) => (sock[chan[c].fd] = "free" /\ user = FALSE) \/ Seen(c)

IInv == Types /\ ChansOk /\ ReadyOk /\ Owned /\ Lingering
-----------------------------------------------------------------------------
\* What the invariant says of one channel.
LEMMA ChannelType ==
  ASSUME IInv
  PROVE  /\ chan \in Seq(Channel) /\ Len(chan) \in Nat /\ DOMAIN chan = 1..Len(chan)
         /\ \A c \in DOMAIN chan : chan[c] \in Channel /\ chan[c].fd \in Fd
         /\ sock \in [Fd -> SockState] /\ user \in BOOLEAN
         /\ \A r \in ready : /\ r.c \in DOMAIN chan /\ r.nval \in BOOLEAN
                             /\ r = [c |-> r.c, nval |-> r.nval]
<1>1. /\ chan \in Seq(Channel) /\ Len(chan) \in Nat /\ DOMAIN chan = 1..Len(chan)
      /\ sock \in [Fd -> SockState] /\ user \in BOOLEAN
  BY DEF IInv, Types
<1>2. \A c \in DOMAIN chan : chan[c] \in Channel BY <1>1
<1>3. \A ch \in Channel : ch.fd \in Fd BY DEF Channel
<1>4. \A r \in ready : r \in [c : DOMAIN chan, nval : BOOLEAN] BY DEF IInv, Types
<1> QED BY <1>1, <1>2, <1>3, <1>4

\* Replacing one channel.
LEMMA ReplaceChannel ==
  ASSUME IInv, NEW c \in DOMAIN chan, NEW ch \in Channel,
         chan' = [chan EXCEPT ![c] = ch]
  PROVE  /\ chan' \in Seq(Channel) /\ DOMAIN chan' = DOMAIN chan
         /\ \A d \in DOMAIN chan : chan'[d] = IF d = c THEN ch ELSE chan[d]
<1>1. chan \in Seq(Channel) /\ c \in 1..Len(chan) BY ChannelType
<1> QED BY <1>1, ExceptSeq, LenProperties

\* Adding one.
LEMMA AddChannel ==
  ASSUME IInv, NEW cs \in Seq(Channel), Len(cs) = Len(chan), NEW ch \in Channel,
         chan' = Append(cs, ch)
  PROVE  /\ chan' \in Seq(Channel) /\ DOMAIN chan' = 1..(Len(chan) + 1)
         /\ DOMAIN chan = 1..Len(chan) /\ Len(chan) \in Nat
         /\ \A d \in DOMAIN chan : chan'[d] = cs[d]
         /\ chan'[Len(chan) + 1] = ch
         /\ \A d \in DOMAIN chan' : d \in DOMAIN chan \/ d = Len(chan) + 1
         /\ Len(chan) + 1 \notin DOMAIN chan
<1>1. chan \in Seq(Channel) /\ DOMAIN chan = 1..Len(chan) /\ Len(chan) \in Nat
  BY ChannelType
<1>2. /\ chan' \in Seq(Channel) /\ DOMAIN chan' = 1..(Len(chan) + 1)
      /\ \A d \in 1..Len(chan) : chan'[d] = cs[d]
      /\ chan'[Len(chan) + 1] = ch
  BY <1>1, AppendProperties, LenProperties
<1> QED BY <1>1, <1>2

\* The lowest descriptor is not in use, and nobody owns it.
LEMMA LowestIsFree ==
  ASSUME IInv, NEW f \in Fd, Lowest(f)
  PROVE  /\ sock[f] = "free"
         /\ \A c \in DOMAIN chan : Owns(chan[c]) => chan[c].fd # f
BY DEF Lowest, IInv, Owned

\* A connect or a listen that fails leaves the descriptors as they were; one
\* that succeeds opens the lowest.
LEMMA OpenEffect ==
  ASSUME IInv, NEW f \in Fd, Lowest(f), NEW stage,
         \/ bt_io_connect(f, stage)
         \/ \E confirm \in BOOLEAN : bt_io_listen(f, stage, confirm)
  PROVE  /\ user /\ ~ user' /\ ready' = ready
         /\ \/ UNCHANGED <<sock, chan>>
            \/ \E st \in SockState, w \in {"connect", "server"}, confirm \in BOOLEAN :
                 /\ st # "free" /\ sock' = [sock EXCEPT ![f] = st]
                 /\ chan' = Append(chan, NewChannel(f, TRUE, w, confirm))
<1>1. sock[f] = "free" /\ sock \in [Fd -> SockState] BY LowestIsFree, ChannelType
<1>2. \A st : [[sock EXCEPT ![f] = st] EXCEPT ![f] = "free"] = sock BY <1>1
<1>3. ~ Alive(NewChannel(f, FALSE, "none", FALSE)) /\ ~ NewChannel(f, FALSE, "none", FALSE).shut
      /\ NewChannel(f, FALSE, "none", FALSE).fd = f
  BY DEF Alive, NewChannel
<1>4. \A s : g_io_channel_unref(s, NewChannel(f, FALSE, "none", FALSE)) = close(s, f)
  BY <1>3 DEF g_io_channel_unref
<1>5. ASSUME bt_io_connect(f, stage)
      PROVE  \/ UNCHANGED <<sock, chan>>
             \/ /\ sock' = [sock EXCEPT ![f] = "pending"]
                /\ chan' = Append(chan, NewChannel(f, TRUE, "connect", FALSE))
  <2>1. CASE stage = "options"
    BY <1>5, <2>1 DEF bt_io_connect, parse_set_opts
  <2>2. CASE stage = "socket"
    BY <1>5, <2>2 DEF bt_io_connect, parse_set_opts, create_io, l2cap_connect
  <2>3. CASE stage = "configure"
    BY <1>2, <1>5, <2>3
    DEF bt_io_connect, parse_set_opts, create_io, l2cap_connect, l2cap_set, close
  <2>4. CASE stage = "connect"
    <3>1. sock' = g_io_channel_unref([sock EXCEPT ![f] = "pending"],
                                     NewChannel(f, FALSE, "none", FALSE))
      BY <1>5, <2>4 DEF bt_io_connect, parse_set_opts, create_io, l2cap_connect, l2cap_set
    <3>2. chan' = chan BY <1>5, <2>4 DEF bt_io_connect
    <3> QED BY <1>2, <1>4, <3>1, <3>2 DEF close
  <2>5. CASE stage = "done"
    BY <1>5, <2>5
    DEF bt_io_connect, parse_set_opts, create_io, l2cap_connect, l2cap_set
  <2> QED BY <1>5, <2>1, <2>2, <2>3, <2>4, <2>5 DEF bt_io_connect
<1>6. ASSUME NEW confirm \in BOOLEAN, bt_io_listen(f, stage, confirm)
      PROVE  \/ UNCHANGED <<sock, chan>>
             \/ /\ sock' = [sock EXCEPT ![f] = "listen"]
                /\ chan' = Append(chan, NewChannel(f, TRUE, "server", confirm))
  <2>1. CASE stage = "options"
    BY <1>6, <2>1 DEF bt_io_listen, parse_set_opts
  <2>2. CASE stage = "socket"
    BY <1>6, <2>2 DEF bt_io_listen, parse_set_opts, create_io
  <2>3. CASE stage = "configure"
    BY <1>2, <1>6, <2>3 DEF bt_io_listen, parse_set_opts, create_io, l2cap_set, close
  <2>4. CASE stage = "listen"
    <3>1. sock' = g_io_channel_unref([sock EXCEPT ![f] = "pending"],
                                     NewChannel(f, FALSE, "none", FALSE))
      BY <1>6, <2>4 DEF bt_io_listen, parse_set_opts, create_io, l2cap_set
    <3>2. chan' = chan BY <1>6, <2>4 DEF bt_io_listen
    <3> QED BY <1>2, <1>4, <3>1, <3>2 DEF close
  <2>5. CASE stage = "done"
    <3>1. sock' = [[sock EXCEPT ![f] = "pending"] EXCEPT ![f] = "listen"]
      BY <1>6, <2>5 DEF bt_io_listen, parse_set_opts, create_io, l2cap_set
    <3>2. chan' = Append(chan, NewChannel(f, TRUE, "server", confirm))
      BY <1>6, <2>5 DEF bt_io_listen
    <3> QED BY <1>1, <3>1, <3>2
  <2> QED BY <1>6, <2>1, <2>2, <2>3, <2>4, <2>5 DEF bt_io_listen
<1>7. user /\ ~ user' /\ ready' = ready BY DEF bt_io_connect, bt_io_listen
<1>8. "pending" \in SockState /\ "listen" \in SockState BY DEF SockState
<1> QED BY <1>5, <1>6, <1>7, <1>8

\* A channel that gives up its descriptor closes it; nothing else happens to
\* the descriptors.
Yields(c, ch) ==
  /\ ch.fd = chan[c].fd /\ (Owns(ch) => Owns(chan[c]))
  /\ sock' = IF Owns(chan[c]) /\ ~ Owns(ch) THEN close(sock, ch.fd) ELSE sock

LEMMA YieldsOwned ==
  ASSUME IInv, NEW c \in DOMAIN chan, NEW ch \in Channel,
         chan' = [chan EXCEPT ![c] = ch], Yields(c, ch)
  PROVE  /\ sock' \in [Fd -> SockState] /\ Owned'
         /\ \A f \in Fd : sock[f] = "free" => sock'[f] = "free"
<1>1. /\ DOMAIN chan' = DOMAIN chan
      /\ \A d \in DOMAIN chan : chan'[d] = IF d = c THEN ch ELSE chan[d]
  BY ReplaceChannel
<1>2. sock \in [Fd -> SockState] /\ \A d \in DOMAIN chan : chan[d].fd \in Fd
  BY ChannelType
<1>3. "free" \in SockState BY DEF SockState
<1>4. CASE Owns(chan[c]) /\ ~ Owns(ch)
  <2>1. sock' = [sock EXCEPT ![chan[c].fd] = "free"] BY <1>4 DEF Yields, close
  <2>2. /\ sock' \in [Fd -> SockState] /\ sock'[chan[c].fd] = "free"
        /\ \A f \in Fd : f # chan[c].fd => sock'[f] = sock[f]
    BY <1>2, <1>3, <2>1
  <2>3. \A d \in DOMAIN chan' : Owns(chan'[d]) => sock'[chan'[d].fd] # "free"
    BY <1>1, <1>2, <1>4, <2>2 DEF IInv, Owned
  <2>4. \A d, e \in DOMAIN chan' :
          Owns(chan'[d]) /\ Owns(chan'[e]) /\ chan'[d].fd = chan'[e].fd => d = e
    BY <1>1, <1>4 DEF IInv, Owned
  <2>5. \A f \in Fd : sock'[f] # "free" =>
          \E d \in DOMAIN chan' : Owns(chan'[d]) /\ chan'[d].fd = f
    BY <1>1, <1>2, <2>2 DEF IInv, Owned
  <2> QED BY <2>2, <2>3, <2>4, <2>5 DEF Owned, Owns, Alive
<1>5. CASE ~ (Owns(chan[c]) /\ ~ Owns(ch))
  <2>1. sock' = sock /\ (Owns(ch) <=> Owns(chan[c])) /\ ch.fd = chan[c].fd
    BY <1>5 DEF Yields
  <2>2. \A d \in DOMAIN chan : (Owns(chan'[d]) <=> Owns(chan[d])) /\ chan'[d].fd = chan[d].fd
    BY <1>1, <2>1
  <2>3. \A d \in DOMAIN chan' : Owns(chan'[d]) => sock'[chan'[d].fd] # "free"
    BY <1>1, <2>1, <2>2 DEF IInv, Owned
  <2>4. \A d, e \in DOMAIN chan' :
          Owns(chan'[d]) /\ Owns(chan'[e]) /\ chan'[d].fd = chan'[e].fd => d = e
    BY <1>1, <2>2 DEF IInv, Owned
  <2>5. \A f \in Fd : sock'[f] # "free" =>
          \E d \in DOMAIN chan' : Owns(chan'[d]) /\ chan'[d].fd = f
    BY <1>1, <2>1, <2>2 DEF IInv, Owned
  <2> QED BY <1>2, <2>1, <2>3, <2>4, <2>5 DEF Owned, Owns, Alive
<1> QED BY <1>4, <1>5

\* Replacing a channel keeps the invariant when the new one is as it should be
\* and only its own ready watch goes.
LEMMA ReplaceKeeps ==
  ASSUME IInv, NEW c \in DOMAIN chan, NEW ch \in Channel,
         chan' = [chan EXCEPT ![c] = ch], Yields(c, ch), ChanOk(ch),
         user' \in BOOLEAN, user' => user,
         ready' \subseteq ready, \A r \in ready : r \in ready' \/ r.c = c,
         \A r \in ready' : r.c = c => ch.watch # "none" /\ (r.nval => ch.shut),
         Waits(ch) => (sock'[ch.fd] = "free" /\ user' = FALSE) \/ Seen(c)'
  PROVE  IInv'
<1>1. /\ chan' \in Seq(Channel) /\ DOMAIN chan' = DOMAIN chan
      /\ \A d \in DOMAIN chan : chan'[d] = IF d = c THEN ch ELSE chan[d]
  BY ReplaceChannel
<1>2. /\ sock' \in [Fd -> SockState] /\ Owned'
      /\ \A f \in Fd : sock[f] = "free" => sock'[f] = "free"
  BY YieldsOwned
<1>3. /\ \A d \in DOMAIN chan : chan[d].fd \in Fd
      /\ \A r \in ready : r.c \in DOMAIN chan
  BY ChannelType
<1>4. ready \subseteq [c : DOMAIN chan, nval : BOOLEAN] BY DEF IInv, Types
<1>5. Types' BY <1>1, <1>2, <1>4 DEF Types
<1>6. ChansOk' BY <1>1 DEF IInv, ChansOk
<1>7. ReadyOk' BY <1>1, <1>3 DEF IInv, ReadyOk
<1>8. Lingering'
  <2> SUFFICES ASSUME NEW d \in DOMAIN chan, Waits(chan'[d])
               PROVE  (sock'[chan'[d].fd] = "free" /\ user' = FALSE) \/ Seen(d)'
    BY <1>1 DEF Lingering, Waits
  <2>1. CASE d = c BY <1>1, <2>1
  <2>2. CASE d # c
    <3>1. chan'[d] = chan[d] BY <1>1, <2>2
    <3>2. CASE sock[chan[d].fd] = "free" /\ user = FALSE BY <1>2, <1>3, <3>1, <3>2
    <3>3. CASE Seen(d) BY <2>2, <3>3 DEF Seen
    <3> QED BY <3>1, <3>2, <3>3 DEF IInv, Lingering
  <2> QED BY <2>1, <2>2
<1> QED BY <1>2, <1>5, <1>6, <1>7, <1>8 DEF IInv

\* A step that neither opens nor closes a descriptor nor changes a channel.
LEMMA SameKeeps ==
  ASSUME IInv, chan' = chan, sock' \in [Fd -> SockState],
         \A f \in Fd : sock'[f] = "free" <=> sock[f] = "free",
         user' \in BOOLEAN, user' => user,
         ready' \subseteq ready,
         \A r \in ready : r \in ready' \/ ~ Waits(chan[r.c])
  PROVE  IInv'
<1>1. /\ \A d \in DOMAIN chan : chan[d].fd \in Fd
      /\ chan \in Seq(Channel)
  BY ChannelType
<1>2. Types' BY <1>1 DEF IInv, Types
<1>3. ChansOk' BY DEF IInv, ChansOk
<1>4. ReadyOk' BY DEF IInv, ReadyOk
<1>5. Owned' BY <1>1 DEF IInv, Owned
<1>6. Lingering'
  <2> SUFFICES ASSUME NEW d \in DOMAIN chan, Waits(chan[d])
               PROVE  (sock'[chan[d].fd] = "free" /\ user' = FALSE) \/ Seen(d)'
    BY DEF Lingering, Waits
  <2>1. CASE sock[chan[d].fd] = "free" /\ user = FALSE BY <1>1, <2>1
  <2>2. CASE Seen(d) BY <2>2 DEF Seen
  <2> QED BY <2>1, <2>2 DEF IInv, Lingering
<1> QED BY <1>2, <1>3, <1>4, <1>5, <1>6 DEF IInv

(***************************************************************************)
(* A new channel on the free descriptor f, the other ones being as before  *)
(* but for what the history says.  Either the user's turn ends with it, or *)
(* the channels that still wait on f are marked as stolen from.            *)
(***************************************************************************)
Similar(b, a) ==
  /\ b \in Channel /\ ChanOk(b) /\ b.fd = a.fd /\ b.watch = a.watch /\ b.shut = a.shut
  /\ (Owns(b) <=> Owns(a)) /\ (a.stolen => b.stolen)

LEMMA AddKeeps ==
  ASSUME IInv, NEW f \in Fd, Lowest(f),
         NEW cs \in Seq(Channel), Len(cs) = Len(chan),
         \A d \in DOMAIN chan : Similar(cs[d], chan[d]),
         NEW ch \in Channel, ChanOk(ch), ch.fd = f, ~ ch.shut,
         chan' = Append(cs, ch),
         sock' \in [Fd -> SockState], Owns(ch) <=> sock'[f] # "free",
         \A g \in Fd : g # f => (sock'[g] = "free" <=> sock[g] = "free"),
         user' \in BOOLEAN, user' => user,
         \A d \in DOMAIN chan : Waits(cs[d]) => user \/ chan[d].fd # f,
         ready' \subseteq ready,
         \A r \in ready : r \in ready' \/ ~ Waits(cs[r.c])
  PROVE  IInv'
<1> DEFINE n == Len(chan) + 1
<1>1. /\ chan' \in Seq(Channel) /\ DOMAIN chan' = 1..n
      /\ DOMAIN chan = 1..Len(chan) /\ Len(chan) \in Nat
      /\ \A d \in DOMAIN chan : chan'[d] = cs[d]
      /\ chan'[n] = ch
      /\ \A d \in DOMAIN chan' : d \in DOMAIN chan \/ d = n
      /\ n \notin DOMAIN chan
  BY AddChannel
<1>2. DOMAIN chan \subseteq DOMAIN chan' /\ n \in DOMAIN chan' BY <1>1
<1> HIDE DEF n
<1>3. /\ sock[f] = "free"
      /\ \A d \in DOMAIN chan : chan[d].fd \in Fd /\ (Owns(chan[d]) => chan[d].fd # f)
      /\ \A r \in ready : r.c \in DOMAIN chan
  BY LowestIsFree, ChannelType
<1>4. \A d \in DOMAIN chan :
        /\ ChanOk(cs[d]) /\ cs[d].fd = chan[d].fd /\ cs[d].watch = chan[d].watch
        /\ cs[d].shut = chan[d].shut /\ (Owns(cs[d]) <=> Owns(chan[d]))
        /\ (Waits(cs[d]) => Waits(chan[d]))
  BY DEF Similar, Waits
<1>5. Types'
  <2>1. ready \subseteq [c : DOMAIN chan, nval : BOOLEAN] BY DEF IInv, Types
  <2> QED BY <1>1, <1>2, <2>1 DEF Types
<1>6. ChansOk' BY <1>1, <1>4 DEF ChansOk
<1>7. ReadyOk' BY <1>1, <1>3, <1>4 DEF IInv, ReadyOk
<1>8. Owned'
  <2>1. \A d \in DOMAIN chan : Owns(cs[d]) => sock'[cs[d].fd] # "free"
    BY <1>3, <1>4 DEF IInv, Owned
  <2>2. \A d \in DOMAIN chan' : Owns(chan'[d]) => sock'[chan'[d].fd] # "free"
    BY <1>1, <2>1
  <2>3. \A c, d \in DOMAIN chan : Owns(cs[c]) /\ Owns(cs[d]) /\ cs[c].fd = cs[d].fd => c = d
    BY <1>4 DEF IInv, Owned
  <2>4. \A d \in DOMAIN chan : Owns(cs[d]) => cs[d].fd # f BY <1>3, <1>4
  <2>5. \A c, d \in DOMAIN chan' :
          Owns(chan'[c]) /\ Owns(chan'[d]) /\ chan'[c].fd = chan'[d].fd => c = d
    BY <1>1, <2>3, <2>4
  <2>6. ASSUME NEW g \in Fd, sock'[g] # "free"
        PROVE  \E d \in DOMAIN chan' : Owns(chan'[d]) /\ chan'[d].fd = g
    <3>1. CASE g = f BY <1>1, <1>2, <2>6, <3>1
    <3>2. CASE g # f
      <4>1. PICK d \in DOMAIN chan : Owns(chan[d]) /\ chan[d].fd = g
        BY <2>6, <3>2 DEF IInv, Owned
      <4>2. Owns(chan'[d]) /\ chan'[d].fd = g BY <1>1, <1>4, <4>1
      <4> QED BY <1>2, <4>2
    <3> QED BY <3>1, <3>2
  <2> QED BY <2>2, <2>5, <2>6 DEF Owned, Owns, Alive
<1>9. Lingering'
  <2> SUFFICES ASSUME NEW d \in DOMAIN chan', Waits(chan'[d])
               PROVE  (sock'[chan'[d].fd] = "free" /\ user' = FALSE) \/ Seen(d)'
    BY DEF Lingering, Waits
  <2>1. d # n BY <1>1 DEF Waits
  <2>2. d \in DOMAIN chan /\ chan'[d] = cs[d] BY <1>1, <2>1
  <2>3. Waits(cs[d]) /\ Waits(chan[d]) /\ cs[d].fd = chan[d].fd BY <1>4, <2>2
  <2>4. CASE sock[chan[d].fd] = "free" /\ user = FALSE
    BY <1>3, <2>2, <2>3, <2>4
  <2>5. CASE Seen(d) BY <2>3, <2>5 DEF Seen
  <2> QED BY <2>2, <2>3, <2>4, <2>5 DEF IInv, Lingering
<1> QED BY <1>5, <1>6, <1>7, <1>8, <1>9 DEF IInv
-----------------------------------------------------------------------------
(***************************************************************************)
(* The calls of the user.                                                  *)
(***************************************************************************)
\* bt_io_connect and bt_io_listen.
LEMMA OpenKeeps ==
  ASSUME IInv, NEW f \in Fd, Lowest(f), NEW stage,
         \/ bt_io_connect(f, stage)
         \/ \E confirm \in BOOLEAN : bt_io_listen(f, stage, confirm)
  PROVE  IInv'
<1>1. user /\ user' = FALSE /\ ready' = ready BY DEF bt_io_connect, bt_io_listen
<1>2. /\ sock \in [Fd -> SockState] /\ chan \in Seq(Channel) /\ sock[f] = "free"
      /\ \A d \in DOMAIN chan : chan[d] \in Channel
  BY ChannelType, LowestIsFree
<1>3. CASE UNCHANGED <<sock, chan>> BY <1>1, <1>2, <1>3, SameKeeps
<1>4. ASSUME NEW st \in SockState, NEW w \in {"connect", "server"}, NEW confirm \in BOOLEAN,
             st # "free", sock' = [sock EXCEPT ![f] = st],
             chan' = Append(chan, NewChannel(f, TRUE, w, confirm))
      PROVE  IInv'
  <2> DEFINE ch == NewChannel(f, TRUE, w, confirm)
  <2>1. w \in WatchKind /\ w # "none" BY <1>4 DEF WatchKind
  <2>2. ch \in Channel /\ ch.fd = f /\ Owns(ch) /\ ~ ch.shut /\ ChanOk(ch)
    BY <1>4, <2>1 DEF NewChannel, Channel, Owns, Alive, ChanOk
  <2>3. chan' = Append(chan, ch) BY <1>4
  <2> HIDE DEF ch
  <2>4. /\ sock' \in [Fd -> SockState] /\ sock'[f] # "free"
        /\ \A g \in Fd : g # f => sock'[g] = sock[g]
    BY <1>2, <1>4
  <2>5. \A d \in DOMAIN chan : Similar(chan[d], chan[d])
    BY <1>2 DEF Similar, IInv, ChansOk
  <2> QED BY <1>1, <1>2, <2>2, <2>3, <2>4, <2>5, AddKeeps
<1>5. \/ UNCHANGED <<sock, chan>>
      \/ \E st \in SockState, w \in {"connect", "server"}, confirm \in BOOLEAN :
           /\ st # "free" /\ sock' = [sock EXCEPT ![f] = st]
           /\ chan' = Append(chan, NewChannel(f, TRUE, w, confirm))
  BY OpenEffect
<1> QED BY <1>3, <1>4, <1>5

\* bt_io_accept.
LEMMA AcceptKeeps ==
  ASSUME IInv, NEW c \in DOMAIN chan, NEW ok \in BOOLEAN, bt_io_accept(c, ok)
  PROVE  IInv'
<1>1. /\ user /\ user' = FALSE /\ UNCHANGED <<sock, ready>>
      /\ chan[c].held /\ chan[c].had = "none"
  BY DEF bt_io_accept
<1>2. chan[c] \in Channel /\ ChanOk(chan[c]) /\ sock \in [Fd -> SockState]
  BY ChannelType DEF IInv, ChansOk
<1>3. CASE ~ ok
  <2>1. chan' = chan BY <1>3 DEF bt_io_accept
  <2> QED BY <1>1, <1>2, <2>1, SameKeeps
<1>4. CASE ok
  <2> DEFINE ch == [chan[c] EXCEPT !.watch = "accept", !.had = "accept"]
  <2>1. chan' = [chan EXCEPT ![c] = ch] BY <1>4 DEF bt_io_accept
  <2>2. /\ ch \in Channel /\ ch.fd = chan[c].fd /\ ch.held /\ ch.shut = chan[c].shut
        /\ ch.watch = "accept" /\ ch.had = "accept" /\ ch.calls = chan[c].calls
        /\ ch.late = chan[c].late /\ ch.stolen = chan[c].stolen
    BY <1>1, <1>2 DEF Channel, WatchKind
  <2> HIDE DEF ch
  <2>3. chan[c].watch = "none" /\ chan[c].calls = 0 /\ ~ chan[c].shut
        /\ (chan[c].late => chan[c].stolen)
    BY <1>1, <1>2 DEF ChanOk
  <2>4. \A r \in ready : r.c # c BY <2>3 DEF IInv, ReadyOk
  <2>5. ChanOk(ch) /\ ~ Waits(ch) BY <2>2, <2>3 DEF ChanOk, Waits
  <2>6. Yields(c, ch) BY <1>1, <2>2 DEF Yields, Owns, Alive
  <2> QED BY <1>1, <2>1, <2>2, <2>4, <2>5, <2>6, ReplaceKeeps
<1> QED BY <1>3, <1>4

\* A shutdown: the descriptor is closed at once, and until the next poll the
\* user gets no other turn.
LEMMA AbortKeeps ==
  ASSUME IInv, NEW c \in DOMAIN chan, Abort(c)
  PROVE  IInv'
<1> DEFINE ch == [chan[c] EXCEPT !.shut = TRUE, !.held = FALSE]
<1>1. /\ user /\ user' = FALSE /\ ready' = ready /\ chan[c].held /\ ~ chan[c].shut
      /\ sock' = close(sock, chan[c].fd)
      /\ chan' = [chan EXCEPT ![c] = ch]
  BY DEF Abort
<1>2. /\ chan[c] \in Channel /\ ChanOk(chan[c]) /\ sock \in [Fd -> SockState]
      /\ chan[c].fd \in Fd
  BY ChannelType DEF IInv, ChansOk
<1>3. /\ ch \in Channel /\ ch.fd = chan[c].fd /\ ~ ch.held /\ ch.shut
      /\ ch.watch = chan[c].watch /\ ch.had = chan[c].had /\ ch.calls = chan[c].calls
      /\ ch.late = chan[c].late /\ ch.stolen = chan[c].stolen
  BY <1>2 DEF Channel
<1> HIDE DEF ch
<1>4. ChanOk(ch) BY <1>2, <1>3 DEF ChanOk
<1>5. Yields(c, ch) BY <1>1, <1>3 DEF Yields, Owns, Alive
<1>6. sock'[ch.fd] = "free" BY <1>1, <1>2, <1>3 DEF close
<1>7. \A r \in ready : r.c = c => ch.watch # "none" BY <1>3 DEF IInv, ReadyOk
<1> QED BY <1>1, <1>3, <1>4, <1>5, <1>6, <1>7, ReplaceKeeps

\* Giving up a reference: the descriptor goes with the last one.
LEMMA ReleaseKeeps ==
  ASSUME IInv, NEW c \in DOMAIN chan, Release(c)
  PROVE  IInv'
<1> DEFINE ch == [chan[c] EXCEPT !.held = FALSE]
<1>1. /\ user /\ user' = FALSE /\ ready' = ready /\ chan[c].held
      /\ sock' = g_io_channel_unref(sock, ch)
      /\ chan' = [chan EXCEPT ![c] = ch]
  BY DEF Release
<1>2. chan[c] \in Channel /\ ChanOk(chan[c])
  BY ChannelType DEF IInv, ChansOk
<1>3. /\ ch \in Channel /\ ch.fd = chan[c].fd /\ ~ ch.held /\ ch.shut = chan[c].shut
      /\ ch.watch = chan[c].watch /\ ch.had = chan[c].had /\ ch.calls = chan[c].calls
      /\ ch.late = chan[c].late /\ ch.stolen = chan[c].stolen
  BY <1>2 DEF Channel
<1> HIDE DEF ch
<1>4. ~ chan[c].shut BY <1>1, <1>2 DEF ChanOk
<1>5. ChanOk(ch) /\ ~ Waits(ch) BY <1>2, <1>3, <1>4 DEF ChanOk, Waits
<1>6. Yields(c, ch) BY <1>1, <1>3, <1>4 DEF Yields, Owns, Alive, g_io_channel_unref
<1>7. \A r \in ready : r.c = c => ch.watch # "none" /\ (r.nval => ch.shut)
  BY <1>3 DEF IInv, ReadyOk
<1> QED BY <1>1, <1>3, <1>5, <1>6, <1>7, ReplaceKeeps
-----------------------------------------------------------------------------
(***************************************************************************)
(* The callbacks.  What they rest on: one that is not told of an abort has *)
(* a channel that was not shut down, or was stolen from.                   *)
(***************************************************************************)
LEMMA NotAborted ==
  ASSUME IInv, NEW r \in ready, ~ aborted(chan[r.c], r.nval)
  PROVE  ~ Waits(chan[r.c])
<1>1. r.c \in DOMAIN chan /\ r.nval \in BOOLEAN /\ r = [c |-> r.c, nval |-> r.nval]
  BY ChannelType
<1>2. r.nval = FALSE /\ sock[chan[r.c].fd] # "free" BY <1>1 DEF aborted, check_nval
<1>3. ~ Seen(r.c)
  <2> SUFFICES ASSUME [c |-> r.c, nval |-> TRUE] \in ready PROVE FALSE BY DEF Seen
  <2>1. [c |-> r.c, nval |-> TRUE] = r BY DEF IInv, ReadyOk
  <2> QED BY <1>2, <2>1
<1> QED BY <1>1, <1>2, <1>3 DEF IInv, Lingering

\* And one that is told had its channel shut down.
LEMMA AbortedIsShut ==
  ASSUME IInv, NEW r \in ready, aborted(chan[r.c], r.nval)
  PROVE  chan[r.c].shut
<1>1. r.c \in DOMAIN chan /\ chan[r.c] \in Channel /\ chan[r.c].watch # "none"
  BY ChannelType DEF IInv, ReadyOk
<1>2. chan[r.c].shut \in BOOLEAN BY <1>1 DEF Channel
<1>3. CASE r.nval BY <1>3 DEF IInv, ReadyOk
<1>4. CASE sock[chan[r.c].fd] = "free"
  BY <1>1, <1>2, <1>4 DEF IInv, Owned, Owns, Alive
<1> QED BY <1>3, <1>4 DEF aborted, check_nval

\* A callback that takes its watch away.
LEMMA RemoveKeeps ==
  ASSUME IInv, NEW r \in ready, ready' = ready \ {r}, user' = user,
         NEW ch \in Channel, ChanOk(ch), ch.watch = "none",
         ch.fd = chan[r.c].fd, ch.shut = chan[r.c].shut, ch.held = chan[r.c].held,
         chan' = [chan EXCEPT ![r.c] = ch], sock' = g_io_channel_unref(sock, ch)
  PROVE  IInv'
<1>1. r.c \in DOMAIN chan /\ user \in BOOLEAN /\ chan[r.c].watch # "none"
  BY ChannelType DEF IInv, ReadyOk
<1>2. ch.held \in BOOLEAN /\ ch.shut \in BOOLEAN BY DEF Channel
<1>3. Yields(r.c, ch) BY <1>1, <1>2 DEF Yields, Owns, Alive, g_io_channel_unref
<1>4. ~ Waits(ch) BY DEF Waits
<1>5. \A q \in ready : q.c = r.c => q = r BY DEF IInv, ReadyOk
<1> QED BY <1>1, <1>3, <1>4, <1>5, ReplaceKeeps

\* connect_cb and accept_cb.
LEMMA EndKeeps ==
  ASSUME IInv, NEW r \in ready, ready' = ready \ {r}, user' = user,
         connect_cb(r.c, r.nval) \/ accept_cb(r.c, r.nval)
  PROVE  IInv'
<1>1. /\ r.c \in DOMAIN chan /\ chan[r.c] \in Channel /\ ChanOk(chan[r.c])
  BY ChannelType DEF IInv, ChansOk
<1>2. chan[r.c].watch \in {"connect", "accept"} BY DEF connect_cb, accept_cb
<1>3. /\ chan[r.c].had = chan[r.c].watch /\ chan[r.c].calls = 0
      /\ (chan[r.c].shut => ~ chan[r.c].held) /\ (chan[r.c].late => chan[r.c].stolen)
  BY <1>1, <1>2 DEF ChanOk
<1>4. CASE aborted(chan[r.c], r.nval)
  <2> DEFINE ch == [chan[r.c] EXCEPT !.watch = "none"]
  <2>1. chan' = [chan EXCEPT ![r.c] = ch] /\ sock' = g_io_channel_unref(sock, ch)
    BY <1>4 DEF connect_cb, accept_cb, remove
  <2>2. /\ ch \in Channel /\ ch.watch = "none" /\ ch.fd = chan[r.c].fd
        /\ ch.shut = chan[r.c].shut /\ ch.held = chan[r.c].held /\ ch.had = chan[r.c].had
        /\ ch.late = chan[r.c].late /\ ch.stolen = chan[r.c].stolen
    BY <1>1 DEF Channel, WatchKind
  <2> HIDE DEF ch
  <2>3. ChanOk(ch) BY <1>2, <1>3, <1>4, <2>2, AbortedIsShut DEF ChanOk
  <2> QED BY <2>1, <2>2, <2>3, RemoveKeeps
<1>5. CASE ~ aborted(chan[r.c], r.nval)
  <2> DEFINE ch == [call(chan[r.c]) EXCEPT !.watch = "none"]
  <2>1. chan' = [chan EXCEPT ![r.c] = ch] /\ sock' = g_io_channel_unref(sock, ch)
    BY <1>5 DEF connect_cb, accept_cb, remove
  <2>2. chan[r.c].shut => chan[r.c].stolen
    BY <1>1, <1>2, <1>5, NotAborted DEF Waits
  <2>3. /\ ch \in Channel /\ ch.watch = "none" /\ ch.fd = chan[r.c].fd
        /\ ch.shut = chan[r.c].shut /\ ch.held = chan[r.c].held /\ ch.had = chan[r.c].had
        /\ ch.calls = chan[r.c].calls + 1 /\ ch.stolen = chan[r.c].stolen
        /\ (ch.late => chan[r.c].late \/ chan[r.c].shut)
    <3>1. /\ chan[r.c].calls + 1 \in Nat /\ (chan[r.c].late \/ chan[r.c].shut) \in BOOLEAN
          /\ "none" \in WatchKind
      BY <1>1 DEF Channel, WatchKind
    <3> HIDE DEF WatchKind
    <3> QED BY <1>1, <3>1 DEF Channel, call
  <2> HIDE DEF ch
  <2>4. ChanOk(ch) BY <1>2, <1>3, <2>2, <2>3 DEF ChanOk
  <2> QED BY <2>1, <2>3, <2>4, RemoveKeeps
<1> QED BY <1>4, <1>5

\* server_cb: the connection it accepts takes the lowest descriptor, and with
\* it the wait of every channel that was shut down on it.
LEMMA ServerKeeps ==
  ASSUME IInv, NEW r \in ready, ready' = ready \ {r}, user' = user,
         NEW keep \in BOOLEAN, NEW acc \in BOOLEAN, server_cb(r.c, r.nval, keep, acc)
  PROVE  IInv'
<1> DEFINE c == r.c
<1>1. /\ c \in DOMAIN chan /\ chan[c] \in Channel /\ ChanOk(chan[c]) /\ user \in BOOLEAN
      /\ sock \in [Fd -> SockState] /\ chan \in Seq(Channel) /\ chan[c].fd \in Fd
      /\ chan[c].watch = "server"
  BY ChannelType DEF IInv, ChansOk, server_cb
<1>2. CASE aborted(chan[c], r.nval)
  <2> DEFINE ch == [chan[c] EXCEPT !.watch = "none"]
  <2>1. chan' = [chan EXCEPT ![c] = ch] /\ sock' = g_io_channel_unref(sock, ch)
    BY <1>2 DEF server_cb, remove
  <2>2. /\ ch \in Channel /\ ch.watch = "none" /\ ch.fd = chan[c].fd
        /\ ch.shut = chan[c].shut /\ ch.held = chan[c].held /\ ch.had = chan[c].had
        /\ ch.calls = chan[c].calls
        /\ ch.late = chan[c].late /\ ch.stolen = chan[c].stolen
    BY <1>1 DEF Channel, WatchKind
  <2> HIDE DEF ch
  <2>3. ChanOk(ch) BY <1>1, <2>2 DEF ChanOk
  <2> QED BY <2>1, <2>2, <2>3, RemoveKeeps
<1>3. CASE ~ aborted(chan[c], r.nval) /\ UNCHANGED <<sock, chan>>
  <2>1. ~ Waits(chan[c]) BY <1>3, NotAborted
  <2> QED BY <1>1, <1>3, <2>1, SameKeeps
<1>4. CASE /\ ~ aborted(chan[c], r.nval) /\ sock[chan[c].fd] = "incoming"
           /\ \E f \in Fd : Lowest(f)
  <2> DEFINE st == IF chan[c].confirm THEN "pending" ELSE "up"
             cli(f) == NewChannel(f, keep, IF acc THEN "accept" ELSE "none", FALSE)
             s(f) == [sock EXCEPT ![chan[c].fd] = "listen", ![f] = st]
             cs(f) == [steal(f) EXCEPT ![c].late = @ \/ chan[c].shut]
  <2>1. PICK f \in Fd : /\ Lowest(f) /\ chan' = Append(cs(f), cli(f))
                        /\ sock' = g_io_channel_unref(s(f), cli(f))
    BY <1>4 DEF server_cb
  <2>2. ~ Waits(chan[c]) BY <1>4, NotAborted
  <2>3. sock[f] = "free" /\ f # chan[c].fd BY <1>4, <2>1, LowestIsFree
  <2>4. /\ cli(f) \in Channel /\ ChanOk(cli(f)) /\ cli(f).fd = f /\ cli(f).shut = FALSE
        /\ Alive(cli(f)) \in BOOLEAN
    BY <2>1 DEF NewChannel, Channel, WatchKind, ChanOk, Alive
  <2>5. Owns(cli(f)) <=> Alive(cli(f)) BY <2>4 DEF Owns
  <2>6. /\ sock' \in [Fd -> SockState] /\ (Alive(cli(f)) <=> sock'[f] # "free")
        /\ \A g \in Fd : g # f => (sock'[g] = "free" <=> sock[g] = "free")
    <3> HIDE DEF cli
    <3>1. st \in SockState /\ st # "free" /\ "listen" \in SockState /\ "free" \in SockState
      BY DEF SockState
    <3> HIDE DEF st
    <3>2. /\ s(f) \in [Fd -> SockState] /\ s(f)[f] # "free"
          /\ \A g \in Fd : g # f => (s(f)[g] = "free" <=> sock[g] = "free")
      BY <1>1, <1>4, <2>3, <3>1
    <3> HIDE DEF s
    <3> QED BY <2>1, <2>4, <3>1, <3>2 DEF g_io_channel_unref, close
  <2>7. /\ cs(f) \in Seq(Channel) /\ Len(cs(f)) = Len(chan)
        /\ \A d \in DOMAIN chan : Similar(cs(f)[d], chan[d])
        /\ \A d \in DOMAIN chan : Waits(cs(f)[d]) => chan[d].fd # f
        /\ ~ Waits(cs(f)[c])
    <3> HIDE DEF cli, s
    <3> DEFINE b(d) == [fd |-> chan[d].fd, held |-> chan[d].held, watch |-> chan[d].watch,
                        confirm |-> chan[d].confirm, shut |-> chan[d].shut,
                        had |-> chan[d].had, calls |-> chan[d].calls,
                        late |-> IF d = c THEN chan[d].late \/ chan[d].shut ELSE chan[d].late,
                        stolen |-> chan[d].stolen \/ (chan[d].fd = f /\ chan[d].watch # "none")]
    <3>1. \A d \in DOMAIN chan : chan[d] \in Channel /\ ChanOk(chan[d])
      BY ChannelType DEF IInv, ChansOk
    <3>2. \A d \in DOMAIN chan : cs(f)[d] = b(d)
      BY <1>1, <3>1 DEF steal, Channel
    <3>3. /\ cs(f) = [d \in DOMAIN chan |-> cs(f)[d]]
          /\ DOMAIN chan = 1..Len(chan) /\ Len(chan) \in Nat
      BY ChannelType DEF steal
    <3>4. \A d \in DOMAIN chan : b(d) \in Channel BY <3>1 DEF Channel
    <3>5. cs(f) \in Seq(Channel) /\ Len(cs(f)) = Len(chan)
      <4> HIDE DEF b, cs
      <4> QED BY <3>2, <3>3, <3>4, SeqDef, LenProperties
    <3>6. chan[c].shut => chan[c].stolen BY <1>1, <2>2 DEF Waits
    <3>7. \A d \in DOMAIN chan : Similar(b(d), chan[d])
      <4> SUFFICES ASSUME NEW d \in DOMAIN chan PROVE Similar(b(d), chan[d]) OBVIOUS
      <4>1. /\ b(d).fd = chan[d].fd /\ b(d).held = chan[d].held /\ b(d).watch = chan[d].watch
            /\ b(d).shut = chan[d].shut /\ b(d).had = chan[d].had /\ b(d).calls = chan[d].calls
            /\ (b(d).late => chan[d].late \/ (d = c /\ chan[d].shut))
            /\ (chan[d].stolen => b(d).stolen)
        OBVIOUS
      <4>2. b(d) \in Channel /\ ChanOk(chan[d]) BY <3>1, <3>4
      <4> HIDE DEF b
      <4>3. Owns(b(d)) <=> Owns(chan[d]) BY <4>1 DEF Owns, Alive
      <4>4. ChanOk(b(d)) BY <3>6, <4>1, <4>2 DEF ChanOk
      <4> QED BY <4>1, <4>2, <4>3, <4>4 DEF Similar
    <3>8. \A d \in DOMAIN chan : Waits(b(d)) => chan[d].fd # f BY DEF Waits
    <3>9. ~ Waits(b(c)) BY <3>6 DEF Waits
    <3> HIDE DEF b, cs
    <3> QED BY <1>1, <3>2, <3>5, <3>7, <3>8, <3>9
  <2> HIDE DEF cs, cli, s, st
  <2>8. \A q \in ready : q \in ready' \/ ~ Waits(cs(f)[q.c]) BY <2>7
  <2> QED BY <1>1, <2>1, <2>4, <2>5, <2>6, <2>7, <2>8, AddKeeps
<1> QED BY <1>2, <1>3, <1>4 DEF server_cb
-----------------------------------------------------------------------------
\* A poll with nothing left to dispatch finds every channel that was shut down.
LEMMA PollKeeps ==
  ASSUME IInv, Poll
  PROVE  IInv'
<1>1. /\ ready = {} /\ user' \in BOOLEAN /\ UNCHANGED <<sock, chan>>
      /\ ready' = {[c |-> c, nval |-> sock[chan[c].fd] = "free"] :
                     c \in {d \in DOMAIN chan : sock[chan[d].fd] \in Wakes(chan[d].watch)}}
  BY DEF Poll
<1>2. /\ \A d \in DOMAIN chan : chan[d] \in Channel /\ chan[d].fd \in Fd
      /\ chan \in Seq(Channel) /\ sock \in [Fd -> SockState]
  BY ChannelType
<1>3. \A w \in WatchKind : /\ w = "none" => Wakes(w) = {}
                           /\ w # "none" => "free" \in Wakes(w)
  BY DEF Wakes, WatchKind
<1>4. \A d \in DOMAIN chan : chan[d].watch \in WatchKind /\ chan[d].shut \in BOOLEAN
  BY <1>2 DEF Channel
<1>5. ASSUME NEW q \in ready'
      PROVE  /\ q.c \in DOMAIN chan /\ chan[q.c].watch # "none"
             /\ q.nval = (sock[chan[q.c].fd] = "free")
             /\ q = [c |-> q.c, nval |-> sock[chan[q.c].fd] = "free"]
  BY <1>1, <1>3, <1>4
<1>6. Types'
  <2>1. ASSUME NEW q \in ready' PROVE q \in [c : DOMAIN chan, nval : BOOLEAN]
    <3>1. PICK b \in BOOLEAN : b = (sock[chan[q.c].fd] = "free") OBVIOUS
    <3>2. q.c \in DOMAIN chan /\ q = [c |-> q.c, nval |-> b] BY <1>5, <3>1
    <3> QED BY <3>2
  <2> QED BY <1>1, <1>2, <2>1 DEF Types
<1>7. ChansOk' BY <1>1 DEF IInv, ChansOk
<1>8. ReadyOk'
  <2>1. \A d \in DOMAIN chan :
          sock[chan[d].fd] = "free" /\ chan[d].watch # "none" => chan[d].shut
    BY <1>4 DEF IInv, Owned, Owns, Alive
  <2>2. \A q \in ready' : chan[q.c].watch # "none" /\ (q.nval => chan[q.c].shut)
    BY <1>5, <2>1
  <2>3. \A q, p \in ready' : q.c = p.c => q = p BY <1>5
  <2> QED BY <1>1, <2>2, <2>3 DEF ReadyOk
<1>9. Owned' BY <1>1 DEF IInv, Owned
<1>10. Lingering'
  <2> SUFFICES ASSUME NEW d \in DOMAIN chan, Waits(chan[d])
               PROVE  [c |-> d, nval |-> TRUE] \in ready'
    BY <1>1 DEF Lingering, Waits, Seen
  <2>1. sock[chan[d].fd] = "free" BY <1>1 DEF IInv, Lingering, Seen
  <2>2. sock[chan[d].fd] \in Wakes(chan[d].watch) BY <1>3, <1>4, <2>1 DEF Waits
  <2>3. [c |-> d, nval |-> sock[chan[d].fd] = "free"] \in ready' BY <1>1, <2>2
  <2>4. (sock[chan[d].fd] = "free") = TRUE BY <2>1
  <2> QED BY <2>3, <2>4
<1> QED BY <1>6, <1>7, <1>8, <1>9, <1>10 DEF IInv

\* The kernel opens and closes no descriptor by itself.
LEMMA KernelKeeps ==
  ASSUME IInv, NEW f \in Fd, Kernel(f)
  PROVE  IInv'
<1>1. chan' = chan /\ ready' = ready /\ user' = user /\ user \in BOOLEAN
      /\ sock \in [Fd -> SockState] /\ sock[f] # "free"
  BY ChannelType DEF Kernel
<1>2. PICK st \in SockState : st # "free" /\ sock' = [sock EXCEPT ![f] = st]
  BY DEF Kernel, SockState
<1>3. /\ sock' \in [Fd -> SockState]
      /\ \A g \in Fd : sock'[g] = "free" <=> sock[g] = "free"
  BY <1>1, <1>2
<1> QED BY <1>1, <1>3, SameKeeps

(***************************************************************************)
(* Every behaviour of the socket layer keeps the invariant.                *)
(***************************************************************************)
THEOREM SocketInvariant == Spec => []IInv
<1>1. Init => IInv
  <2> SUFFICES ASSUME Init PROVE IInv OBVIOUS
  <2>1. /\ sock = [f \in Fd |-> "free"] /\ chan = <<>> /\ ready = {} /\ user = FALSE
        /\ DOMAIN chan = {} /\ chan \in Seq(Channel)
    BY EmptySeq DEF Init
  <2>2. "free" \in SockState BY DEF SockState
  <2>3. Types BY <2>1, <2>2 DEF Types
  <2>4. ChansOk /\ ReadyOk /\ Lingering BY <2>1 DEF ChansOk, ReadyOk, Lingering
  <2>5. Owned BY <2>1 DEF Owned
  <2> QED BY <2>3, <2>4, <2>5 DEF IInv
<1>2. IInv /\ [Next]_vars => IInv'
  <2> SUFFICES ASSUME IInv, [Next]_vars PROVE IInv' OBVIOUS
  <2>1. sock \in [Fd -> SockState] /\ user \in BOOLEAN BY ChannelType
  <2>2. CASE Poll BY <2>2, PollKeeps
  <2>3. CASE Dispatch
    <3>1. PICK r \in ready : /\ \/ connect_cb(r.c, r.nval) \/ accept_cb(r.c, r.nval)
                                \/ \E keep, acc \in BOOLEAN : server_cb(r.c, r.nval, keep, acc)
                             /\ ready' = ready \ {r} /\ user' = user
      BY <2>3 DEF Dispatch
    <3> QED BY <3>1, EndKeeps, ServerKeeps
  <2>4. CASE UserCall
    <3>1. CASE UserIdle BY <2>1, <3>1, SameKeeps DEF UserIdle
    <3> QED BY <2>4, <3>1, OpenKeeps, AcceptKeeps, AbortKeeps, ReleaseKeeps DEF UserCall
  <2>5. CASE \E f \in Fd : Kernel(f) BY <2>5, KernelKeeps
  <2>6. CASE UNCHANGED vars BY <2>1, <2>6, SameKeeps DEF vars
  <2> QED BY <2>2, <2>3, <2>4, <2>5, <2>6 DEF Next
<1> QED BY <1>1, <1>2, PTL DEF Spec

(***************************************************************************)
(* No descriptor is leaked and none is closed under its owner, whatever    *)
(* fails in bt_io_connect and bt_io_listen and in whatever order watches   *)
(* are dispatched.                                                         *)
(***************************************************************************)
THEOREM DescriptorsAccounted == Spec => []FdsAccounted
<1>1. ASSUME IInv PROVE FdsAccounted
  <2> SUFFICES ASSUME NEW f \in Fd
               PROVE  Cardinality({c \in DOMAIN chan :
                        chan[c].fd = f /\ Alive(chan[c]) /\ ~ chan[c].shut})
                      = IF sock[f] = "free" THEN 0 ELSE 1
    BY DEF FdsAccounted
  <2> DEFINE own == {c \in DOMAIN chan : chan[c].fd = f /\ Alive(chan[c]) /\ ~ chan[c].shut}
  <2>1. \A c : c \in own <=> c \in DOMAIN chan /\ chan[c].fd = f /\ Owns(chan[c])
    BY DEF Owns
  <2> HIDE DEF own
  <2>2. CASE sock[f] = "free"
    <3>1. own = {} BY <1>1, <2>1, <2>2 DEF IInv, Owned
    <3> QED BY <2>2, <3>1, FS_EmptySet DEF own
  <2>3. CASE sock[f] # "free"
    <3>1. PICK c \in DOMAIN chan : Owns(chan[c]) /\ chan[c].fd = f
      BY <1>1, <2>3 DEF IInv, Owned
    <3>2. own = {c} BY <1>1, <2>1, <3>1 DEF IInv, Owned
    <3> QED BY <2>3, <3>2, FS_Singleton DEF own
  <2> QED BY <2>2, <2>3
<1> QED BY <1>1, SocketInvariant, PTL

(***************************************************************************)
(* After a shutdown the callback of connect_cb, accept_cb and server_cb is *)
(* not called, unless accept() took the descriptor in between.             *)
(***************************************************************************)
THEOREM AbortIsFinal == Spec => []AbortedNotCalled
<1>1. IInv => AbortedNotCalled BY DEF IInv, ChansOk, ChanOk, AbortedNotCalled
<1> QED BY <1>1, SocketInvariant, PTL

(***************************************************************************)
(* A connect or an accept is answered once, or not at all after a          *)
(* shutdown.                                                               *)
(***************************************************************************)
THEOREM AnsweredOnce == Spec => []EndsOnce
<1>1. IInv => EndsOnce BY DEF IInv, ChansOk, ChanOk, EndsOnce
<1> QED BY <1>1, SocketInvariant, PTL
=============================================================================
