------------------------------- MODULE FlowHA -------------------------------
(***************************************************************************)
(* High availability of a flow between the packet threads of two Snorts:   *)
(* which changes of its session are sent to the partner, what the partner  *)
(* does with them (flow/ha.cc, stream/base/stream_ha.cc and the session    *)
(* code of stream/tcp and stream/udp that calls them), and the channel in  *)
(* between (side_channel/side_channel.cc on                                *)
(* connectors/tcp_connector/tcp_connector.cc).                             *)
(*                                                                         *)
(* The flow is one key of both caches.  A packet thread handles a packet,  *)
(* or an idle moment, as a whole; the operators that do so work on a       *)
(* record of the flow, the messages sent for it and what was exchanged.    *)
(***************************************************************************)
EXTENDS Integers, Sequences

CONSTANTS
    Peers,          \* the two packet threads
    Setups          \* protocol of the flow, the Flow objects it may get, how many
                    \* messages may be on their way (a bound of the model) and the
                    \* receive ring holds (48 for its 50 slots), what its packets
                    \* may set, what binder and inspection may make of it, if rules
                    \* may be stateless, and if it is a media flow of SIP

Objects == {"fresh", "recycled", "pruned"}

\* What the binder makes of a new flow, or (UDP) that it was expected and is
\* ignored.
Binds == {"inspect", "allow", "block", "reset", "expected"}

\* What inspection makes of a packet: it passes, or it alone is dropped or
\* changed; reputation allows the flow; it is blocked, reset (inline or not) or
\* (TCP) ignored by an inspector; TCP closes it.
Verdicts == {"pass", "drop", "allow", "block", "reset", "reject", "ignore", "rst", "closed"}

ASSUME TwoPeers == \E a, b \in Peers : a # b /\ Peers = {a, b}
ASSUME SetupsTyped ==
    Setups \subseteq [proto : {"udp", "tcp"}, objects : SUBSET Objects, sent : Nat, capacity : Nat,
                      marks : SUBSET {"est", "svc"}, binds : SUBSET Binds,
                      verdicts : SUBSET Verdicts, stateless : BOOLEAN, media : BOOLEAN]
ASSUME SetupsOfProtocol ==
    \A s \in Setups : IF s.proto = "tcp" THEN "expected" \notin s.binds /\ ~s.media
                      ELSE s.verdicts \cap {"ignore", "rst", "closed"} = {}

VARIABLES
    setup,          \* the protocol and objects of this behaviour
    flow,           \* the flow in the cache of each peer
    sock,           \* messages a peer sent and its partner has not read
    ring,           \* messages the receive thread of a peer put in its ring
    lost,           \* the last message to a peer found its ring full
    down,           \* HighAvailabilityManager::shutting_down of each peer
    told            \* the last message exchanged about the flow had drop flags

vars == <<setup, flow, sock, ring, lost, down, told>>

Partner(p) == CHOOSE q \in Peers : q # p

HaStates == {"NEW", "NEW_SESSION", "MODIFIED", "MAJOR", "CRITICAL", "DELETED", "STANDBY"}

\* LwState.  Of the session flags, seen stands for those that are neither major
\* nor critical, est for ESTABLISHED, drop for DROP_CLIENT and DROP_SERVER; ign is
\* an ignore_direction of SSN_DIR_BOTH, svc a snort_protocol_id (or direction)
\* that was found.
Flags == {"seen", "est", "drop", "ign", "svc"}
FlowStates == {"setup", "inspect", "block", "reset", "allow"}

NoFlow == [live |-> FALSE, ha |-> {}, flags |-> {}, state |-> "setup",
           tcp_init |-> FALSE, expire |-> FALSE]

Update(flags, state) == [event |-> "UPDATE", flags |-> flags, state |-> state]
Delete == [event |-> "DELETE", flags |-> {}, state |-> "setup"]

Init ==
    /\ setup \in Setups
    /\ flow = [p \in Peers |-> NoFlow]
    /\ sock = [p \in Peers |-> <<>>]
    /\ ring = [p \in Peers |-> <<>>]
    /\ lost = [p \in Peers |-> FALSE]
    /\ down = [p \in Peers |-> FALSE]
    /\ told = [p \in Peers |-> FALSE]
-----------------------------------------------------------------------------
(***************************************************************************)
(* What a packet thread does to the flow: s.f is the flow, s.out what was  *)
(* sent, s.prev the flags before the packet, which every packet of the     *)
(* flow sets first; s.told and s.down are the values of the variables.     *)
(***************************************************************************)
Ha(s, added) == [s EXCEPT !.f.ha = @ \cup added]
HaAny(s, states) == s.f.ha \cap states # {}

\* Mutant of Deletion: a peer that shuts down tells its partner to delete.
DeletionAlways(s) ==
    IF HaAny(s, {"NEW", "DELETED", "STANDBY"}) THEN s
    ELSE [Ha(s, {"DELETED"}) EXCEPT !.out = Append(@, Delete),
                                    !.told = FALSE]

\* process_deletion(), of the manager and of the thread's HighAvailability.
Deletion(s) ==
    IF s.down \/ HaAny(s, {"NEW", "DELETED", "STANDBY"}) THEN s
    ELSE [Ha(s, {"DELETED"}) EXCEPT !.out = Append(@, Delete),
                                    !.told = FALSE]

\* Flow::restart() and Flow::clear().
Restart(s) == LET kept == s.f.flags \cap {"svc"}
              IN  [s EXCEPT !.f.flags = kept, !.prev = kept, !.f.expire = FALSE]
Clear(s) == [Restart(s) EXCEPT !.f.state = "setup"]

\* TcpSession::clear_session() without restart.
TcpClearSession(s) == IF s.f.tcp_init THEN [Clear(s) EXCEPT !.f.tcp_init = FALSE] ELSE s

\* clear() of the session.
SessionClear(s) ==
    IF setup.proto = "tcp" THEN Deletion(TcpClearSession(s)) ELSE Clear(Deletion(s))

\* cleanup() of the session: clear(), except for TCP.
SessionCleanup(s) == IF setup.proto = "tcp" THEN TcpClearSession(s) ELSE SessionClear(s)

\* Flow::reset(): FlowHAState::reset() leaves no state at all.
Reset(s) == [SessionCleanup(s) EXCEPT !.f = NoFlow]

\* FlowCache::release().
Release(s) == [Reset(s) EXCEPT !.told = FALSE]

\* FlowCache::get() of a key that is not there.  The Flow is one that was never
\* used and gets a new FlowHAState from Flow::init(); or one that was released
\* before; or, in a full cache, one that was just pruned and is reset again.
Take(s, object) ==
    LET new == [s EXCEPT !.f = NoFlow, !.told = FALSE]
        got == CASE object = "fresh" -> Ha(new, {"NEW", "NEW_SESSION"})
                 [] object = "recycled" -> new
                 [] object = "pruned" -> Reset(new)
    IN  [got EXCEPT !.f.live = TRUE]

\* A packet: the flow may have expired; if it is new, it gets an object and is
\* bound; inspection may set marks.
Inputs(p) ==
    [expired : {FALSE, flow[p].expire}, object : setup.objects, bind : setup.binds,
     marks : SUBSET setup.marks]

\* An expired session is ended, and goes on as a new one.
Expire(s, in) ==
    IF ~in.expired THEN s
    ELSE IF setup.proto = "tcp" THEN Deletion(TcpClearSession(s))
    ELSE Deletion([Restart(s) EXCEPT !.f.flags = @ \cup {"seen"}])

\* What stop_inspection(), drop_traffic() or setup() of an expected UDP session
\* set of a new flow.
FirstFlags(bind) == CASE bind = "inspect" -> {}
                      [] bind = "allow" -> {"ign"}
                      [] bind = "expected" -> {"seen", "ign"}
                      [] bind \in {"block", "reset"} -> {"drop"}

\* A new flow: the binder's action, then expected_flow() in setup() of a session
\* that would be inspected.
Bind(s, bind) ==
    IF s.f.state # "setup" THEN s
    ELSE [s EXCEPT !.f.state = IF bind = "expected" THEN "allow" ELSE bind,
                   !.f.flags = @ \cup FirstFlags(bind),
                   !.f.expire = @ \/ bind = "expected"]

\* FlowControl::process() and the session's process(): TCP expires in
\* precheck(), for every state of the flow, UDP in process().
Process(s, in) ==
    LET found == IF s.f.live THEN s ELSE Take(s, in.object)
        begun == [found EXCEPT !.prev = found.f.flags]
        ready == Bind(IF setup.proto = "tcp" THEN Expire(begun, in) ELSE begun, in.bind)
        started == IF setup.proto = "udp" THEN Expire(ready, in) ELSE ready
    IN  IF ready.f.state = "inspect"
        THEN [started EXCEPT !.f.flags = @ \cup {"seen"} \cup in.marks,
                             !.f.tcp_init = (setup.proto = "tcp"), !.f.expire = TRUE]
        ELSE ready

\* The session is cleared, then the flow is marked.
Blocked(s, state, stateless) ==
    [SessionClear(s) EXCEPT !.f.state = state,
                            !.f.flags = @ \cup (IF stateless THEN {} ELSE {"drop"})]

\* update_verdict() for a packet of an allowed flow; Active::allow_session(),
\* block_session() and reset_session(); Stream::stop_inspection(); and
\* check_flow_closed() for a flow that TCP closed, after the last ACK with a
\* deletion of its own, after a RST without.  Only a flow that is inspected gets
\* the verdicts that are not reputation's.
Finish(s, end, stateless) ==
    IF \/ s.f.state \in {"block", "reset"}
       \/ s.f.state = "allow" /\ end \notin {"pass", "drop", "allow", "block"}
    THEN s
    ELSE CASE end = "pass" -> IF s.f.state = "allow" THEN [s EXCEPT !.f.flags = @ \cup {"ign"}]
                              ELSE s
           [] end = "drop" -> s
           [] end = "allow" -> [s EXCEPT !.f.state = "allow"]
           [] end = "block" -> Blocked(s, "block", stateless /\ s.f.state = "inspect")
           [] end = "reset" -> Blocked(s, "reset", stateless)
           [] end = "reject" -> [s EXCEPT !.f.state = "reset"]
           [] end = "ignore" -> [s EXCEPT !.f.state = "allow", !.f.flags = @ \cup {"ign"}]
           [] end = "rst" -> Release(s)
           [] end = "closed" -> Release(Deletion(TcpClearSession(s)))

\* Mutant of UpdateFlags: no change is critical.
UpdateFlagsUncritical(s) ==
    LET diff == (s.prev \ s.f.flags) \cup (s.f.flags \ s.prev)
        marked == IF HaAny(s, {"NEW_SESSION"})
                  THEN (s.f.ha \ {"NEW_SESSION"}) \cup {"MODIFIED"}
                       \cup (IF setup.proto = "tcp" THEN {} ELSE {"MAJOR"})
                  ELSE s.f.ha \cup (IF diff = {} THEN {} ELSE {"MODIFIED"})
                       \cup (IF setup.proto = "tcp" /\ "est" \in diff THEN {"MAJOR"} ELSE {})
    IN  [s EXCEPT !.f.ha = IF "STANDBY" \in marked
                           THEN (marked \ {"STANDBY"}) \cup {"MODIFIED", "MAJOR"}
                           ELSE marked]

\* update_flags() of the stream's HA client.
UpdateFlags(s) ==
    LET diff == (s.prev \ s.f.flags) \cup (s.f.flags \ s.prev)
        marked == IF HaAny(s, {"NEW_SESSION"})
                  THEN (s.f.ha \ {"NEW_SESSION"}) \cup {"MODIFIED"}
                       \cup (IF setup.proto = "tcp" THEN {} ELSE {"MAJOR"})
                  ELSE s.f.ha \cup (IF diff = {} THEN {} ELSE {"MODIFIED"})
                       \cup (IF setup.proto = "tcp" /\ "est" \in diff THEN {"MAJOR"} ELSE {})
                       \cup (IF "drop" \in diff \/ "ign" \in diff \cap s.f.flags
                             THEN {"CRITICAL"} ELSE {})
    IN  [s EXCEPT !.f.ha = IF "STANDBY" \in marked
                           THEN (marked \ {"STANDBY"}) \cup {"MODIFIED", "MAJOR"}
                           ELSE marked]

IsUpdateRequired(s, elapsed) ==
    /\ HaAny(s, {"MODIFIED"})
    /\ HaAny(s, {"MAJOR", "CRITICAL"})
    /\ elapsed \/ HaAny(s, {"CRITICAL"})

\* process_update(); other HA clients have nothing pending.
ProcessUpdate(s, elapsed) ==
    LET u == UpdateFlags(s) IN
    IF ~s.f.live THEN s
    ELSE IF ~IsUpdateRequired(u, elapsed) THEN u
    ELSE [u EXCEPT !.f.ha = @ \ {"NEW", "MODIFIED", "MAJOR", "CRITICAL"},
                   !.out = Append(@, Update(u.f.flags, u.f.state)),
                   !.told = "drop" \in u.f.flags]

\* Mutant of ConsumeUpdate: the state is copied to a new flow only.
ConsumeUpdateNew(s, msg, object) ==
    IF s.f.live THEN Ha(s, {"STANDBY"})
    ELSE LET t == Take(s, object)
         IN  [t EXCEPT !.f.flags = msg.flags, !.f.state = msg.state,
                       !.told = "drop" \in msg.flags,
                       !.f.ha = (@ \ {"NEW"}) \cup {"STANDBY"}]

\* StreamHAClient::consume(): the flow is created if it is missing, and takes
\* the partner's state; if it was active, its protocol deactivates it.
ConsumeUpdate(s, msg, object) ==
    LET created == Take(s, object)
        got == IF s.f.live THEN s ELSE [created EXCEPT !.f.ha = @ \ {"NEW"}]
        copied == [got EXCEPT !.f.flags = msg.flags, !.f.state = msg.state,
                              !.told = "drop" \in msg.flags]
    IN  IF HaAny(copied, {"STANDBY"}) THEN copied
        ELSE Ha(IF setup.proto = "tcp" THEN TcpClearSession(copied) ELSE copied, {"STANDBY"})

Consume(s, msg, object) ==
    IF msg.event = "UPDATE" THEN ConsumeUpdate(s, msg, object)
    ELSE IF s.f.live THEN Release(s) ELSE s

\* process_receive() consumes all the ring holds, the oldest message first.
ProcessReceive(s, p, object) ==
    LET after[n \in 0 .. Len(ring[p])] ==
            IF n = 0 THEN s ELSE Consume(after[n - 1], ring[p][n], object)
    IN  after[Len(ring[p])]
-----------------------------------------------------------------------------
\* The thread of p at the start of a packet or idle moment, and at its end.
Thread(p) == [f |-> flow[p], prev |-> {}, out |-> <<>>, told |-> told[p], down |-> down[p]]

\* Messages on their way from p.
InFlight(p) == Len(sock[p]) + Len(ring[Partner(p)])

\* A message for a partner that has gone fails to be sent.
EndsAs(p, s) ==
    /\ flow' = [flow EXCEPT ![p] = s.f]
    /\ sock' = [sock EXCEPT ![p] = IF down[Partner(p)] THEN @ ELSE @ \o s.out]
    /\ InFlight(p)' + InFlight(Partner(p))' <= setup.sent
    /\ told' = [told EXCEPT ![p] = s.told]
    /\ UNCHANGED <<setup, lost>>

\* What p's thread can have after the inspection of a packet of the flow, a
\* stateless rule having fired or not ...
Finished(p, stateless) ==
    LET processed == {Process(Thread(p), in) : in \in Inputs(p)}
    IN  {Finish(s, end, stateless) : s \in processed, end \in setup.verdicts}

Inspected(p) == Finished(p, FALSE) \cup Finished(p, setup.stateless)

\* ... after the update, with min_sync_interval elapsed or not ...
Updated(p) == {ProcessUpdate(s, elapsed) : s \in Inspected(p), elapsed \in BOOLEAN}

\* ... and after whatever the partner sent.
Received(p) == {ProcessReceive(s, p, object) : s \in Updated(p), object \in setup.objects}

\* Snort::packet_callback() for a packet of the flow.
PacketCallback(p) ==
    /\ ~down[p]
    /\ ring' = [ring EXCEPT ![p] = <<>>]
    /\ \E s \in Received(p) : EndsAs(p, s)
    /\ UNCHANGED down

\* Other packets do to the flow: SIP has its media flow ignored.
Affected(s, fate) ==
    CASE fate = "stays" -> s
      [] fate = "gone" -> Release(s)
      [] fate = "ignored" -> [s EXCEPT !.f.flags = @ \cup {"ign"}]

\* A packet of another flow, or Snort::thread_idle(): the flow may be pruned,
\* or time out unless it is in standby, before the partner's messages.
OtherPacket(p) ==
    /\ ~down[p]
    /\ ring' = [ring EXCEPT ![p] = <<>>]
    /\ \E object \in setup.objects, fate \in {"stays", "gone", "ignored"} :
         /\ fate = "stays" \/ flow[p].live
         /\ fate = "ignored" => setup.media
         /\ EndsAs(p, ProcessReceive(Affected(Thread(p), fate), p, object))
    /\ UNCHANGED down

\* Snort::thread_term(): thread_term_beginning(), then the flows are purged.
ThreadTerm(p) ==
    /\ ~down[p] /\ ~down[Partner(p)]
    /\ UNCHANGED ring
    /\ down' = [down EXCEPT ![p] = TRUE]
    /\ LET s == [Thread(p) EXCEPT !.down = TRUE]
       IN  EndsAs(p, IF s.f.live THEN Release(s) ELSE s)

\* Mutant of TcpReceive: the ring has no end.
TcpReceiveUnchecked(p) ==
    LET q == Partner(p) IN
    /\ ~down[p] /\ sock[q] # <<>>
    /\ sock' = [sock EXCEPT ![q] = Tail(@)]
    /\ ring' = [ring EXCEPT ![p] = Append(@, Head(sock[q]))]
    /\ UNCHANGED <<setup, flow, lost, down, told>>

\* TcpConnector::process_receive() of the receive thread of p: a message that
\* does not fit in the ring is lost.
TcpReceive(p) ==
    LET q == Partner(p) IN
    /\ ~down[p] /\ sock[q] # <<>>
    /\ sock' = [sock EXCEPT ![q] = Tail(@)]
    /\ lost' = [lost EXCEPT ![p] = (Len(ring[p]) = setup.capacity)]
    /\ ring' = IF lost'[p] THEN ring ELSE [ring EXCEPT ![p] = Append(@, Head(sock[q]))]
    /\ UNCHANGED <<setup, flow, down, told>>

Next == \E p \in Peers :
    PacketCallback(p) \/ OtherPacket(p) \/ ThreadTerm(p) \/ TcpReceive(p)

Spec == Init /\ [][Next]_vars
-----------------------------------------------------------------------------
(***************************************************************************)
(* Properties.                                                             *)
(***************************************************************************)
FlowType == [live : BOOLEAN, ha : SUBSET HaStates, flags : SUBSET Flags,
             state : FlowStates, tcp_init : BOOLEAN, expire : BOOLEAN]
Messages == [event : {"UPDATE", "DELETE"}, flags : SUBSET Flags, state : FlowStates]

\* The types of the variables, and the bound of the ring.
TypeOK ==
    /\ setup \in Setups /\ flow \in [Peers -> FlowType]
    /\ sock \in [Peers -> Seq(Messages)] /\ ring \in [Peers -> Seq(Messages)]
    /\ \A p \in Peers : Len(ring[p]) <= setup.capacity
    /\ lost \in [Peers -> BOOLEAN]
    /\ down \in [Peers -> BOOLEAN] /\ told \in [Peers -> BOOLEAN]

Standby(p) == flow[p].live /\ "STANDBY" \in flow[p].ha
IsActive(p) == flow[p].live /\ "STANDBY" \notin flow[p].ha

\* Nothing is on its way, the last messages arrived and nobody went away.
Settled == \A p \in Peers : ~lost[p] /\ ~down[p] /\ sock[p] = <<>> /\ ring[p] = <<>>

\* What packets of the flow itself set of its state.
Own(flags) == flags \ (IF setup.media THEN {"ign"} ELSE {})

\* A flow f whose session a stateless rule has cleared.
Cleared(f) == Own(f.flags) \subseteq {"svc"}

\* A verdict on f that changes the flow state and not the session flags.
Untold(f) == f.state = "allow" \/ (f.state = "reset" /\ "drop" \notin f.flags)

\* flags and state are those of f, as far as update_flags() looks at them.
Agree(f, flags, state) ==
    Cleared(f) \/ (Own(f.flags) = Own(flags) /\ (Untold(f) \/ f.state = state))

\* The session caches are in sync (the goal stated in flow/dev_notes.txt): when
\* all is settled and the active peer marks no change it has still to send, the
\* standby copy has the LwState and flow state of the active one.  What
\* update_flags() cannot see is left out: the flow state after allow_session() or
\* a reset that leaves the session alone, a session cleared for a stateless rule,
\* and the ignore_direction that SIP sets on its media flows.
CopiesAgree ==
    \A p \in Peers : LET q == Partner(p) IN
        Settled /\ IsActive(p) /\ "MODIFIED" \notin flow[p].ha /\ Standby(q) =>
            Agree(flow[p], flow[q].flags, flow[q].state)

\* So it is for a flow whose protocol does nothing when it is deactivated.
UdpCopiesAgree == setup.proto = "udp" => CopiesAgree

\* That a session is blocked is not forgotten: its drop flags were exchanged with
\* the partner, or are due with the first packet after the sync interval, unless
\* nothing of the session was announced so far.
CriticalTold ==
    \A p \in Peers : flow[p].live /\ "drop" \in flow[p].flags =>
        \/ told[p]
        \/ "NEW" \in flow[p].ha
        \/ {"MODIFIED", "MAJOR"} \subseteq flow[p].ha

\* A peer that shuts down purges its flows but sends nothing, so the standby
\* copies of its partner stay for the traffic that fails over.
FailoverKept == [][\A p \in Peers : down'[p] /\ ~down[p] => sock'[p] = sock[p]]_vars
=============================================================================
