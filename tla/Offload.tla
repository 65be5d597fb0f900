------------------------------- MODULE Offload ------------------------------
(***************************************************************************)
(* Regex offload of a packet thread: the contexts a packet thread detects  *)
(* in (detection/context_switcher.cc), the requests and worker threads     *)
(* that search a reassembled PDU meanwhile (detection/regex_offload.cc),   *)
(* what the detection engine does with both (detection/                    *)
(* detection_engine.cc), and the callers that must take a search back      *)
(* before they go on: the packet callback (main/snort.cc), the TCP         *)
(* session and its reassembler (stream/tcp), the release of a flow         *)
(* (flow/flow.cc, flow/flow_cache.cc) and the end of the thread.           *)
(*                                                                         *)
(* The packet thread is the list of calls it has still to make, the        *)
(* innermost first.  A call is one step from one point where a worker      *)
(* could be observed to the next.                                          *)
(***************************************************************************)
EXTENDS Integers, Sequences, FiniteSets, SequencesExt

CONSTANTS
    Flows,          \* the flows of the thread's cache
    Workers,        \* the worker threads, each with its RegexRequest
    None,           \* the null flow
    MaxContexts,    \* contexts of the thread (20 in main/snort.cc)
    Reserve,        \* contexts offload leaves idle (5 in context_switcher.h)
    Setups          \* traffic: the verdicts rules reach on it, and a bound on
                    \* the PDUs that wait in the segment lists of a flow

\* What is done to the session of a packet by the action of a rule that fired
\* on it: nothing, Active::block_session() or Active::reset_session().
Verdicts == {"pass", "block", "reset"}

ASSUME ContextsEnough == MaxContexts \in Nat /\ Reserve \in Nat
ASSUME SetupsTyped == Setups \subseteq [verdicts : SUBSET Verdicts, maxSegs : Nat]
ASSUME WorkersFinite == IsFiniteSet(Workers)

VARIABLES
    setup,          \* the traffic of this behaviour
    idle, busy,     \* ContextSwitcher: the idle and the busy contexts, as stacks
    hold,           \* ContextSwitcher: the suspended contexts
    pktFlow,        \* flow of the packet in each context
    flows,          \* what the calls above need of each flow
    idleReqs,       \* RegexOffload::idle
    busyReqs,       \* RegexOffload::busy
    req,            \* the requests
    at,             \* where each worker is
    signalled,      \* cond of the request was notified while the worker waited
    todo,           \* the calls the packet thread has still to make
    phase           \* of the packet thread

contextVars == <<idle, busy, hold>>
reqVars == <<idleReqs, busyReqs, req, signalled>>
vars == <<setup, idle, busy, hold, pktFlow, flows, idleReqs, busyReqs, req, at, signalled,
          todo, phase>>

Contexts == 1 .. MaxContexts

\* A flow that is not in use: memset to 0 by Flow::reset().
NoFlow == [live |-> FALSE, tcp_init |-> FALSE, segs |-> 0, pending |-> 0,
           closed |-> FALSE, block_pending |-> FALSE, blocked |-> FALSE]

NewRequest == [id |-> 0, packet |-> FALSE, offload |-> FALSE, go |-> TRUE]

Init ==
    /\ setup \in Setups
    /\ idle = [i \in Contexts |-> i]
    /\ busy = <<>>
    /\ hold = {}
    /\ pktFlow = [c \in Contexts |-> None]
    /\ flows = [f \in Flows |-> NoFlow]
    /\ idleReqs = SetToSeq(Workers)
    /\ busyReqs = <<>>
    /\ req = [w \in Workers |-> NewRequest]
    /\ at = [w \in Workers |-> "top"]
    /\ signalled = [w \in Workers |-> FALSE]
    /\ todo = <<>>
    /\ phase = "run"
-----------------------------------------------------------------------------
\* The call to make, for a flow and a context where it has them.
Call(do, f, c) == [do |-> do, f |-> f, c |-> c]
For(do, f) == Call(do, f, 0)

Calling(do) == todo # <<>> /\ Head(todo).do = do
Flow == Head(todo).f
Context == Head(todo).c

\* The call returns after making the given calls.
Then(calls) == todo' = calls \o Tail(todo)
Returns == Then(<<>>)

IsOffloaded(f) == flows[f].pending > 0

\* The context switcher.
GetContext == Last(busy)
GetNext == Last(idle)

Interrupt ==
    /\ busy' = Append(busy, GetNext)
    /\ idle' = Front(idle)
    /\ UNCHANGED hold

Complete ==
    /\ idle' = Append(idle, GetContext)
    /\ busy' = Front(busy)
    /\ UNCHANGED hold

Suspend ==
    /\ busy' = Front(busy)
    /\ hold' = hold \cup {GetContext}
    /\ UNCHANGED idle

Resume(slot) ==
    /\ busy' = Append(busy, slot)
    /\ hold' = hold \ {slot}
    /\ UNCHANGED idle

CanHold == Len(idle) > Reserve
-----------------------------------------------------------------------------
(***************************************************************************)
(* Offload and onload.                                                     *)
(***************************************************************************)
\* Mutant of GetReady: the request is taken back without a look at its flag.
GetReadyUnchecked(w) == TRUE

\* RegexOffload::get() looks at the oldest request only, and gives up while
\* its worker has not finished.
GetReady(w) == ~req[w].offload

\* DetectionEngine::onload(): the oldest request is taken back and its packet
\* is finished in its own context, on top of the current one.
OnloadFront ==
    LET w == Head(busyReqs)
        id == req[w].id
    IN  /\ busyReqs # <<>>
        /\ GetReady(w)
        /\ req' = [req EXCEPT ![w].packet = FALSE]
        /\ busyReqs' = Tail(busyReqs)
        /\ idleReqs' = Append(idleReqs, w)
        /\ flows' = [flows EXCEPT ![pktFlow[id]].pending = @ - 1]
        /\ Resume(id)
        /\ todo' = <<Call("finish_inspect", None, id), Call("finish_packet", None, id)>> \o todo
        /\ UNCHANGED <<setup, pktFlow, at, signalled, phase>>

\* DetectionEngine::onload(Flow*): sleeps and takes requests back until the
\* flow has none; a sleep in which nothing is ready changes nothing.
Onload ==
    /\ Calling("onload")
    /\ IF IsOffloaded(Flow)
       THEN OnloadFront
       ELSE /\ Returns
            /\ UNCHANGED <<setup, contextVars, reqVars, pktFlow, flows, at, phase>>

\* The test at the top of DetectionEngine::offload(); the PDU is big when its
\* dsize reaches offload_limit.
Offloads(big) == big /\ CanHold /\ idleReqs # <<>>

\* RegexOffload::put() gives the PDU of a context to the first idle worker.
Put(id) ==
    LET w == Head(idleReqs) IN
    /\ idleReqs' = Tail(idleReqs)
    /\ busyReqs' = Append(busyReqs, w)
    /\ req' = [req EXCEPT ![w] = [@ EXCEPT !.id = id, !.packet = TRUE, !.offload = TRUE]]
    /\ signalled' = [signalled EXCEPT ![w] = @ \/ at[w] = "wait"]

\* Mutant of Offload: set_offloaded() is forgotten.
OffloadUncounted ==
    /\ Calling("offload")
    /\ Suspend
    /\ Put(Context)
    /\ Returns
    /\ UNCHANGED <<setup, pktFlow, flows, at, phase>>

\* DetectionEngine::offload() after its onload: the context is suspended and
\* its PDU given to a worker.
Offload ==
    /\ Calling("offload")
    /\ Suspend
    /\ flows' = [flows EXCEPT ![Flow].pending = @ + 1]
    /\ Put(Context)
    /\ Returns
    /\ UNCHANGED <<setup, pktFlow, at, phase>>

\* DetectionEngine::finish_inspect() up to Stream::check_flow_closed().
FinishInspect ==
    /\ Calling("finish_inspect")
    /\ \E v \in setup.verdicts :
         LET f == pktFlow[Context] IN
         /\ v # "pass" => f # None /\ ~flows[f].blocked
         /\ flows' = IF v = "block" THEN [flows EXCEPT ![f].block_pending = TRUE] ELSE flows
         /\ Then((IF v = "reset" THEN <<For("clear", f), For("set_block", f)>> ELSE <<>>)
                 \o <<Call("check_flow_closed", None, Context)>>)
    /\ UNCHANGED <<setup, contextVars, reqVars, pktFlow, at, phase>>

\* Stream::check_flow_closed(): a closed flow is deleted once it has no
\* request out; a session that is to be blocked is cleared.
CheckFlowClosed ==
    LET f == pktFlow[Context] IN
    /\ Calling("check_flow_closed")
    /\ Then(IF f = None THEN <<>>
            ELSE IF flows[f].closed
            THEN (IF IsOffloaded(f) THEN <<>> ELSE <<For("reset", f)>>)
                 \o <<Call("forget_flow", None, Context)>>
            ELSE IF flows[f].block_pending
            THEN <<For("clear", f), For("set_block", f)>>
            ELSE <<>>)
    /\ UNCHANGED <<setup, contextVars, reqVars, pktFlow, flows, at, phase>>

\* p->flow = nullptr, after the deletion.
ForgetFlow ==
    /\ Calling("forget_flow")
    /\ pktFlow' = [pktFlow EXCEPT ![Context] = None]
    /\ Returns
    /\ UNCHANGED <<setup, contextVars, reqVars, flows, at, phase>>

\* set_state(BLOCK) and the end of STREAM_STATE_BLOCK_PENDING.
SetBlock ==
    /\ Calling("set_block")
    /\ flows' = [flows EXCEPT ![Flow] = [@ EXCEPT !.blocked = TRUE, !.block_pending = FALSE]]
    /\ Returns
    /\ UNCHANGED <<setup, contextVars, reqVars, pktFlow, at, phase>>

\* DetectionEngine::finish_packet().
FinishPacket ==
    /\ Calling("finish_packet")
    /\ Complete
    /\ Returns
    /\ UNCHANGED <<setup, reqVars, pktFlow, flows, at, phase>>

\* Mutant of LeaveEngine: the current context is finished whichever it is.
LeaveEngineAlways ==
    /\ Calling("leave_engine")
    /\ Complete
    /\ Returns
    /\ UNCHANGED <<setup, reqVars, pktFlow, flows, at, phase>>

\* ~DetectionEngine(): the context it interrupted for is finished unless it
\* was suspended meanwhile.
LeaveEngine ==
    /\ Calling("leave_engine")
    /\ IF Context = GetContext THEN Complete ELSE UNCHANGED contextVars
    /\ Returns
    /\ UNCHANGED <<setup, reqVars, pktFlow, flows, at, phase>>
-----------------------------------------------------------------------------
(***************************************************************************)
(* The callers: reassembly, the TCP session, the release of a flow.        *)
(***************************************************************************)
\* TcpReassembler::flush_to_seq() of a segment list: nothing when no byte waits,
\* else the onload of _flush_to_seq(), which then reads the first segment without
\* another look whether there is one (SegmentToFlush) and enters its loop.
Flush ==
    /\ Calling("flush")
    /\ Then(IF flows[Flow].segs = 0 THEN <<>>
            ELSE <<For("onload", Flow), For("first_pdu", Flow)>>)
    /\ UNCHANGED <<setup, contextVars, reqVars, pktFlow, flows, at, phase>>

FirstPdu ==
    /\ Calling("first_pdu")
    /\ flows[Flow].segs > 0
    /\ Then(<<For("onload", Flow), For("pdu", Flow)>>)
    /\ UNCHANGED <<setup, contextVars, reqVars, pktFlow, flows, at, phase>>

\* Mutant of NextPdu: a PDU is built without taking back the one before it.
NextPduAtOnce ==
    /\ Calling("next_pdu")
    /\ Then(IF flows[Flow].segs = 0 THEN <<>> ELSE <<For("pdu", Flow)>>)
    /\ UNCHANGED <<setup, contextVars, reqVars, pktFlow, flows, at, phase>>

\* The loop: initialize_pdu() starts with an onload.  What is left may be in the
\* other segment list of the flow, which is flushed when the loop is over.
NextPdu ==
    /\ Calling("next_pdu")
    /\ IF flows[Flow].segs = 0 THEN Then(<<>>)
       ELSE Then(<<For("onload", Flow), For("pdu", Flow)>>) \/ Then(<<For("flush", Flow)>>)
    /\ UNCHANGED <<setup, contextVars, reqVars, pktFlow, flows, at, phase>>

\* flush_data_segments() asserts that there is a segment (SegmentToFlush).
\* The PDU is built in the next context, which Snort::inspect() makes the
\* current one, and inspected; detect() searches it here or offloads it.
Pdu ==
    /\ Calling("pdu")
    /\ flows[Flow].segs > 0
    /\ Interrupt
    /\ pktFlow' = [pktFlow EXCEPT ![GetNext] = Flow]
    /\ flows' = [flows EXCEPT ![Flow].segs = @ - 1]
    /\ Then(<<Call("detect", Flow, GetNext), Call("leave_engine", Flow, GetNext),
              Call("pdu_done", Flow, GetNext)>>)
    /\ UNCHANGED <<setup, reqVars, at, phase>>

Detect ==
    /\ Calling("detect")
    /\ \E big \in BOOLEAN :
         Then(IF Offloads(big)
              THEN <<For("onload", Flow), Call("offload", Flow, Context)>>
              ELSE <<Call("finish_inspect", None, Context)>>)
    /\ UNCHANGED <<setup, contextVars, reqVars, pktFlow, flows, at, phase>>

\* _flush_to_seq() looks at pdu->flow and goes on with its loop.
PduDone ==
    /\ Calling("pdu_done")
    /\ Then(<<For("next_pdu", Flow)>>)
    /\ UNCHANGED <<setup, contextVars, reqVars, pktFlow, flows, at, phase>>

\* TcpSession::clear_session(), with flush_segments (cleanup) or without.
ClearSession ==
    /\ Calling("cleanup") \/ Calling("clear")
    /\ IF flows[Flow].tcp_init
       THEN /\ flows' = [flows EXCEPT ![Flow].tcp_init = FALSE]
            /\ Then(<<For("onload", Flow)>>
                    \o (IF Calling("cleanup") THEN <<For("flush", Flow)>> ELSE <<>>)
                    \o <<For("purge", Flow), For("onload", Flow), For("restart", Flow)>>)
       ELSE /\ Returns
            /\ UNCHANGED flows
    /\ UNCHANGED <<setup, contextVars, reqVars, pktFlow, at, phase>>

\* purge_segment_list(); also what is left to flush when update_session_on_rst()
\* takes the splitters away.
Purge ==
    /\ Calling("purge")
    /\ flows' = [flows EXCEPT ![Flow].segs = 0]
    /\ Returns
    /\ UNCHANGED <<setup, contextVars, reqVars, pktFlow, at, phase>>

\* Flow::clear() and restart() after their onload.
Restart ==
    /\ Calling("restart")
    /\ flows' = [flows EXCEPT ![Flow] =
                   [@ EXCEPT !.closed = FALSE, !.block_pending = FALSE, !.blocked = FALSE]]
    /\ Returns
    /\ UNCHANGED <<setup, contextVars, reqVars, pktFlow, at, phase>>

\* session_state |= STREAM_STATE_CLOSED
SetClosed ==
    /\ Calling("set_closed")
    /\ flows' = [flows EXCEPT ![Flow].closed = TRUE]
    /\ Returns
    /\ UNCHANGED <<setup, contextVars, reqVars, pktFlow, at, phase>>

\* Flow::reset(): onload, then a context of its own in which the session is
\* cleaned up (or just cleared, when memory is short) before all is zeroed.
Reset ==
    /\ Calling("reset") \/ Calling("reset_clear")
    /\ Then(<<For("onload", Flow),
              For(IF Calling("reset") THEN "reset_cleanup" ELSE "reset_nocleanup", Flow)>>)
    /\ UNCHANGED <<setup, contextVars, reqVars, pktFlow, flows, at, phase>>

ResetSession ==
    /\ Calling("reset_cleanup") \/ Calling("reset_nocleanup")
    /\ Interrupt
    /\ pktFlow' = [pktFlow EXCEPT ![GetNext] =
                     IF flows[Flow].tcp_init /\ Calling("reset_cleanup") THEN Flow ELSE None]
    /\ Then(<<For(IF Calling("reset_cleanup") THEN "cleanup" ELSE "clear", Flow),
              For("zero", Flow), Call("leave_engine", None, GetNext)>>)
    /\ UNCHANGED <<setup, reqVars, flows, at, phase>>

\* The memset() at the end of Flow::reset(), and the removal from the cache.
Zero ==
    /\ Calling("zero")
    /\ flows' = [flows EXCEPT ![Flow] = NoFlow]
    /\ Returns
    /\ UNCHANGED <<setup, contextVars, reqVars, pktFlow, at, phase>>
-----------------------------------------------------------------------------
(***************************************************************************)
(* The packet thread: packets, and its end.                                *)
(***************************************************************************)
\* Snort::packet_callback() starts a context for the packet of a flow, which
\* FlowControl::process() finds or takes from the cache.
PacketCallback(f) ==
    LET c == GetNext IN
    /\ phase = "run" /\ todo = <<>>
    /\ Interrupt
    /\ pktFlow' = [pktFlow EXCEPT ![c] = f]
    /\ flows' = [flows EXCEPT ![f].live = TRUE]
    /\ todo' = <<For("prune", f), For("precheck", f), For("process", f),
                 Call("finish_inspect", None, c), Call("onload_packet", None, c),
                 For("timeout_flows", f), Call("stop", None, c)>>
    /\ UNCHANGED <<setup, reqVars, at, phase>>

\* A flow other than the packet's is pruned to make room in the cache, or
\* because memory is short, and then possibly without cleanup.
Prune ==
    /\ Calling("prune")
    /\ \/ Returns
       \/ \E g \in Flows \ {Flow}, reset \in {"reset", "reset_clear"} :
            flows[g].live /\ Then(<<For(reset, g)>>)
    /\ UNCHANGED <<setup, contextVars, reqVars, pktFlow, flows, at, phase>>

\* TcpSession::precheck(): a flow that expired starts over.
Precheck ==
    /\ Calling("precheck")
    /\ \/ Returns
       \/ Then(<<For("cleanup", Flow)>>)
    /\ UNCHANGED <<setup, contextVars, reqVars, pktFlow, flows, at, phase>>

\* Mutant of RstCalls: the flow is marked closed before its data is flushed.
RstCallsClosedFirst(f) ==
    <<For("onload", f), For("set_closed", f), For("flush", f), For("onload", f), For("purge", f)>>

\* Mutant of RstCalls: what the flushes offloaded is not taken back.
RstCallsOffloading(f) ==
    <<For("onload", f), For("flush", f), For("purge", f), For("set_closed", f)>>

\* TcpSession::update_session_on_rst(), and the state handler that called it.
RstCalls(f) ==
    <<For("onload", f), For("flush", f), For("onload", f), For("purge", f), For("set_closed", f)>>

\* The last ACK of both directions: the session is cleared, then closed.
LastAckCalls(f) == <<For("cleanup", f), For("set_closed", f)>>

\* TcpSession::process() of a flow that is not blocked: the packet may bring
\* data, and make data ready to flush, or end the session.
Process ==
    /\ Calling("process")
    /\ IF flows[Flow].blocked
       THEN Returns /\ UNCHANGED flows
       ELSE \E data \in 0 .. 1 :
              /\ flows[Flow].segs + data <= setup.maxSegs
              /\ flows' = [flows EXCEPT ![Flow] =
                             [@ EXCEPT !.tcp_init = TRUE, !.segs = @ + data]]
              /\ \/ Returns
                 \/ Then(<<For("flush", Flow)>>)
                 \/ data = 0 /\ Then(RstCalls(Flow))
                 \/ Then(LastAckCalls(Flow))
    /\ UNCHANGED <<setup, contextVars, reqVars, pktFlow, at, phase>>

\* Snort::process_packet() after the inspection: onload(p->flow).
OnloadPacket ==
    LET f == pktFlow[Context] IN
    /\ Calling("onload_packet")
    /\ Then(IF f = None THEN <<>> ELSE <<For("onload", f)>>)
    /\ UNCHANGED <<setup, contextVars, reqVars, pktFlow, flows, at, phase>>

\* Stream::timeout_flows(): FlowCache::timeout() leaves offloaded flows alone.
\* The packet's own flow has just been used, so it is not idle.
TimeoutFlows ==
    /\ Calling("timeout_flows")
    /\ \/ Returns
       \/ \E g \in Flows \ {Flow} :
            flows[g].live /\ ~IsOffloaded(g) /\ Then(<<For("reset", g)>>)
    /\ UNCHANGED <<setup, contextVars, reqVars, pktFlow, flows, at, phase>>

\* ContextSwitcher::stop() ends the packet.
StopPacket ==
    /\ Calling("stop")
    /\ Complete
    /\ Returns
    /\ UNCHANGED <<setup, reqVars, pktFlow, flows, at, phase>>

\* Snort::thread_term(), with purge_flows() unless dirty_pig is set.
ThreadTerm ==
    /\ phase = "run" /\ todo = <<>>
    /\ phase' = "term"
    /\ \/ todo' = <<For("purge_flows", None), For("idle", None)>>
       \/ todo' = <<For("idle", None)>>
    /\ UNCHANGED <<setup, contextVars, reqVars, pktFlow, flows, at>>

PurgeFlows ==
    /\ Calling("purge_flows")
    /\ IF \A g \in Flows : ~flows[g].live
       THEN Returns
       ELSE \E g \in Flows : flows[g].live /\ todo' = <<For("reset", g)>> \o todo
    /\ UNCHANGED <<setup, contextVars, reqVars, pktFlow, flows, at, phase>>

\* Mutant of StopWorkers: stop() only notifies.
StopWorkersNotified == UNCHANGED req

\* RegexOffload::stop() of every idle request.
StopWorkers ==
    req' = [w \in Workers |-> [req[w] EXCEPT !.go = @ /\ w \notin Range(idleReqs)]]

\* DetectionEngine::idle() takes back what is out, then stops the workers.
Idle ==
    /\ Calling("idle")
    /\ IF busyReqs # <<>>
       THEN OnloadFront
       ELSE /\ StopWorkers
            /\ signalled' = [w \in Workers |-> signalled[w] \/ at[w] = "wait"]
            /\ phase' = "join"
            /\ Returns
            /\ UNCHANGED <<setup, contextVars, idleReqs, busyReqs, pktFlow, flows, at>>

\* ~RegexOffload() joins the workers.
Join ==
    /\ phase = "join"
    /\ \A w \in Workers : at[w] = "gone"
    /\ phase' = "done"
    /\ UNCHANGED <<setup, contextVars, reqVars, pktFlow, flows, at, todo>>
-----------------------------------------------------------------------------
(***************************************************************************)
(* A worker.                                                               *)
(***************************************************************************)
\* It takes the lock and waits on the condition of its request.
Wait(w) ==
    /\ at[w] = "top"
    /\ at' = [at EXCEPT ![w] = "wait"]
    /\ UNCHANGED <<setup, contextVars, reqVars, pktFlow, flows, todo, phase>>

\* Mutant of WaitEnds: a wait without the timeout, until notified or stopped.
WaitEndsSignalled(w) == signalled[w] \/ ~req[w].go

\* wait_for() ends with a notification, or by itself after a second: always.
WaitEnds(w) == TRUE

Wake(w) ==
    /\ at[w] = "wait"
    /\ WaitEnds(w)
    /\ at' = [at EXCEPT ![w] = IF ~req[w].go THEN "gone"
                               ELSE IF req[w].offload THEN "search" ELSE "top"]
    /\ signalled' = [signalled EXCEPT ![w] = FALSE]
    /\ UNCHANGED <<setup, contextVars, pktFlow, flows, idleReqs, busyReqs, req, todo, phase>>

\* fp_offload() ends.
Searched(w) ==
    /\ at[w] = "search"
    /\ req' = [req EXCEPT ![w].offload = FALSE]
    /\ at' = [at EXCEPT ![w] = "top"]
    /\ UNCHANGED <<setup, contextVars, pktFlow, flows, idleReqs, busyReqs, signalled, todo, phase>>
-----------------------------------------------------------------------------
PacketThread ==
    \/ \E f \in Flows : PacketCallback(f)
    \/ Onload \/ Offload \/ FinishInspect \/ CheckFlowClosed \/ ForgetFlow \/ SetBlock
    \/ FinishPacket \/ LeaveEngine
    \/ Flush \/ FirstPdu \/ NextPdu \/ Pdu \/ Detect \/ PduDone
    \/ ClearSession \/ Purge \/ Restart \/ SetClosed \/ Reset \/ ResetSession \/ Zero
    \/ Prune \/ Precheck \/ Process \/ OnloadPacket \/ TimeoutFlows \/ StopPacket
    \/ ThreadTerm \/ PurgeFlows \/ Idle \/ Join

Worker(w) == Wait(w) \/ Wake(w) \/ Searched(w)

\* A poll of onload() or idle() that finds the oldest search unfinished.
Sleep ==
    /\ (Calling("onload") /\ IsOffloaded(Flow)) \/ Calling("idle")
    /\ busyReqs # <<>> /\ ~GetReady(Head(busyReqs))
    /\ UNCHANGED vars

\* The thread has ended.
Done == phase = "done" /\ UNCHANGED vars

Next == PacketThread \/ (\E w \in Workers : Worker(w)) \/ Sleep \/ Done

\* The scheduler runs the packet thread and every worker.  Packets need not
\* arrive, so only calls that have begun are owed.
Fairness ==
    /\ WF_vars(PacketThread /\ (todo # <<>> \/ phase # "run"))
    /\ \A w \in Workers : WF_vars(Worker(w))

Spec == Init /\ [][Next]_vars
FairSpec == Spec /\ Fairness
-----------------------------------------------------------------------------
(***************************************************************************)
(* Properties.                                                             *)
(***************************************************************************)
\* The calls that take a context, or look at the next one, in finish_packet().
NeedsIdle ==
    \/ phase = "run" /\ todo = <<>>
    \/ \E do \in {"pdu", "reset_cleanup", "reset_nocleanup", "finish_packet"} : Calling(do)
    \/ Calling("leave_engine") /\ busy # <<>> /\ Context = GetContext

\* The asserts of the context switcher: every context is idle, busy or on
\* hold; there is an idle one wherever one is taken or looked at; and the
\* context that is suspended, finished or stopped is the one the caller means,
\* whatever was interrupted, offloaded, taken back or released in between.
ContextsInPlace ==
    /\ Len(idle) + Len(busy) + Cardinality(hold) = MaxContexts
    /\ Range(idle) \cup Range(busy) \cup hold = Contexts
    /\ NeedsIdle => idle # <<>>
    /\ todo = <<>> => busy = <<>>
    /\ (Calling("offload") \/ Calling("finish_packet") \/ Calling("detect")) =>
          busy # <<>> /\ GetContext = Context
    /\ Calling("stop") => busy = <<Context>>

\* The asserts at the end of DetectionEngine::onload(Flow*) and of
\* RegexOffload::get(): a flow that counts no request has no suspended
\* context and no request, and one that counts some finds them.  (There are
\* fewer contexts than the 8 bits of the counter can count.)
OnloadComplete ==
    \A f \in Flows :
        flows[f].pending = Cardinality({c \in hold : pktFlow[c] = f})
        /\ flows[f].pending = Cardinality({w \in Range(busyReqs) : pktFlow[req[w].id] = f})

\* While a worker searches, nobody takes the packet away under it: the request
\* is out, its context is on hold, and the flow it reads is live and counted.
SearchUndisturbed ==
    \A w \in Workers : at[w] = "search" =>
        /\ w \in Range(busyReqs) /\ req[w].packet /\ req[w].offload
        /\ req[w].id \in hold
        /\ pktFlow[req[w].id] \in Flows
        /\ flows[pktFlow[req[w].id]].live
        /\ IsOffloaded(pktFlow[req[w].id])

\* _flush_to_seq() reads pdu->flow after the inspection of the PDU: the flow
\* was not deleted by check_flow_closed() under it.
PduKeepsFlow == Calling("pdu_done") => pktFlow[Context] = Flow /\ flows[Flow].live

\* The assert of flush_data_segments(), and what _flush_to_seq() takes for granted:
\* there is a segment to build the PDU of.
SegmentToFlush == Calling("first_pdu") \/ Calling("pdu") => flows[Flow].segs > 0

\* The PDUs of a flow are inspected one after the other: none is in a context
\* while the one before is still on hold.
OnePduAtATime ==
    \A i \in DOMAIN todo : todo[i].do \in {"detect", "offload"} =>
        (\A c \in hold : pktFlow[c] # todo[i].f)

\* When a packet returns to the DAQ, every search it started is finished: the
\* configuration may be swapped or the thread stopped between two packets.
NothingOutBetweenPackets ==
    todo = <<>> => hold = {} /\ busyReqs = <<>> /\ \A f \in Flows : ~IsOffloaded(f)

\* Every packet returns, so every PDU it offloaded comes back, although the
\* notification of a worker that does not wait yet is lost.
PacketReturns == (todo # <<>>) ~> (todo = <<>>)

\* A thread that ends gets its workers joined.
ThreadEnds == (phase = "term") ~> (phase = "done")
=============================================================================
