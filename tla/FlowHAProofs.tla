---------------------------- MODULE FlowHAProofs ----------------------------
(***************************************************************************)
(* Proofs about FlowHA.  HAInv, the inductive invariant, says that what a  *)
(* peer has sent last, or what its partner made of that, agrees with its   *)
(* flow (Synced), and that a blocked flow has been told                    *)
(* (CriticalTold).  The lemmas follow the code from the inside out: what   *)
(* each function does to the record of a thread, what a whole handler      *)
(* does, then every step.                                                  *)
(***************************************************************************)
EXTENDS FlowHA, TLAPS, WellFoundedInduction, NaturalsInduction

(* Only a flow that is blocked or reset has drop flags.                    *)
Barred(flags, state) == "drop" \in flags => state \in {"block", "reset"}

(* A message in the channel: an update is of a session that has begun.     *)
Sent == {msg \in Messages :
            Barred(msg.flags, msg.state) /\ (msg.event = "UPDATE" => msg.state # "setup")}

(* What Flow::restart() keeps.                                             *)
Kept(s) == s.f.flags \cap {"svc"}

(* The record a packet thread works on.                                    *)
ThreadType == [f : FlowType, prev : SUBSET Flags, out : Seq(Sent), told : BOOLEAN, down : BOOLEAN]

(* The flow that is not there, and the deletion message.                   *)
LEMMA NoFlowType == NoFlow \in FlowType
  BY DEF NoFlow, FlowType, FlowStates

(* A deletion may always be sent.                                          *)
LEMMA DeleteSent == Delete \in Sent
  BY DEF Delete, Sent, Messages, FlowStates, Barred

(* A thread with another flow; with other messages sent.                   *)
LEMMA WithFlow ==
    ASSUME NEW s \in ThreadType, NEW f \in FlowType
    PROVE  LET t == [s EXCEPT !.f = f] IN
           /\ t \in ThreadType /\ t.f = f /\ t.prev = s.prev /\ t.out = s.out
           /\ t.told = s.told /\ t.down = s.down
  BY DEF ThreadType

(* process_deletion().                                                     *)
LEMMA DeletionDoes ==
    ASSUME NEW s \in ThreadType
    PROVE  LET t == Deletion(s) IN
           /\ t \in ThreadType
           /\ t.f.live = s.f.live /\ t.f.flags = s.f.flags /\ t.f.state = s.f.state
           /\ t.f.tcp_init = s.f.tcp_init /\ t.f.expire = s.f.expire
           /\ t.f.ha = s.f.ha \/ t.f.ha = s.f.ha \cup {"DELETED"}
           /\ t.prev = s.prev /\ t.down = s.down
           /\ s.down => t = s
<1> DEFINE f == [s.f EXCEPT !.ha = s.f.ha \cup {"DELETED"}]
           u == [s EXCEPT !.f = f]
           t == [u EXCEPT !.out = Append(s.out, Delete), !.told = FALSE]
<1>1. s.f \in FlowType /\ s.out \in Seq(Sent)
  BY DEF ThreadType
<1>2. f \in FlowType
  BY <1>1 DEF FlowType, HaStates
<1>3. /\ f.live = s.f.live /\ f.flags = s.f.flags /\ f.state = s.f.state
      /\ f.tcp_init = s.f.tcp_init /\ f.expire = s.f.expire /\ f.ha = s.f.ha \cup {"DELETED"}
  BY <1>1 DEF FlowType
<1>4. Deletion(s) = s \/ (Deletion(s) = t /\ ~s.down)
  BY DEF Deletion, Ha, ThreadType
<1> HIDE DEF f
<1>5. u \in ThreadType /\ u.f = f /\ u.prev = s.prev /\ u.down = s.down /\ u.out = s.out
  BY <1>2, WithFlow
<1> HIDE DEF u
<1>6. Append(s.out, Delete) \in Seq(Sent)
  BY <1>1, DeleteSent
<1>7. t \in ThreadType /\ t.f = f /\ t.prev = s.prev /\ t.down = s.down
  BY <1>5, <1>6, Zenon DEF ThreadType
<1> QED
  BY <1>3, <1>4, <1>7, Zenon

(* Flow::restart() and Flow::clear().                                      *)
LEMMA RestartDoes ==
    ASSUME NEW s \in ThreadType, NEW more \in SUBSET Flags
    PROVE  LET t == [Restart(s) EXCEPT !.f.flags = @ \cup more] IN
           /\ t \in ThreadType /\ t.prev = Kept(s) /\ t.out = s.out /\ t.told = s.told
           /\ t.down = s.down
           /\ t.f.live = s.f.live /\ t.f.flags = Kept(s) \cup more /\ t.f.state = s.f.state
           /\ t.f.ha = s.f.ha /\ t.f.tcp_init = s.f.tcp_init /\ ~t.f.expire
<1> DEFINE k == Kept(s)
           flags == k \cup more
           f == [s.f EXCEPT !.flags = k, !.expire = FALSE]
           g == [f EXCEPT !.flags = flags]
           r == [s EXCEPT !.f = f, !.prev = k]
           t == [s EXCEPT !.f = g, !.prev = k]
<1>1. s.f \in FlowType /\ k \in SUBSET Flags /\ flags \in SUBSET Flags
  BY DEF ThreadType, FlowType, Kept
<1>2. Restart(s) = r
  BY Zenon DEF Restart, Kept, ThreadType
<1> HIDE DEF k
<1>3. [r EXCEPT !.f.flags = @ \cup more] = t
  BY <1>1, Zenon DEF ThreadType, FlowType
<1> HIDE DEF flags
<1>4. f \in FlowType /\ g \in FlowType
  BY <1>1, Zenon DEF FlowType
<1>5. /\ g.live = s.f.live /\ g.flags = flags /\ g.state = s.f.state /\ g.ha = s.f.ha
      /\ g.tcp_init = s.f.tcp_init /\ ~g.expire
  BY <1>1 DEF FlowType
<1> HIDE DEF g
<1>6. t \in ThreadType /\ t.f = g /\ t.prev = k /\ t.out = s.out /\ t.told = s.told /\ t.down = s.down
  BY <1>1, <1>4, Zenon DEF ThreadType
<1> QED
  BY <1>2, <1>3, <1>5, <1>6, ZenonT(30) DEF k, flags

(* Clearing a flow.                                                        *)
LEMMA ClearDoes ==
    ASSUME NEW s \in ThreadType
    PROVE  LET t == Clear(s) IN
           /\ t \in ThreadType /\ t.prev = Kept(s) /\ t.out = s.out /\ t.told = s.told
           /\ t.down = s.down
           /\ t.f.live = s.f.live /\ t.f.flags = Kept(s) /\ t.f.state = "setup" /\ t.f.ha = s.f.ha
           /\ t.f.tcp_init = s.f.tcp_init /\ ~t.f.expire
<1> DEFINE k == Kept(s)
           f == [s.f EXCEPT !.flags = k, !.expire = FALSE]
           g == [f EXCEPT !.state = "setup"]
           t == [s EXCEPT !.f = g, !.prev = k]
<1>1. s.f \in FlowType /\ k \in SUBSET Flags
  BY DEF ThreadType, FlowType, Kept
<1>2. Clear(s) = t
  BY Zenon DEF Clear, Restart, Kept, ThreadType
<1> HIDE DEF k
<1>3. g \in FlowType
  BY <1>1, Zenon DEF FlowType, FlowStates
<1>4. /\ g.live = s.f.live /\ g.flags = k /\ g.state = "setup" /\ g.ha = s.f.ha
      /\ g.tcp_init = s.f.tcp_init /\ ~g.expire
  BY <1>1 DEF FlowType
<1> HIDE DEF g
<1>5. t \in ThreadType /\ t.f = g /\ t.prev = k /\ t.out = s.out /\ t.told = s.told /\ t.down = s.down
  BY <1>1, <1>3, Zenon DEF ThreadType
<1> QED
  BY <1>2, <1>4, <1>5, Zenon DEF k

(* TcpSession::clear_session().                                            *)
LEMMA TcpClearDoes ==
    ASSUME NEW s \in ThreadType
    PROVE  LET t == TcpClearSession(s) IN
           /\ t \in ThreadType /\ t.out = s.out /\ t.told = s.told /\ t.down = s.down
           /\ t.f.live = s.f.live /\ t.f.ha = s.f.ha /\ ~t.f.tcp_init
           /\ IF s.f.tcp_init
              THEN t.prev = Kept(s) /\ t.f.flags = Kept(s) /\ t.f.state = "setup" /\ ~t.f.expire
              ELSE t = s
<1> DEFINE c == Clear(s)
           f == [c.f EXCEPT !.tcp_init = FALSE]
           t == [c EXCEPT !.f = f]
<1>1. /\ c \in ThreadType /\ c.prev = Kept(s) /\ c.out = s.out /\ c.told = s.told /\ c.down = s.down
      /\ c.f.live = s.f.live /\ c.f.flags = Kept(s) /\ c.f.state = "setup" /\ c.f.ha = s.f.ha
      /\ ~c.f.expire
  BY ClearDoes
<1> HIDE DEF c
<1>2. c.f \in FlowType /\ s.f.tcp_init \in BOOLEAN
  BY <1>1 DEF ThreadType, FlowType
<1>3. f \in FlowType
  BY <1>2, Zenon DEF FlowType
<1>4. /\ f.live = c.f.live /\ f.flags = c.f.flags /\ f.state = c.f.state /\ f.ha = c.f.ha
      /\ ~f.tcp_init /\ f.expire = c.f.expire
  BY <1>2 DEF FlowType
<1>5. TcpClearSession(s) = IF s.f.tcp_init THEN t ELSE s
  BY <1>1 DEF TcpClearSession, ThreadType, c
<1> HIDE DEF f
<1>6. t \in ThreadType /\ t.f = f /\ t.prev = c.prev /\ t.out = c.out /\ t.told = c.told /\ t.down = c.down
  BY <1>1, <1>3, WithFlow
<1> QED
  BY <1>1, <1>2, <1>4, <1>5, <1>6

(* clear() and cleanup() of the session.                                   *)
LEMMA SessionClearDoes ==
    ASSUME NEW s \in ThreadType
    PROVE  /\ SessionClear(s) \in ThreadType /\ SessionCleanup(s) \in ThreadType
           /\ SessionClear(s).down = s.down /\ SessionCleanup(s).down = s.down
           /\ s.down => SessionClear(s).out = s.out /\ SessionCleanup(s).out = s.out
           /\ SessionClear(s).f.live = s.f.live
           /\ \/ SessionClear(s).f.ha = s.f.ha \/ SessionClear(s).f.ha = s.f.ha \cup {"DELETED"}
           /\ IF s.f.tcp_init \/ setup.proto # "tcp"
              THEN /\ SessionClear(s).prev = Kept(s) /\ SessionClear(s).f.flags = Kept(s)
                   /\ ~SessionClear(s).f.expire
              ELSE /\ SessionClear(s).prev = s.prev /\ SessionClear(s).f.flags = s.f.flags
                   /\ SessionClear(s).f.expire = s.f.expire
<1>1. CASE setup.proto = "tcp"
  <2> DEFINE t == TcpClearSession(s)
  <2>1. /\ t \in ThreadType /\ t.out = s.out /\ t.down = s.down /\ t.f.live = s.f.live
        /\ t.f.ha = s.f.ha
        /\ IF s.f.tcp_init THEN t.prev = Kept(s) /\ t.f.flags = Kept(s) /\ ~t.f.expire ELSE t = s
    BY TcpClearDoes
  <2> HIDE DEF t
  <2>2. SessionClear(s) = Deletion(t) /\ SessionCleanup(s) = t
    BY <1>1 DEF SessionClear, SessionCleanup, t
  <2> QED
    BY <1>1, <2>1, <2>2, DeletionDoes
<1>2. CASE setup.proto # "tcp"
  <2> DEFINE t == Deletion(s)
  <2>1. /\ t \in ThreadType /\ t.down = s.down /\ t.f.live = s.f.live /\ (s.down => t = s)
        /\ t.f.ha = s.f.ha \/ t.f.ha = s.f.ha \cup {"DELETED"}
        /\ Kept(t) = Kept(s)
    BY DeletionDoes DEF Kept
  <2> HIDE DEF t
  <2>2. SessionClear(s) = Clear(t) /\ SessionCleanup(s) = Clear(t)
    BY <1>2 DEF SessionClear, SessionCleanup, t
  <2> QED
    BY <1>2, <2>1, <2>2, ClearDoes
<1> QED
  BY <1>1, <1>2

(* Flow::reset() and FlowCache::release(): no flow is left, and a thread   *)
(* that shuts down sends nothing.                                          *)
LEMMA ReleaseDoes ==
    ASSUME NEW s \in ThreadType
    PROVE  /\ Reset(s) \in ThreadType /\ Reset(s).f = NoFlow /\ Reset(s).down = s.down
           /\ Release(s) \in ThreadType /\ Release(s).f = NoFlow /\ Release(s).down = s.down
           /\ s.down => Release(s).out = s.out
<1> DEFINE t == SessionCleanup(s)
           r == [t EXCEPT !.f = NoFlow]
<1>1. t \in ThreadType /\ t.down = s.down /\ (s.down => t.out = s.out)
  BY SessionClearDoes
<1> HIDE DEF t
<1>2. r \in ThreadType /\ r.f = NoFlow /\ r.down = t.down /\ r.out = t.out
  BY <1>1, NoFlowType, WithFlow
<1>3. Reset(s) = r
  BY DEF Reset, t
<1> HIDE DEF r
<1>4. Release(s) = [r EXCEPT !.told = FALSE]
  BY <1>3 DEF Release
<1>5. LET u == [r EXCEPT !.told = FALSE] IN
      u \in ThreadType /\ u.f = r.f /\ u.down = r.down /\ u.out = r.out
  BY <1>2, Zenon DEF ThreadType
<1> QED
  BY <1>1, <1>2, <1>3, <1>4, <1>5

(* FlowCache::get() of a key that is not there.                            *)
LEMMA TakeDoes ==
    ASSUME NEW s \in ThreadType, NEW object \in Objects
    PROVE  LET t == Take(s, object) IN
           /\ t \in ThreadType /\ t.down = s.down
           /\ t.f.live /\ t.f.flags = {} /\ t.f.state = "setup" /\ ~t.f.tcp_init /\ ~t.f.expire
           /\ t.f.ha = {} \/ t.f.ha = {"NEW", "NEW_SESSION"}
<1> DEFINE new == [s EXCEPT !.f = NoFlow, !.told = FALSE]
           got == CASE object = "fresh" -> Ha(new, {"NEW", "NEW_SESSION"})
                    [] object = "recycled" -> new
                    [] object = "pruned" -> Reset(new)
<1>1. new \in ThreadType /\ new.f = NoFlow /\ new.down = s.down
  BY NoFlowType, Zenon DEF ThreadType
<1>2. Reset(new) \in ThreadType /\ Reset(new).f = NoFlow /\ Reset(new).down = s.down
  BY <1>1, ReleaseDoes, Zenon
<1> DEFINE f == [NoFlow EXCEPT !.ha = {"NEW", "NEW_SESSION"}]
<1>3. f \in FlowType
  BY NoFlowType DEF FlowType, HaStates
<1>4. Ha(new, {"NEW", "NEW_SESSION"}) = [new EXCEPT !.f = f]
  BY <1>1, Zenon DEF Ha, ThreadType, NoFlow
<1> HIDE DEF f, new
<1>5. [new EXCEPT !.f = f] \in ThreadType /\ [new EXCEPT !.f = f].f = f
      /\ [new EXCEPT !.f = f].down = s.down
  BY <1>1, <1>3, WithFlow
<1>6. got \in ThreadType /\ got.down = s.down /\ (got.f = NoFlow \/ got.f = f)
  BY <1>1, <1>2, <1>4, <1>5, Zenon DEF Objects
<1>7. Take(s, object) = [got EXCEPT !.f.live = TRUE]
  BY DEF Take, new
<1> HIDE DEF got
<1> DEFINE g == [got.f EXCEPT !.live = TRUE]
<1>8. /\ g \in FlowType /\ g.live /\ g.flags = {} /\ g.state = "setup" /\ ~g.tcp_init /\ ~g.expire
      /\ g.ha = {} \/ g.ha = {"NEW", "NEW_SESSION"}
  <2>1. /\ NoFlow.flags = {} /\ NoFlow.state = "setup" /\ ~NoFlow.tcp_init /\ ~NoFlow.expire
        /\ NoFlow.ha = {}
    BY DEF NoFlow
  <2>2. /\ f.flags = {} /\ f.state = "setup" /\ ~f.tcp_init /\ ~f.expire
        /\ f.ha = {"NEW", "NEW_SESSION"}
    BY <2>1, NoFlowType DEF f, FlowType
  <2>3. got.f \in FlowType
    BY <1>3, <1>6, NoFlowType
  <2>4. g \in FlowType
    BY <2>3, Zenon DEF FlowType
  <2>5. /\ g.live /\ g.flags = got.f.flags /\ g.state = got.f.state /\ g.tcp_init = got.f.tcp_init
        /\ g.expire = got.f.expire /\ g.ha = got.f.ha
    BY <2>3 DEF FlowType
  <2> HIDE DEF g
  <2> QED
    BY <1>6, <2>1, <2>2, <2>4, <2>5
<1>9. Take(s, object) = [got EXCEPT !.f = g]
  BY <1>6, <1>7 DEF ThreadType
<1> HIDE DEF g
<1> QED
  BY <1>6, <1>8, <1>9, WithFlow

(* The partner knows that the session is blocked, or is going to.          *)
Known(s) == s.told \/ "NEW" \in s.f.ha \/ {"MODIFIED", "MAJOR"} \subseteq s.f.ha

(* A TCP session has a timer only when it has begun; it is not new and     *)
(* announced, unless the partner created it.                               *)
Begun(f) ==
    setup.proto = "tcp" =>
        /\ f.expire => f.tcp_init
        /\ "NEW_SESSION" \in f.ha => "NEW" \in f.ha \/ "STANDBY" \in f.ha

(* A flow between two packets, and a thread with such a flow.              *)
FlowOK(f) ==
    /\ ~f.live => f = NoFlow
    /\ Begun(f) /\ Barred(f.flags, f.state)
    /\ setup.proto = "udp" /\ f.live => f.state # "setup"

(* A thread that keeps to its invariant: it is typed, its flow too, and a  *)
(* blocked flow is known to the peer.                                      *)
Good(s) == s \in ThreadType /\ FlowOK(s.f) /\ (s.f.live /\ "drop" \in s.f.flags => Known(s))

(* What agrees with the flow f agrees with g.                              *)
Follows(f, g) == Own(g.flags) = Own(f.flags) /\ (g.state = f.state \/ Untold(g))

(* The thread t after it handled a packet, and before it looks for what    *)
(* has to be told.                                                         *)
Handled(s, t) ==
    /\ t \in ThreadType /\ t.down = s.down
    /\ ~t.f.live => t.f = NoFlow
    /\ t.f.live =>
          /\ Begun(t.f) /\ t.f.state # "setup" /\ Barred(t.f.flags, t.f.state)
          /\ "drop" \in t.f.flags => Known(t) \/ "drop" \notin t.prev
          /\ setup.proto = "udp" =>
                \/ t.prev # t.f.flags \/ Cleared(t.f)
                \/ s.f.live /\ t.out = s.out /\ Follows(s.f, t.f) /\ t.f.ha = s.f.ha

(* Inputs that fit the flow.                                               *)
InputOK(s, in) ==
    /\ in.expired \in {FALSE, s.f.expire} /\ in.object \in Objects
    /\ in.bind \in Binds /\ (setup.proto = "tcp" => in.bind # "expected")
    /\ in.marks \in SUBSET {"est", "svc"}

(* The flow a packet finds, and what becomes of one that has expired.      *)
Found(s, in) == LET found == IF s.f.live THEN s ELSE Take(s, in.object)
                IN  [found EXCEPT !.prev = found.f.flags]

(* What finding the flow of a packet leaves.                               *)
LEMMA FoundDoes ==
    ASSUME NEW s, Good(s), NEW in, InputOK(s, in)
    PROVE  LET t == Found(s, in) IN
           /\ t \in ThreadType /\ t.down = s.down /\ t.f.live /\ Begun(t.f)
           /\ t.prev = t.f.flags /\ Barred(t.f.flags, t.f.state)
           /\ "drop" \in t.f.flags => Known(t)
           /\ in.expired /\ setup.proto = "tcp" => t.f.tcp_init
           /\ IF s.f.live THEN t.f = s.f /\ t.out = s.out
              ELSE t.f.flags = {} /\ t.f.state = "setup"
<1> DEFINE found == IF s.f.live THEN s ELSE Take(s, in.object)
<1>1. s \in ThreadType /\ FlowOK(s.f) /\ in.object \in Objects
  BY DEF Good, InputOK
<1>2. CASE s.f.live
  <2>1. s.f.flags \in SUBSET Flags
    BY <1>1 DEF ThreadType, FlowType
  <2>2. LET t == [s EXCEPT !.prev = s.f.flags] IN
        /\ t \in ThreadType /\ t.down = s.down /\ t.f = s.f /\ t.out = s.out /\ t.told = s.told
        /\ t.prev = s.f.flags
    BY <1>1, <2>1 DEF ThreadType
  <2>3. Found(s, in) = [s EXCEPT !.prev = s.f.flags]
    BY <1>2 DEF Found
  <2>4. in.expired => s.f.expire
    BY Zenon DEF InputOK
  <2> QED
    BY <1>1, <1>2, <2>2, <2>3, <2>4 DEF Good, FlowOK, Begun, Known
<1>3. CASE ~s.f.live
  <2> DEFINE g == Take(s, in.object)
  <2>1. /\ g \in ThreadType /\ g.down = s.down
        /\ g.f.live /\ g.f.flags = {} /\ g.f.state = "setup" /\ ~g.f.tcp_init /\ ~g.f.expire
        /\ g.f.ha = {} \/ g.f.ha = {"NEW", "NEW_SESSION"}
    BY <1>1, TakeDoes
  <2>2. Found(s, in) = [g EXCEPT !.prev = g.f.flags]
    BY <1>3 DEF Found
  <2> HIDE DEF g
  <2>3. LET t == [g EXCEPT !.prev = g.f.flags] IN
        /\ t \in ThreadType /\ t.down = g.down /\ t.f = g.f /\ t.prev = g.f.flags
    BY <2>1 DEF ThreadType
  <2>4. ~in.expired
    <3>1. s.f = NoFlow /\ NoFlow.expire = FALSE
      BY <1>1, <1>3 DEF FlowOK, NoFlow
    <3> QED
      BY <3>1, Zenon DEF InputOK
  <2> QED
    BY <1>3, <2>1, <2>2, <2>3, <2>4 DEF Begun, Barred
<1> QED
  BY <1>2, <1>3

(* The flow of a packet that is inspected.                                 *)
Marked(s, marks) ==
    [s EXCEPT !.f.flags = @ \cup {"seen"} \cup marks,
              !.f.tcp_init = (setup.proto = "tcp"), !.f.expire = TRUE]

(* Process() once the flow has been found.                                 *)
Goes(s, in) ==
    LET ready == Bind(IF setup.proto = "tcp" THEN Expire(s, in) ELSE s, in.bind)
        started == IF setup.proto = "udp" THEN Expire(ready, in) ELSE ready
    IN  IF ready.f.state = "inspect" THEN Marked(started, in.marks) ELSE ready

(* Process() is that.                                                      *)
LEMMA ProcessGoes ==
    ASSUME NEW s, NEW in
    PROVE  Process(s, in) = Goes(Found(s, in), in)
  BY DEF Process, Goes, Found, Marked

(* What a new flow gets.                                                   *)
LEMMA FirstFlagsAre ==
    ASSUME NEW bind \in Binds
    PROVE  /\ FirstFlags(bind) \in SUBSET Flags
           /\ bind # "inspect" => FirstFlags(bind) # {}
           /\ "drop" \in FirstFlags(bind) => bind \in {"block", "reset"}
  BY DEF FirstFlags, Binds, Flags

(* The binder's action on a flow.                                          *)
LEMMA BindDoes ==
    ASSUME NEW s \in ThreadType, NEW bind \in Binds
    PROVE  LET t == Bind(s, bind) IN
           /\ t \in ThreadType /\ t.down = s.down /\ t.prev = s.prev /\ t.out = s.out
           /\ t.told = s.told
           /\ t.f.live = s.f.live /\ t.f.ha = s.f.ha /\ t.f.tcp_init = s.f.tcp_init
           /\ t.f.state # "setup"
           /\ bind # "expected" => t.f.expire = s.f.expire
           /\ IF s.f.state # "setup" THEN t = s
              ELSE /\ t.f.flags = s.f.flags \cup FirstFlags(bind)
                   /\ t.f.state = IF bind = "expected" THEN "allow" ELSE bind
<1> DEFINE state == IF bind = "expected" THEN "allow" ELSE bind
           flags == s.f.flags \cup FirstFlags(bind)
           expire == s.f.expire \/ bind = "expected"
           f == [s.f EXCEPT !.state = state, !.flags = flags, !.expire = expire]
           t == [s EXCEPT !.f = f]
<1>1. s.f \in FlowType
  BY DEF ThreadType
<1>2. /\ state \in FlowStates /\ state # "setup" /\ flags \in SUBSET Flags /\ expire \in BOOLEAN
      /\ bind # "expected" => expire = s.f.expire
  BY <1>1, FirstFlagsAre DEF Binds, FlowStates, FlowType
<1>3. Bind(s, bind) = IF s.f.state # "setup" THEN s ELSE t
  <2>1. CASE s.f.state # "setup"
    BY <2>1 DEF Bind
  <2>2. CASE s.f.state = "setup"
    BY <1>1, <2>2, Zenon DEF Bind, ThreadType, FlowType
  <2> QED
    BY <2>1, <2>2
<1> HIDE DEF state, flags, expire
<1>4. f \in FlowType
  BY <1>1, <1>2, Zenon DEF FlowType
<1>5. /\ f.live = s.f.live /\ f.ha = s.f.ha /\ f.tcp_init = s.f.tcp_init
      /\ f.state = state /\ f.flags = flags /\ f.expire = expire
  BY <1>1 DEF FlowType
<1> HIDE DEF f
<1>6. /\ t \in ThreadType /\ t.f = f /\ t.prev = s.prev /\ t.out = s.out
      /\ t.told = s.told /\ t.down = s.down
  BY <1>4, WithFlow
<1> HIDE DEF t
<1>7. CASE s.f.state # "setup"
  BY <1>3, <1>7
<1>8. CASE s.f.state = "setup"
  <2>1. Bind(s, bind) = t
    BY <1>3, <1>8
  <2> QED
    BY <1>2, <1>5, <1>6, <1>8, <2>1, Zenon DEF state, flags
<1> QED
  BY <1>7, <1>8

(* What inspection may mark.                                               *)
MarkSets == SUBSET {"est", "svc"}

(* What the marks change.                                                  *)
LEMMA Marks ==
    ASSUME NEW s \in ThreadType, NEW marks \in MarkSets
    PROVE  LET t == Marked(s, marks) IN
           /\ t \in ThreadType /\ t.down = s.down /\ t.prev = s.prev /\ t.out = s.out
           /\ t.told = s.told
           /\ t.f.live = s.f.live /\ t.f.state = s.f.state /\ t.f.ha = s.f.ha
           /\ t.f.flags = s.f.flags \cup {"seen"} \cup marks
           /\ setup.proto = "tcp" => t.f.tcp_init
<1> DEFINE flags == s.f.flags \cup {"seen"} \cup marks
           f == [s.f EXCEPT !.flags = flags, !.tcp_init = (setup.proto = "tcp"), !.expire = TRUE]
<1>1. s.f \in FlowType
  BY DEF ThreadType
<1>2. flags \in SUBSET Flags /\ (setup.proto = "tcp") \in BOOLEAN
  BY <1>1, Zenon DEF FlowType, Flags, MarkSets
<1>3. Marked(s, marks) = [s EXCEPT !.f = f]
  BY Zenon DEF ThreadType, Marked
<1> HIDE DEF flags
<1>4. f \in FlowType
  BY <1>1, <1>2, Zenon DEF FlowType
<1>5. /\ f.live = s.f.live /\ f.state = s.f.state /\ f.ha = s.f.ha /\ f.flags = flags
      /\ setup.proto = "tcp" => f.tcp_init
  BY <1>1, Zenon DEF FlowType
<1> HIDE DEF f
<1>6. LET t == [s EXCEPT !.f = f] IN
      /\ t \in ThreadType /\ t.f = f /\ t.prev = s.prev /\ t.out = s.out
      /\ t.told = s.told /\ t.down = s.down
  BY <1>4, WithFlow
<1> QED
  BY <1>3, <1>5, <1>6, Zenon DEF flags

(* An expired TCP session, and an expired UDP session.                     *)
LEMMA TcpExpires ==
    ASSUME NEW s \in ThreadType, s.f.tcp_init
    PROVE  LET t == Deletion(TcpClearSession(s)) IN
           /\ t \in ThreadType /\ t.down = s.down /\ t.f.live = s.f.live /\ t.prev = Kept(s)
           /\ t.f.flags = Kept(s) /\ t.f.state = "setup" /\ ~t.f.expire
           /\ t.f.ha = s.f.ha \/ t.f.ha = s.f.ha \cup {"DELETED"}
<1> DEFINE c == TcpClearSession(s)
<1>1. /\ c \in ThreadType /\ c.down = s.down /\ c.f.live = s.f.live /\ c.f.ha = s.f.ha
      /\ c.prev = Kept(s) /\ c.f.flags = Kept(s) /\ c.f.state = "setup" /\ ~c.f.expire
  BY TcpClearDoes
<1> HIDE DEF c
<1>2. LET t == Deletion(c) IN
      /\ t \in ThreadType /\ t.down = c.down /\ t.f.live = c.f.live /\ t.prev = c.prev
      /\ t.f.flags = c.f.flags /\ t.f.state = c.f.state /\ t.f.expire = c.f.expire
      /\ t.f.ha = c.f.ha \/ t.f.ha = c.f.ha \cup {"DELETED"}
  BY <1>1, DeletionDoes
<1> QED
  BY <1>1, <1>2 DEF c

(* A UDP session that expired is over.                                     *)
LEMMA UdpExpires ==
    ASSUME NEW s \in ThreadType
    PROVE  LET t == Deletion([Restart(s) EXCEPT !.f.flags = @ \cup {"seen"}]) IN
           /\ t \in ThreadType /\ t.down = s.down /\ t.f.live = s.f.live /\ t.prev = Kept(s)
           /\ t.f.flags = Kept(s) \cup {"seen"} /\ t.f.state = s.f.state
<1> DEFINE c == [Restart(s) EXCEPT !.f.flags = @ \cup {"seen"}]
<1>0. {"seen"} \in SUBSET Flags
  BY DEF Flags
<1>1. /\ c \in ThreadType /\ c.down = s.down /\ c.f.live = s.f.live /\ c.prev = Kept(s)
      /\ c.f.flags = Kept(s) \cup {"seen"} /\ c.f.state = s.f.state
  BY <1>0, RestartDoes, Zenon
<1> HIDE DEF c
<1> QED
  BY <1>1, DeletionDoes, Zenon DEF c

(* What the session's process() leaves.                                    *)
Processed(s, t) ==
    /\ t \in ThreadType /\ t.down = s.down /\ t.f.live /\ Begun(t.f)
    /\ t.f.state # "setup" /\ Barred(t.f.flags, t.f.state) /\ Barred(t.prev, t.f.state)
    /\ t.f.state = "inspect" /\ setup.proto = "tcp" => t.f.tcp_init
    /\ "drop" \in t.f.flags => Known(t) \/ "drop" \notin t.prev
    /\ setup.proto = "udp" =>
          \/ ~(t.f.flags \subseteq t.prev)
          \/ /\ s.f.live /\ t.out = s.out /\ t.prev = t.f.flags /\ t.f.flags = s.f.flags
             /\ t.f.state = s.f.state /\ t.f.ha = s.f.ha

(* TCP looks at the timer, then the flow is bound.                         *)
LEMMA ReadyDoes ==
    ASSUME NEW s \in ThreadType, s.f.live, Begun(s.f), s.prev = s.f.flags,
           setup.proto \in {"udp", "tcp"}, Barred(s.f.flags, s.f.state),
           "drop" \in s.f.flags => Known(s),
           setup.proto = "udp" /\ s.f.state = "setup" => s.f.flags = {},
           NEW in, in.expired /\ setup.proto = "tcp" => s.f.tcp_init,
           in.bind \in Binds, setup.proto = "tcp" => in.bind # "expected"
    PROVE  LET t == Bind(IF setup.proto = "tcp" THEN Expire(s, in) ELSE s, in.bind) IN
           /\ t \in ThreadType /\ t.down = s.down /\ t.f.live /\ Begun(t.f)
           /\ t.f.state # "setup" /\ Barred(t.f.flags, t.f.state) /\ Barred(t.prev, t.f.state)
           /\ "drop" \in t.f.flags => Known(t) \/ "drop" \notin t.prev
           /\ setup.proto = "udp" =>
                 IF s.f.state = "setup"
                 THEN t.prev = {} /\ (t.f.state # "inspect" => t.f.flags # {})
                 ELSE t = s
<1> DEFINE checked == IF setup.proto = "tcp" THEN Expire(s, in) ELSE s
           t == Bind(checked, in.bind)
<1>1. /\ checked \in ThreadType /\ checked.down = s.down /\ checked.f.live /\ Begun(checked.f)
      /\ Barred(checked.f.flags, checked.f.state) /\ Barred(checked.prev, checked.f.state)
      /\ "drop" \in checked.f.flags => Known(checked)
      /\ setup.proto = "udp" => checked = s
  <2>1. CASE setup.proto = "tcp" /\ in.expired
    <3>1. checked = Deletion(TcpClearSession(s))
      BY <2>1 DEF Expire
    <3>2. /\ checked \in ThreadType /\ checked.down = s.down /\ checked.f.live = s.f.live
          /\ checked.prev = Kept(s)
          /\ checked.f.flags = Kept(s) /\ checked.f.state = "setup" /\ ~checked.f.expire
          /\ checked.f.ha = s.f.ha \/ checked.f.ha = s.f.ha \cup {"DELETED"}
      BY <2>1, <3>1, TcpExpires, Zenon
    <3>3. "drop" \notin Kept(s)
      BY DEF Kept
    <3> HIDE DEF checked
    <3> QED
      BY <2>1, <3>2, <3>3 DEF Begun, Barred
  <2>2. CASE ~(setup.proto = "tcp" /\ in.expired)
    <3>1. checked = s
      BY <2>2 DEF Expire
    <3> HIDE DEF checked
    <3> QED
      BY <2>2, <3>1
  <2> QED
    BY <2>1, <2>2
<1> HIDE DEF checked
<1>2. /\ t \in ThreadType /\ t.down = checked.down /\ t.prev = checked.prev /\ t.out = checked.out
      /\ t.told = checked.told
      /\ t.f.live = checked.f.live /\ t.f.ha = checked.f.ha /\ t.f.tcp_init = checked.f.tcp_init
      /\ t.f.state # "setup"
      /\ in.bind # "expected" => t.f.expire = checked.f.expire
      /\ IF checked.f.state # "setup" THEN t = checked
         ELSE /\ t.f.flags = checked.f.flags \cup FirstFlags(in.bind)
              /\ t.f.state = IF in.bind = "expected" THEN "allow" ELSE in.bind
  BY <1>1, BindDoes, ZenonT(30)
<1>3. /\ in.bind # "inspect" => FirstFlags(in.bind) # {}
      /\ "drop" \in FirstFlags(in.bind) => in.bind \in {"block", "reset"}
  BY FirstFlagsAre
<1> HIDE DEF t
<1>4. Begun(t.f)
  BY <1>1, <1>2 DEF Begun
<1>5. CASE checked.f.state # "setup"
  BY <1>1, <1>2, <1>4, <1>5, SMTT(30) DEF t, checked
<1>6. CASE checked.f.state = "setup"
  <2>1. "drop" \notin checked.f.flags /\ "drop" \notin checked.prev
    BY <1>1, <1>6 DEF Barred
  <2>2. Barred(t.f.flags, t.f.state) /\ Barred(t.prev, t.f.state) /\ "drop" \notin t.prev
    BY <1>2, <1>3, <1>6, <2>1 DEF Barred
  <2>3. setup.proto = "udp" => t.prev = {} /\ (t.f.state # "inspect" => t.f.flags # {})
    BY <1>1, <1>2, <1>3, <1>6
  <2> QED
    BY <1>1, <1>2, <1>4, <1>6, <2>2, <2>3, ZenonT(30) DEF t, checked
<1> QED
  BY <1>5, <1>6

(* Goes keeps the thread good.                                             *)
LEMMA GoesDoes ==
    ASSUME NEW s \in ThreadType, s.f.live, Begun(s.f), s.prev = s.f.flags,
           setup.proto \in {"udp", "tcp"}, Barred(s.f.flags, s.f.state),
           "drop" \in s.f.flags => Known(s),
           setup.proto = "udp" /\ s.f.state = "setup" => s.f.flags = {},
           NEW in, in.expired /\ setup.proto = "tcp" => s.f.tcp_init,
           in.bind \in Binds, setup.proto = "tcp" => in.bind # "expected",
           in.marks \in SUBSET {"est", "svc"}
    PROVE  LET t == Goes(s, in) IN
           /\ t \in ThreadType /\ t.down = s.down /\ t.f.live /\ Begun(t.f)
           /\ t.f.state # "setup" /\ Barred(t.f.flags, t.f.state) /\ Barred(t.prev, t.f.state)
           /\ t.f.state = "inspect" /\ setup.proto = "tcp" => t.f.tcp_init
           /\ "drop" \in t.f.flags => Known(t) \/ "drop" \notin t.prev
           /\ setup.proto = "udp" =>
                 \/ ~(t.f.flags \subseteq t.prev)
                 \/ /\ t.out = s.out /\ t.prev = t.f.flags /\ t.f.flags = s.f.flags
                    /\ t.f.state = s.f.state /\ t.f.ha = s.f.ha /\ s.f.state # "setup"
<1> DEFINE ready == Bind(IF setup.proto = "tcp" THEN Expire(s, in) ELSE s, in.bind)
           started == IF setup.proto = "udp" THEN Expire(ready, in) ELSE ready
           marked == Marked(started, in.marks)
<1>0. Goes(s, in) = IF ready.f.state = "inspect" THEN marked ELSE ready
  BY DEF Goes
<1>1. /\ ready \in ThreadType /\ ready.down = s.down /\ ready.f.live /\ Begun(ready.f)
      /\ ready.f.state # "setup" /\ Barred(ready.f.flags, ready.f.state)
      /\ Barred(ready.prev, ready.f.state)
      /\ "drop" \in ready.f.flags => Known(ready) \/ "drop" \notin ready.prev
      /\ setup.proto = "udp" =>
            IF s.f.state = "setup"
            THEN ready.prev = {} /\ (ready.f.state # "inspect" => ready.f.flags # {})
            ELSE ready = s
  BY ReadyDoes, Zenon
<1> HIDE DEF ready
<1>2. CASE ready.f.state # "inspect"
  <2>1. Goes(s, in) = ready
    BY <1>0, <1>2
  <2> QED
    BY <1>1, <1>2, <2>1
<1>3. CASE ready.f.state = "inspect"
  <2>0. Goes(s, in) = marked
    BY <1>0, <1>3
  <2>1. /\ started \in ThreadType /\ started.down = s.down /\ started.f.live
        /\ started.f.state = "inspect"
        /\ "drop" \notin started.f.flags /\ "drop" \notin started.prev
        /\ setup.proto = "tcp" => started = ready
        /\ setup.proto = "udp" => started = ready \/ ("seen" \in started.f.flags /\ "seen" \notin started.prev)
    <3>0. "drop" \notin ready.f.flags /\ "drop" \notin ready.prev
      BY <1>1, <1>3 DEF Barred
    <3>1. CASE setup.proto = "udp" /\ in.expired
      <4>1. started = Deletion([Restart(ready) EXCEPT !.f.flags = @ \cup {"seen"}])
        BY <3>1 DEF Expire
      <4>2. /\ started \in ThreadType /\ started.down = ready.down /\ started.f.live = ready.f.live
            /\ started.prev = Kept(ready) /\ started.f.flags = Kept(ready) \cup {"seen"}
            /\ started.f.state = ready.f.state
        BY <1>1, <4>1, UdpExpires, ZenonT(30)
      <4> HIDE DEF started
      <4> QED
        BY <1>1, <1>3, <3>1, <4>2 DEF Kept
    <3>2. CASE ~(setup.proto = "udp" /\ in.expired)
      <4>1. started = ready
        BY <3>2 DEF Expire
      <4> HIDE DEF started
      <4> QED
        BY <1>1, <1>3, <3>0, <4>1
    <3> QED
      BY <3>1, <3>2
  <2> HIDE DEF started
  <2>2. /\ marked \in ThreadType /\ marked.down = started.down /\ marked.prev = started.prev
        /\ marked.out = started.out /\ marked.told = started.told
        /\ marked.f.live = started.f.live /\ marked.f.state = started.f.state
        /\ marked.f.ha = started.f.ha
        /\ marked.f.flags = started.f.flags \cup {"seen"} \cup in.marks
        /\ setup.proto = "tcp" => marked.f.tcp_init
    <3> DEFINE marks == in.marks
    <3>1. marks \in MarkSets
      BY DEF MarkSets
    <3>0. started \in ThreadType
      BY <2>1
    <3> HIDE DEF marks
    <3>2. LET t == Marked(started, marks) IN
          /\ t \in ThreadType /\ t.down = started.down /\ t.prev = started.prev
          /\ t.out = started.out /\ t.told = started.told
          /\ t.f.live = started.f.live /\ t.f.state = started.f.state /\ t.f.ha = started.f.ha
          /\ t.f.flags = started.f.flags \cup {"seen"} \cup marks
          /\ setup.proto = "tcp" => t.f.tcp_init
      BY ONLY <3>0, <3>1, Marks, Zenon
    <3> QED
      BY <3>2, Zenon DEF marks
  <2> HIDE DEF marked
  <2>3. "drop" \notin marked.f.flags /\ "drop" \notin marked.prev
    BY <2>1, <2>2
  <2>4. Begun(marked.f)
    BY <1>1, <2>1, <2>2 DEF Begun
  <2>5. setup.proto = "udp" =>
                 \/ ~(marked.f.flags \subseteq marked.prev)
                 \/ /\ marked.out = s.out /\ marked.prev = marked.f.flags
                    /\ marked.f.flags = s.f.flags
                    /\ marked.f.state = s.f.state /\ marked.f.ha = s.f.ha /\ s.f.state # "setup"
    <3>1. CASE setup.proto = "udp" /\ started = ready /\ s.f.state # "setup"
      <4>1. started = s
        BY <1>1, <3>1
      <4>2. s.f.flags \subseteq marked.f.flags /\ marked.prev = s.f.flags
        BY <2>2, <4>1
      <4>3. marked.f.flags \subseteq marked.prev => marked.f.flags = s.f.flags
        BY <4>2, SMTT(30)
      <4> QED
        BY <2>2, <3>1, <4>1, <4>2, <4>3, Zenon
    <3>2. CASE setup.proto = "udp" /\ started = ready /\ s.f.state = "setup"
      BY <1>1, <2>2, <3>2
    <3>3. CASE setup.proto = "udp" /\ started # ready
      BY <2>1, <2>2, <3>3
    <3> QED
      BY <3>1, <3>2, <3>3
  <2> QED
    BY <2>0, <2>1, <2>2, <2>3, <2>4, <2>5 DEF Barred
<1> QED
  BY <1>2, <1>3

(* Processing a packet keeps the thread good.                              *)
LEMMA ProcessDoes ==
    ASSUME NEW s, Good(s), NEW in, InputOK(s, in), setup.proto \in {"udp", "tcp"}
    PROVE  Processed(s, Process(s, in))
<1> DEFINE b == Found(s, in)
           t == Goes(b, in)
<1>1. /\ b \in ThreadType /\ b.down = s.down /\ b.f.live /\ Begun(b.f) /\ b.prev = b.f.flags
      /\ Barred(b.f.flags, b.f.state)
      /\ "drop" \in b.f.flags => Known(b)
      /\ in.expired /\ setup.proto = "tcp" => b.f.tcp_init
      /\ IF s.f.live THEN b.f = s.f /\ b.out = s.out ELSE b.f.flags = {} /\ b.f.state = "setup"
  BY FoundDoes
<1> HIDE DEF b
<1>2. setup.proto = "udp" /\ s.f.live => s.f.state # "setup"
  BY DEF Good, FlowOK
<1>3. in.bind \in Binds /\ (setup.proto = "tcp" => in.bind # "expected")
      /\ in.marks \in SUBSET {"est", "svc"}
  BY Zenon DEF InputOK
<1>4. setup.proto = "udp" /\ b.f.state = "setup" => b.f.flags = {}
  BY <1>1, <1>2
<1>5. /\ t \in ThreadType /\ t.down = b.down /\ t.f.live /\ Begun(t.f)
      /\ t.f.state # "setup" /\ Barred(t.f.flags, t.f.state) /\ Barred(t.prev, t.f.state)
      /\ t.f.state = "inspect" /\ setup.proto = "tcp" => t.f.tcp_init
      /\ "drop" \in t.f.flags => Known(t) \/ "drop" \notin t.prev
      /\ setup.proto = "udp" =>
            \/ ~(t.f.flags \subseteq t.prev)
            \/ /\ t.out = b.out /\ t.prev = t.f.flags /\ t.f.flags = b.f.flags
               /\ t.f.state = b.f.state /\ t.f.ha = b.f.ha /\ b.f.state # "setup"
  BY <1>1, <1>3, <1>4, GoesDoes
<1>6. Process(s, in) = t
  BY ProcessGoes DEF b
<1> HIDE DEF t
<1>7. setup.proto = "udp" =>
          \/ ~(t.f.flags \subseteq t.prev)
          \/ /\ s.f.live /\ t.out = s.out /\ t.prev = t.f.flags /\ t.f.flags = s.f.flags
             /\ t.f.state = s.f.state /\ t.f.ha = s.f.ha
  BY <1>1, <1>5
<1> QED
  BY <1>1, <1>5, <1>6, <1>7, Zenon DEF Processed

(* Another state and more flags, as a verdict sets them.                   *)
Put(s, state, more) == [s EXCEPT !.f.state = state, !.f.flags = @ \cup more]

(* Sets of flags.                                                          *)
FlagSets == SUBSET Flags

(* What that changes.                                                      *)
HasPut(t, s, state, more) ==
    /\ t \in ThreadType /\ t.down = s.down /\ t.prev = s.prev /\ t.out = s.out
    /\ t.told = s.told
    /\ t.f.live = s.f.live /\ t.f.ha = s.f.ha /\ t.f.tcp_init = s.f.tcp_init
    /\ t.f.expire = s.f.expire /\ t.f.state = state /\ t.f.flags = s.f.flags \cup more

(* It changes no more.                                                     *)
LEMMA WithState ==
    ASSUME NEW s \in ThreadType, NEW state \in FlowStates, NEW more \in FlagSets
    PROVE  HasPut(Put(s, state, more), s, state, more)
<1> DEFINE flags == s.f.flags \cup more
           f == [s.f EXCEPT !.state = state, !.flags = flags]
<1>1. s.f \in FlowType
  BY DEF ThreadType
<1>2. flags \in SUBSET Flags
  BY <1>1 DEF FlowType, FlagSets
<1>3. Put(s, state, more) = [s EXCEPT !.f = f]
  BY <1>1, Zenon DEF ThreadType, FlowType, Put
<1> HIDE DEF flags
<1>4. f \in FlowType
  BY <1>1, <1>2, Zenon DEF FlowType
<1>5. /\ f.live = s.f.live /\ f.ha = s.f.ha /\ f.tcp_init = s.f.tcp_init
      /\ f.expire = s.f.expire /\ f.state = state /\ f.flags = flags
  BY <1>1 DEF FlowType
<1> HIDE DEF f
<1>6. LET t == [s EXCEPT !.f = f] IN
      /\ t \in ThreadType /\ t.f = f /\ t.prev = s.prev /\ t.out = s.out
      /\ t.told = s.told /\ t.down = s.down
  BY <1>4, WithFlow
<1> QED
  BY <1>3, <1>5, <1>6, Zenon DEF flags, HasPut

(* A flow that is blocked after it was processed has been handled.         *)
LEMMA BlockDoes ==
    ASSUME NEW s, NEW t, Processed(s, t), t.f.state \in {"inspect", "allow"},
           setup.proto \in {"udp", "tcp"}, NEW state \in {"block", "reset"}, NEW stateless,
           stateless => t.f.state = "inspect"
    PROVE  Handled(s, Blocked(t, state, stateless))
<1> DEFINE c == SessionClear(t)
           more == IF stateless THEN {} ELSE {"drop"}
           r == Put(c, state, more)
<1>1. /\ t \in ThreadType /\ t.down = s.down /\ t.f.live /\ Begun(t.f)
      /\ (t.f.state = "inspect" => t.f.tcp_init \/ setup.proto # "tcp")
      /\ "drop" \notin t.prev /\ "drop" \notin t.f.flags
  BY DEF Processed, Barred
<1>2. /\ c \in ThreadType /\ c.down = s.down /\ c.f.live
      /\ c.f.ha = t.f.ha \/ c.f.ha = t.f.ha \cup {"DELETED"}
      /\ IF t.f.tcp_init \/ setup.proto # "tcp"
         THEN c.prev = Kept(t) /\ c.f.flags = Kept(t) /\ ~c.f.expire
         ELSE c.prev = t.prev /\ c.f.flags = t.f.flags /\ c.f.expire = t.f.expire
  BY <1>1, SessionClearDoes
<1>3. Blocked(t, state, stateless) = r
  BY DEF Blocked, Put
<1> HIDE DEF c
<1>4. state \in FlowStates /\ more \in FlagSets
  BY DEF FlowStates, Flags, FlagSets
<1>5. /\ r \in ThreadType /\ r.down = c.down /\ r.prev = c.prev
      /\ r.f.live = c.f.live /\ r.f.ha = c.f.ha
      /\ r.f.expire = c.f.expire /\ r.f.state = state /\ r.f.flags = c.f.flags \cup more
  <2> HIDE DEF more
  <2>1. c \in ThreadType
    BY <1>2
  <2>2. HasPut(r, c, state, more)
    BY <1>4, <2>1, WithState, Zenon
  <2> QED
    BY <2>2, Zenon DEF HasPut
<1> HIDE DEF r
<1>6. "drop" \notin r.prev /\ "drop" \notin c.f.flags
  BY <1>1, <1>2, <1>5 DEF Kept
<1>7. Begun(r.f)
  BY <1>1, <1>2, <1>5 DEF Begun
<1>8. setup.proto = "udp" => r.prev # r.f.flags \/ Cleared(r.f)
  <2>1. CASE ~stateless
    BY <1>5, <1>6, <2>1
  <2>2. CASE stateless /\ setup.proto = "udp"
    <3>1. r.f.flags \subseteq {"svc"}
      BY <1>2, <1>5, <2>2 DEF Kept
    <3> QED
      BY <3>1 DEF Cleared, Own
  <2> QED
    BY <2>1, <2>2
<1> QED
  BY <1>2, <1>3, <1>5, <1>6, <1>7, <1>8 DEF Handled, Barred

(* A verdict that only adds to the flow, or changes its state.             *)
LEMMA VerdictDoes ==
    ASSUME NEW s, NEW t, Processed(s, t), t.f.state \in {"inspect", "allow"},
           NEW state \in {"inspect", "allow", "reset"}, state = t.f.state \/ state # "inspect",
           NEW more \in {{}, {"ign"}}
    PROVE  Handled(s, Put(t, state, more))
<1> DEFINE r == Put(t, state, more)
<1>1. /\ t \in ThreadType /\ t.down = s.down /\ t.f.live /\ Begun(t.f)
      /\ "drop" \notin t.prev /\ "drop" \notin t.f.flags
      /\ setup.proto = "udp" =>
          \/ ~(t.f.flags \subseteq t.prev)
          \/ /\ s.f.live /\ t.out = s.out /\ t.prev = t.f.flags /\ t.f.flags = s.f.flags
             /\ t.f.state = s.f.state /\ t.f.ha = s.f.ha
  BY DEF Processed, Barred
<1>2. state \in FlowStates /\ more \in FlagSets
  BY DEF FlowStates, Flags, FlagSets
<1>3. /\ r \in ThreadType /\ r.down = t.down /\ r.prev = t.prev /\ r.out = t.out
      /\ r.f.live = t.f.live /\ r.f.ha = t.f.ha /\ r.f.tcp_init = t.f.tcp_init
      /\ r.f.expire = t.f.expire /\ r.f.state = state /\ r.f.flags = t.f.flags \cup more
  <2>1. t \in ThreadType
    BY <1>1
  <2>2. HasPut(r, t, state, more)
    BY <1>2, <2>1, WithState, Zenon
  <2> QED
    BY <2>2, Zenon DEF HasPut
<1> HIDE DEF r
<1>4. "drop" \notin r.f.flags
  BY <1>1, <1>3
<1>5. Begun(r.f)
  BY <1>1, <1>3 DEF Begun
<1>6. setup.proto = "udp" =>
          \/ r.prev # r.f.flags
          \/ s.f.live /\ r.out = s.out /\ Follows(s.f, r.f) /\ r.f.ha = s.f.ha
  <2>1. SUFFICES ASSUME setup.proto = "udp", r.prev = r.f.flags
                 PROVE  s.f.live /\ r.out = s.out /\ Follows(s.f, r.f) /\ r.f.ha = s.f.ha
    OBVIOUS
  <2>2. t.f.flags \subseteq t.prev
    BY <1>3, <2>1
  <2>3. r.f.flags = s.f.flags /\ s.f.live /\ r.out = s.out /\ r.f.ha = s.f.ha
        /\ t.f.state = s.f.state
    BY <1>1, <1>3, <2>1, <2>2
  <2>4. r.f.state = s.f.state \/ Untold(r.f)
    BY <1>3, <1>4, <2>3 DEF Untold
  <2> QED
    BY <2>3, <2>4 DEF Follows
<1>7. Handled(s, r)
  BY <1>1, <1>3, <1>4, <1>5, <1>6 DEF Handled, Barred
<1> QED
  BY <1>7 DEF r

(* The verdict on a packet.                                                *)
LEMMA FinishDoes ==
    ASSUME NEW s, NEW t, Processed(s, t), setup.proto \in {"udp", "tcp"},
           NEW end \in Verdicts, NEW stateless
    PROVE  Handled(s, Finish(t, end, stateless))
<1>1. t \in ThreadType /\ t.down = s.down /\ t.f.state \in {"inspect", "allow", "block", "reset"}
  BY DEF Processed, ThreadType, FlowType, FlowStates
<1>2. Handled(s, t)
  <2>1. setup.proto = "udp" =>
                \/ t.prev # t.f.flags
                \/ s.f.live /\ t.out = s.out /\ Follows(s.f, t.f) /\ t.f.ha = s.f.ha
    BY DEF Processed, Follows
  <2> QED
    BY <2>1, Zenon DEF Processed, Handled
<1>3. CASE \/ t.f.state \in {"block", "reset"} \/ end = "drop"
           \/ t.f.state = "allow" /\ end \notin {"pass", "drop", "allow", "block"}
  <2>1. Finish(t, end, stateless) = t
    BY <1>3 DEF Finish
  <2> QED
    BY <1>2, <2>1
<1>4. ASSUME NEW x \in ThreadType, x.down = s.down
      PROVE  Handled(s, Release(x))
  <2>1. Release(x) \in ThreadType /\ Release(x).f = NoFlow /\ Release(x).down = s.down
    BY <1>4, ReleaseDoes
  <2>2. ~NoFlow.live
    BY DEF NoFlow
  <2> QED
    BY <2>1, <2>2 DEF Handled
<1>5. CASE t.f.state \in {"inspect", "allow"} /\ end \in {"pass", "allow"}
  <2> DEFINE state == IF end = "pass" THEN t.f.state ELSE "allow"
             more == IF end = "pass" /\ t.f.state = "allow" THEN {"ign"} ELSE {}
  <2>1. state \in {"inspect", "allow", "reset"} /\ (state = t.f.state \/ state # "inspect")
        /\ more \in {{}, {"ign"}}
    BY <1>5
  <2>2. \/ Finish(t, end, stateless) = t
        \/ Finish(t, end, stateless) = Put(t, state, more)
    <3>0. t.f \in FlowType
      BY <1>1 DEF ThreadType
    <3>1. CASE end = "pass" /\ t.f.state = "allow"
      <4>1. Finish(t, end, stateless) = [t EXCEPT !.f.flags = @ \cup {"ign"}]
        BY <3>1 DEF Finish
      <4>2. [t EXCEPT !.f.flags = @ \cup {"ign"}]
              = Put(t, "allow", {"ign"})
        BY <1>1, <3>0, <3>1, Zenon DEF ThreadType, FlowType, Put
      <4> QED
        BY <3>1, <4>1, <4>2
    <3>2. CASE end = "pass" /\ t.f.state = "inspect"
      BY <3>2 DEF Finish
    <3>3. CASE end = "allow"
      <4>1. Finish(t, end, stateless) = [t EXCEPT !.f.state = "allow"]
        BY <1>5, <3>3 DEF Finish
      <4>2. [t EXCEPT !.f.state = "allow"] = Put(t, "allow", {})
        <5>1. t.f.flags \cup {} = t.f.flags
          OBVIOUS
        <5> QED
          BY <1>1, <3>0, <5>1, Zenon DEF ThreadType, FlowType, Put
      <4> QED
        BY <3>3, <4>1, <4>2
    <3> QED
      BY <1>5, <3>1, <3>2, <3>3
  <2> HIDE DEF state, more
  <2> QED
    BY <1>2, <1>5, <2>1, <2>2, VerdictDoes
<1>6. CASE t.f.state \in {"inspect", "allow"} /\ end = "block"
  <2> DEFINE b == stateless /\ t.f.state = "inspect"
  <2>1. Finish(t, end, stateless) = Blocked(t, "block", b)
    BY <1>6 DEF Finish
  <2>2. b => t.f.state = "inspect"
    OBVIOUS
  <2> HIDE DEF b
  <2> QED
    BY <1>6, <2>1, <2>2, BlockDoes
<1>7. CASE t.f.state = "inspect" /\ end = "reset"
  <2>1. Finish(t, end, stateless) = Blocked(t, "reset", stateless)
    BY <1>7 DEF Finish
  <2> QED
    BY <1>7, <2>1, BlockDoes
<1>8. CASE t.f.state = "inspect" /\ end \in {"reject", "ignore"}
  <2> DEFINE state == IF end = "reject" THEN "reset" ELSE "allow"
             more == IF end = "reject" THEN {} ELSE {"ign"}
  <2>1. state \in {"inspect", "allow", "reset"} /\ (state = t.f.state \/ state # "inspect")
        /\ more \in {{}, {"ign"}}
    BY <1>8
  <2>2. Finish(t, end, stateless) = Put(t, state, more)
    <3>0. t.f \in FlowType
      BY <1>1 DEF ThreadType
    <3>1. CASE end = "reject"
      <4>1. Finish(t, end, stateless) = [t EXCEPT !.f.state = "reset"]
        BY <1>8, <3>1 DEF Finish
      <4>2. [t EXCEPT !.f.state = "reset"] = Put(t, "reset", {})
        <5>1. t.f.flags \cup {} = t.f.flags
          OBVIOUS
        <5> QED
          BY <1>1, <3>0, <5>1, Zenon DEF ThreadType, FlowType, Put
      <4> QED
        BY <3>1, <4>1, <4>2
    <3>2. CASE end = "ignore"
      BY <1>8, <3>2 DEF Finish, Put
    <3> QED
      BY <1>8, <3>1, <3>2
  <2> HIDE DEF state, more
  <2> QED
    BY <1>8, <2>1, <2>2, VerdictDoes
<1>9. CASE t.f.state = "inspect" /\ end = "rst"
  BY <1>1, <1>4, <1>9 DEF Finish
<1>10. CASE t.f.state = "inspect" /\ end = "closed"
  <2>1. TcpClearSession(t) \in ThreadType /\ TcpClearSession(t).down = s.down
    BY <1>1, TcpClearDoes
  <2>2. Deletion(TcpClearSession(t)) \in ThreadType /\ Deletion(TcpClearSession(t)).down = s.down
    BY <2>1, DeletionDoes
  <2> QED
    BY <1>4, <1>10, <2>2 DEF Finish
<1> QED
  BY <1>1, <1>3, <1>5, <1>6, <1>7, <1>8, <1>9, <1>10 DEF Verdicts

(* The HA states update_flags() leaves.                                    *)
Diff(s) == (s.prev \ s.f.flags) \cup (s.f.flags \ s.prev)

(* The pending marks after a comparison.                                   *)
MarksOf(s) ==
    IF "NEW_SESSION" \in s.f.ha
    THEN (s.f.ha \ {"NEW_SESSION"}) \cup {"MODIFIED"}
         \cup (IF setup.proto = "tcp" THEN {} ELSE {"MAJOR"})
    ELSE s.f.ha \cup (IF Diff(s) = {} THEN {} ELSE {"MODIFIED"})
         \cup (IF setup.proto = "tcp" /\ "est" \in Diff(s) THEN {"MAJOR"} ELSE {})
         \cup (IF "drop" \in Diff(s) \/ "ign" \in Diff(s) \cap s.f.flags
               THEN {"CRITICAL"} ELSE {})

(* The state of high availability after it.                                *)
UpdatedHa(s) ==
    IF "STANDBY" \in MarksOf(s) THEN (MarksOf(s) \ {"STANDBY"}) \cup {"MODIFIED", "MAJOR"}
    ELSE MarksOf(s)

(* Which marks there are then.                                             *)
LEMMA UpdatedHaDoes ==
    ASSUME NEW s, s.f.ha \subseteq HaStates
    PROVE  LET M == UpdatedHa(s) IN
           /\ M \subseteq HaStates /\ "STANDBY" \notin M /\ "NEW_SESSION" \notin M
           /\ s.f.ha \cap {"NEW", "MODIFIED", "MAJOR"} \subseteq M
           /\ \/ "MODIFIED" \in M
              \/ M = s.f.ha /\ s.prev = s.f.flags
           /\ "NEW_SESSION" \in s.f.ha /\ (setup.proto # "tcp" \/ "STANDBY" \in s.f.ha) =>
                 {"MODIFIED", "MAJOR"} \subseteq M
           /\ "NEW_SESSION" \notin s.f.ha /\ "drop" \in s.f.flags /\ "drop" \notin s.prev =>
                 {"MODIFIED", "CRITICAL"} \subseteq M
<1> DEFINE m == MarksOf(s)
<1>1. /\ m \subseteq HaStates /\ "NEW_SESSION" \notin m
      /\ s.f.ha \ {"NEW_SESSION"} \subseteq m /\ m \ {"MODIFIED", "MAJOR", "CRITICAL"} \subseteq s.f.ha
  BY DEF MarksOf, HaStates
<1>2. "MODIFIED" \in m \/ (m = s.f.ha /\ Diff(s) = {})
  BY DEF MarksOf, Diff
<1>3. "NEW_SESSION" \in s.f.ha /\ setup.proto # "tcp" => {"MODIFIED", "MAJOR"} \subseteq m
  BY DEF MarksOf
<1>4. "NEW_SESSION" \notin s.f.ha /\ "drop" \in s.f.flags /\ "drop" \notin s.prev =>
          {"MODIFIED", "CRITICAL"} \subseteq m
  <2>1. SUFFICES ASSUME "NEW_SESSION" \notin s.f.ha, "drop" \in s.f.flags, "drop" \notin s.prev
                 PROVE  {"MODIFIED", "CRITICAL"} \subseteq m
    OBVIOUS
  <2>2. "drop" \in Diff(s)
    BY <2>1 DEF Diff
  <2> QED
    BY <2>1, <2>2 DEF MarksOf
<1>5. UpdatedHa(s) = IF "STANDBY" \in m THEN (m \ {"STANDBY"}) \cup {"MODIFIED", "MAJOR"} ELSE m
  BY DEF UpdatedHa
<1>6. Diff(s) = {} => s.prev \subseteq s.f.flags /\ s.f.flags \subseteq s.prev
  BY DEF Diff
<1> HIDE DEF m
<1> QED
  BY <1>1, <1>2, <1>3, <1>4, <1>5, <1>6 DEF HaStates

(* What update_flags() leaves: a critical change is marked.                *)
LEMMA UpdateFlagsDoes ==
    ASSUME NEW s \in ThreadType
    PROVE  LET u == UpdateFlags(s) IN
           /\ u \in ThreadType /\ u.prev = s.prev /\ u.out = s.out /\ u.told = s.told /\ u.down = s.down
           /\ u.f.live = s.f.live /\ u.f.flags = s.f.flags /\ u.f.state = s.f.state
           /\ u.f.tcp_init = s.f.tcp_init /\ u.f.expire = s.f.expire
           /\ u.f.ha = UpdatedHa(s)
<1> DEFINE f == [s.f EXCEPT !.ha = UpdatedHa(s)]
<1>1. s.f \in FlowType /\ s.f.ha \subseteq HaStates
  BY DEF ThreadType, FlowType
<1>2. UpdatedHa(s) \in SUBSET HaStates
  BY <1>1, UpdatedHaDoes
<1>3. f \in FlowType
  BY <1>1, <1>2, Zenon DEF FlowType
<1>4. /\ f.live = s.f.live /\ f.flags = s.f.flags /\ f.state = s.f.state
      /\ f.tcp_init = s.f.tcp_init /\ f.expire = s.f.expire /\ f.ha = UpdatedHa(s)
  BY <1>1 DEF FlowType
<1>5. HaAny(s, {"NEW_SESSION"}) <=> "NEW_SESSION" \in s.f.ha
  BY DEF HaAny
<1>6. UpdateFlags(s) = [s EXCEPT !.f.ha = UpdatedHa(s)]
  BY <1>5 DEF UpdateFlags, UpdatedHa, MarksOf, Diff
<1>7. [s EXCEPT !.f.ha = UpdatedHa(s)] = [s EXCEPT !.f = f]
  BY Zenon DEF ThreadType
<1> HIDE DEF f
<1>8. LET u == [s EXCEPT !.f = f] IN
      /\ u \in ThreadType /\ u.f = f /\ u.prev = s.prev /\ u.out = s.out /\ u.told = s.told
      /\ u.down = s.down
  BY <1>3, WithFlow
<1> QED
  BY <1>4, <1>6, <1>7, <1>8, Zenon

(* The flow after process_update(): it is active, and either something is  *)
(* still to be sent, or the last message sent is its state, or it is as    *)
(* it was before the packet.                                               *)
Reported(s, u) ==
    /\ Good(u) /\ u.down = s.down
    /\ u.f.live => "STANDBY" \notin u.f.ha
    /\ setup.proto = "udp" /\ u.f.live =>
          \/ "MODIFIED" \in u.f.ha
          \/ u.out # <<>> /\ u.out[Len(u.out)] = Update(u.f.flags, u.f.state)
          \/ Cleared(u.f)
          \/ s.f.live /\ u.out = s.out /\ Follows(s.f, u.f) /\ u.f.ha = s.f.ha

(* A message is sent: what Sends(u) leaves.                                *)
Sends(u) == [u EXCEPT !.f.ha = @ \ {"NEW", "MODIFIED", "MAJOR", "CRITICAL"},
                      !.out = Append(@, Update(u.f.flags, u.f.state)),
                      !.told = "drop" \in u.f.flags]

(* What an update message leaves: the peer knows the flow as it is.        *)
LEMMA SendsDoes ==
    ASSUME NEW u \in ThreadType, u.f.state # "setup", Barred(u.f.flags, u.f.state)
    PROVE  LET t == Sends(u) IN
           /\ t \in ThreadType /\ t.down = u.down /\ ("drop" \in u.f.flags => t.told)
           /\ t.f.live = u.f.live /\ t.f.flags = u.f.flags /\ t.f.state = u.f.state
           /\ t.f.tcp_init = u.f.tcp_init /\ t.f.expire = u.f.expire /\ t.f.ha \subseteq u.f.ha
           /\ t.out # <<>> /\ t.out[Len(t.out)] = Update(u.f.flags, u.f.state)
<1> DEFINE h == u.f.ha \ {"NEW", "MODIFIED", "MAJOR", "CRITICAL"}
           f == [u.f EXCEPT !.ha = h]
           msg == Update(u.f.flags, u.f.state)
           out == Append(u.out, msg)
           b == "drop" \in u.f.flags
           v == [u EXCEPT !.f = f]
<1>1. u.f \in FlowType /\ u.out \in Seq(Sent)
  BY DEF ThreadType
<1>2. h \in SUBSET HaStates /\ h \subseteq u.f.ha /\ u.f.flags \in SUBSET Flags /\ u.f.state \in FlowStates
  BY <1>1 DEF FlowType
<1>3. msg \in Sent
  BY <1>2 DEF Update, Sent, Messages, Barred
<1>4. Sends(u) = [v EXCEPT !.out = out, !.told = b]
  BY DEF Sends, ThreadType
<1> HIDE DEF h, msg
<1>5. f \in FlowType
  BY <1>1, <1>2, Zenon DEF FlowType
<1>6. /\ f.live = u.f.live /\ f.flags = u.f.flags /\ f.state = u.f.state
      /\ f.tcp_init = u.f.tcp_init /\ f.expire = u.f.expire /\ f.ha = h
  BY <1>1 DEF FlowType
<1>7. out \in Seq(Sent) /\ out # <<>> /\ out[Len(out)] = msg
  BY <1>1, <1>3
<1>8. b \in BOOLEAN
  OBVIOUS
<1> HIDE DEF f
<1>9. v \in ThreadType /\ v.f = f /\ v.down = u.down
  BY <1>5, WithFlow
<1> HIDE DEF v, out, b
<1>10. LET t == [v EXCEPT !.out = out, !.told = b] IN
       t \in ThreadType /\ t.f = v.f /\ t.down = v.down /\ t.out = out /\ t.told = b
  BY <1>7, <1>8, <1>9, Zenon DEF ThreadType
<1>11. "drop" \in u.f.flags => b
  BY DEF b
<1> HIDE DEF Sends
<1> QED
  BY <1>2, <1>4, <1>6, <1>7, <1>9, <1>10, <1>11, Zenon DEF msg

(* No flow is a good one.                                                  *)
LEMMA NoFlowOK == FlowOK(NoFlow)
<1>1. ~NoFlow.live /\ ~NoFlow.expire /\ NoFlow.ha = {}
  BY DEF NoFlow
<1>2. NoFlow.flags = {}
  BY DEF NoFlow
<1> QED
  BY <1>1, <1>2 DEF FlowOK, Begun, Barred

(* process_update().                                                       *)
LEMMA ProcessUpdateDoes ==
    ASSUME NEW s, NEW t, Handled(s, t), NEW elapsed, setup.proto \in {"udp", "tcp"}
    PROVE  Reported(s, ProcessUpdate(t, elapsed))
<1>1. t \in ThreadType /\ t.down = s.down
  BY DEF Handled
<1>2. CASE ~t.f.live
  <2>1. ProcessUpdate(t, elapsed) = t
    BY <1>2 DEF ProcessUpdate
  <2>2. Good(t)
    BY <1>1, <1>2, NoFlowOK DEF Good, Handled
  <2> QED
    BY <1>1, <1>2, <2>1, <2>2 DEF Reported
<1>3. CASE t.f.live
  <2> DEFINE u == UpdateFlags(t)
             M == UpdatedHa(t)
  <2>1. /\ u \in ThreadType /\ u.out = t.out /\ u.told = t.told /\ u.down = t.down
        /\ u.f.live = t.f.live /\ u.f.flags = t.f.flags /\ u.f.state = t.f.state
        /\ u.f.tcp_init = t.f.tcp_init /\ u.f.expire = t.f.expire /\ u.f.ha = M
    BY <1>1, UpdateFlagsDoes
  <2> HIDE DEF u
  <2>2. t.f.ha \subseteq HaStates
    BY <1>1 DEF ThreadType, FlowType
  <2>3. /\ "STANDBY" \notin M /\ "NEW_SESSION" \notin M
        /\ t.f.ha \cap {"NEW", "MODIFIED", "MAJOR"} \subseteq M
        /\ \/ "MODIFIED" \in M
           \/ M = t.f.ha /\ t.prev = t.f.flags
        /\ "NEW_SESSION" \in t.f.ha /\ (setup.proto # "tcp" \/ "STANDBY" \in t.f.ha) =>
              {"MODIFIED", "MAJOR"} \subseteq M
        /\ "NEW_SESSION" \notin t.f.ha /\ "drop" \in t.f.flags /\ "drop" \notin t.prev =>
              {"MODIFIED", "CRITICAL"} \subseteq M
    BY <2>2, UpdatedHaDoes
  <2> HIDE DEF M
  <2>4. /\ Begun(t.f) /\ t.f.state # "setup" /\ Barred(t.f.flags, t.f.state)
        /\ "drop" \in t.f.flags => Known(t) \/ "drop" \notin t.prev
        /\ setup.proto = "udp" =>
              \/ t.prev # t.f.flags \/ Cleared(t.f)
              \/ s.f.live /\ t.out = s.out /\ Follows(s.f, t.f) /\ t.f.ha = s.f.ha
    BY <1>3 DEF Handled
  <2>5. ASSUME NEW w \in ThreadType, w.f.live, w.f.state = t.f.state, w.f.expire = t.f.expire,
               w.f.flags = t.f.flags,
               w.f.tcp_init = t.f.tcp_init, w.f.ha \subseteq M
        PROVE  FlowOK(w.f) /\ "STANDBY" \notin w.f.ha
    BY <2>3, <2>4, <2>5 DEF FlowOK, Begun
  <2>6. CASE IsUpdateRequired(u, elapsed)
    <3> DEFINE w == Sends(u)
    <3>1. /\ w \in ThreadType /\ w.down = u.down /\ ("drop" \in u.f.flags => w.told)
          /\ w.f.live = u.f.live /\ w.f.flags = u.f.flags /\ w.f.state = u.f.state
          /\ w.f.tcp_init = u.f.tcp_init /\ w.f.expire = u.f.expire /\ w.f.ha \subseteq u.f.ha
          /\ w.out # <<>> /\ w.out[Len(w.out)] = Update(u.f.flags, u.f.state)
      BY <2>1, <2>4, SendsDoes
    <3>2. ProcessUpdate(t, elapsed) = w
      BY <1>3, <2>6 DEF ProcessUpdate, Sends, u
    <3> HIDE DEF w
    <3>3. FlowOK(w.f) /\ "STANDBY" \notin w.f.ha
      BY <1>3, <2>1, <2>5, <3>1, Zenon
    <3>4. Good(w)
      BY <3>1, <3>3 DEF Good, Known
    <3> QED
      BY <1>1, <2>1, <3>1, <3>2, <3>3, <3>4 DEF Reported
  <2>7. CASE ~IsUpdateRequired(u, elapsed)
    <3>1. ProcessUpdate(t, elapsed) = u
      BY <1>3, <2>7 DEF ProcessUpdate, u
    <3>2. FlowOK(u.f) /\ "STANDBY" \notin u.f.ha
      BY <1>3, <2>1, <2>5, Zenon
    <3>3. ~({"MODIFIED", "CRITICAL"} \subseteq M)
      BY <2>1, <2>7 DEF IsUpdateRequired, HaAny
    <3>4. ASSUME "drop" \in u.f.flags
          PROVE  Known(u)
      <4>1. CASE Known(t)
        BY <2>1, <2>3, <4>1 DEF Known
      <4>2. CASE ~Known(t)
        <5>1. "NEW_SESSION" \in t.f.ha
          BY <2>1, <2>3, <2>4, <3>3, <3>4, <4>2
        <5>2. setup.proto # "tcp" \/ "STANDBY" \in t.f.ha
          BY <2>4, <4>2, <5>1 DEF Begun, Known
        <5>3. {"MODIFIED", "MAJOR"} \subseteq u.f.ha
          BY <2>1, <2>3, <5>1, <5>2
        <5> QED
          BY <5>3 DEF Known
      <4> QED
        BY <4>1, <4>2
    <3>5. Good(u)
      BY <2>1, <3>2, <3>4 DEF Good
    <3>6. setup.proto = "udp" =>
             \/ "MODIFIED" \in u.f.ha \/ Cleared(u.f)
             \/ s.f.live /\ u.out = s.out /\ Follows(s.f, u.f) /\ u.f.ha = s.f.ha
      BY <2>1, <2>3, <2>4 DEF Cleared, Follows, Untold
    <3> QED
      BY <1>1, <2>1, <3>1, <3>2, <3>5, <3>6 DEF Reported
  <2> QED
    BY <2>6, <2>7
<1> QED
  BY <1>2, <1>3

(* Standby is entered.                                                     *)
LEMMA HaDoes ==
    ASSUME NEW s \in ThreadType, NEW h \in SUBSET HaStates
    PROVE  LET t == [s EXCEPT !.f.ha = h] IN
           /\ t \in ThreadType /\ t.prev = s.prev /\ t.out = s.out /\ t.told = s.told /\ t.down = s.down
           /\ t.f.live = s.f.live /\ t.f.flags = s.f.flags /\ t.f.state = s.f.state
           /\ t.f.tcp_init = s.f.tcp_init /\ t.f.expire = s.f.expire /\ t.f.ha = h
<1> DEFINE f == [s.f EXCEPT !.ha = h]
<1>1. s.f \in FlowType
  BY DEF ThreadType
<1>2. f \in FlowType
  BY <1>1, Zenon DEF FlowType
<1>3. /\ f.live = s.f.live /\ f.flags = s.f.flags /\ f.state = s.f.state
      /\ f.tcp_init = s.f.tcp_init /\ f.expire = s.f.expire /\ f.ha = h
  BY <1>1 DEF FlowType
<1>4. [s EXCEPT !.f.ha = h] = [s EXCEPT !.f = f]
  BY Zenon DEF ThreadType
<1> HIDE DEF f
<1>5. LET t == [s EXCEPT !.f = f] IN
      /\ t \in ThreadType /\ t.f = f /\ t.prev = s.prev /\ t.out = s.out /\ t.told = s.told
      /\ t.down = s.down
  BY <1>2, WithFlow
<1> QED
  BY <1>3, <1>4, <1>5, Zenon

(* The flow an update of the partner finds or creates, with its state.     *)
Got(s, object) ==
    IF s.f.live THEN s ELSE [Take(s, object) EXCEPT !.f.ha = @ \ {"NEW"}]

(* The flow after an update message has been consumed.                     *)
Copied(s, msg) == [s EXCEPT !.f.flags = msg.flags, !.f.state = msg.state,
                            !.told = "drop" \in msg.flags]

(* A flow that is created for a message.                                   *)
LEMMA GotDoes ==
    ASSUME NEW s, Good(s), NEW object \in Objects
    PROVE  LET t == Got(s, object) IN
           /\ t \in ThreadType /\ t.down = s.down /\ t.f.live
           /\ setup.proto = "tcp" => (t.f.expire => t.f.tcp_init)
<1>1. s \in ThreadType
  BY DEF Good
<1>2. CASE s.f.live
  BY <1>1, <1>2 DEF Got, Good, FlowOK, Begun
<1>3. CASE ~s.f.live
  <2> DEFINE g == Take(s, object)
             h == g.f.ha \ {"NEW"}
  <2>1. g \in ThreadType /\ g.down = s.down /\ g.f.live /\ ~g.f.expire
        /\ (g.f.ha = {} \/ g.f.ha = {"NEW", "NEW_SESSION"})
    BY <1>1, TakeDoes
  <2> HIDE DEF g
  <2>2. h \in SUBSET HaStates
    BY <2>1 DEF HaStates
  <2>3. Got(s, object) = [g EXCEPT !.f.ha = h]
    BY <1>3, <2>1 DEF Got, g, ThreadType
  <2> HIDE DEF h
  <2>4. LET t == [g EXCEPT !.f.ha = h] IN
        t \in ThreadType /\ t.down = g.down /\ t.f.live = g.f.live /\ t.f.expire = g.f.expire
    BY <2>1, <2>2, HaDoes, Zenon
  <2> QED
    BY <2>1, <2>3, <2>4, Zenon
<1> QED
  BY <1>2, <1>3

(* A flow that is overwritten by one.                                      *)
LEMMA CopiedDoes ==
    ASSUME NEW s \in ThreadType, NEW msg \in Sent
    PROVE  LET t == Copied(s, msg) IN
           /\ t \in ThreadType /\ t.down = s.down /\ ("drop" \in msg.flags => t.told)
           /\ t.f.live = s.f.live /\ t.f.flags = msg.flags /\ t.f.state = msg.state
           /\ t.f.tcp_init = s.f.tcp_init /\ t.f.expire = s.f.expire /\ t.f.ha = s.f.ha
<1> DEFINE f == [s.f EXCEPT !.flags = msg.flags, !.state = msg.state]
           b == "drop" \in msg.flags
           v == [s EXCEPT !.f = f]
<1>1. s.f \in FlowType
  BY DEF ThreadType
<1>2. msg.flags \in SUBSET Flags /\ msg.state \in FlowStates
  BY DEF Sent, Messages
<1>3. f \in FlowType
  BY <1>1, <1>2, Zenon DEF FlowType
<1>4. /\ f.live = s.f.live /\ f.flags = msg.flags /\ f.state = msg.state
      /\ f.tcp_init = s.f.tcp_init /\ f.expire = s.f.expire /\ f.ha = s.f.ha
  BY <1>1 DEF FlowType
<1>5. Copied(s, msg) = [v EXCEPT !.told = b]
  BY Zenon DEF Copied, ThreadType
<1>6. b \in BOOLEAN
  OBVIOUS
<1> HIDE DEF f
<1>7. v \in ThreadType /\ v.f = f /\ v.down = s.down
  BY <1>3, WithFlow
<1> HIDE DEF v, b
<1>8. LET t == [v EXCEPT !.told = b] IN
      t \in ThreadType /\ t.f = v.f /\ t.down = v.down /\ t.told = b
  BY <1>6, <1>7, Zenon DEF ThreadType
<1>9. "drop" \in msg.flags => b
  BY DEF b
<1> QED
  BY <1>4, <1>5, <1>7, <1>8, <1>9, Zenon

(* StreamHAClient::consume(): the flow is in standby, and a UDP flow has   *)
(* the state of the message.                                               *)
Mirrors(t, msg) ==
    /\ t.f.live /\ "STANDBY" \in t.f.ha
    /\ setup.proto = "udp" => t.f.flags = msg.flags /\ t.f.state = msg.state

(* Consuming an update leaves the flow as the message says.                *)
LEMMA ConsumeUpdateDoes ==
    ASSUME NEW s, Good(s), NEW msg \in Sent, msg.event = "UPDATE", NEW object \in Objects,
           setup.proto \in {"udp", "tcp"}
    PROVE  LET t == ConsumeUpdate(s, msg, object) IN
           Good(t) /\ t.down = s.down /\ Mirrors(t, msg)
<1> DEFINE g == Got(s, object)
           c == Copied(g, msg)
           d == IF setup.proto = "tcp" THEN TcpClearSession(c) ELSE c
           t == ConsumeUpdate(s, msg, object)
<1>1. g \in ThreadType /\ g.down = s.down /\ g.f.live
      /\ (setup.proto = "tcp" => (g.f.expire => g.f.tcp_init))
  BY GotDoes
<1>2. t = IF HaAny(c, {"STANDBY"}) THEN c ELSE Ha(d, {"STANDBY"})
  BY DEF ConsumeUpdate, Got, Copied
<1> HIDE DEF g, t
<1>3. /\ c \in ThreadType /\ c.down = s.down /\ ("drop" \in c.f.flags => c.told)
      /\ c.f.live /\ c.f.flags = msg.flags /\ c.f.state = msg.state /\ c.f.state # "setup"
      /\ c.f.tcp_init = g.f.tcp_init /\ c.f.expire = g.f.expire
  <2>1. msg.state # "setup"
    BY DEF Sent
  <2> QED
    BY <1>1, <2>1, CopiedDoes
<1>0. Barred(c.f.flags, c.f.state)
  BY <1>3 DEF Sent
<1> HIDE DEF c
<1>4. HaAny(c, {"STANDBY"}) <=> "STANDBY" \in c.f.ha
  BY DEF HaAny
<1>5. CASE "STANDBY" \in c.f.ha
  <2>1. t = c
    BY <1>2, <1>4, <1>5
  <2>2. FlowOK(c.f)
    BY <1>0, <1>1, <1>3, <1>5, SMTT(30) DEF FlowOK, Begun
  <2> QED
    BY <1>3, <1>5, <2>1, <2>2 DEF Good, Known, Mirrors, t
<1>6. CASE "STANDBY" \notin c.f.ha
  <2>1. /\ d \in ThreadType /\ d.down = s.down /\ ("drop" \in d.f.flags => d.told) /\ d.f.live
        /\ Barred(d.f.flags, d.f.state)
        /\ setup.proto = "tcp" => ~d.f.expire
        /\ setup.proto = "udp" => d = c
    <3>1. CASE setup.proto = "tcp"
      <4>1. /\ d \in ThreadType /\ d.down = c.down /\ d.f.live = c.f.live
            /\ IF c.f.tcp_init THEN d.f.flags = Kept(c) /\ ~d.f.expire ELSE d = c
        BY <1>3, <3>1, TcpClearDoes, Zenon
      <4>2. "drop" \notin Kept(c)
        BY DEF Kept
      <4> HIDE DEF d
      <4> QED
        BY <1>0, <1>1, <1>3, <3>1, <4>1, <4>2 DEF Barred
    <3>2. CASE setup.proto # "tcp"
      BY <1>0, <1>3, <3>2
    <3> QED
      BY <3>1, <3>2
  <2> DEFINE h == d.f.ha \cup {"STANDBY"}
  <2>2. t = [d EXCEPT !.f.ha = h]
    BY <1>2, <1>4, <1>6, <2>1 DEF Ha, ThreadType
  <2> HIDE DEF d
  <2>3. h \in SUBSET HaStates /\ "STANDBY" \in h
    BY <2>1 DEF ThreadType, FlowType, HaStates
  <2> HIDE DEF h
  <2>4. LET r == [d EXCEPT !.f.ha = h] IN
        /\ r \in ThreadType /\ r.told = d.told /\ r.down = d.down
        /\ r.f.live = d.f.live /\ r.f.flags = d.f.flags /\ r.f.state = d.f.state
        /\ r.f.tcp_init = d.f.tcp_init /\ r.f.expire = d.f.expire /\ r.f.ha = h
    BY <2>1, <2>3, HaDoes, ZenonT(30)
  <2>5. /\ t \in ThreadType /\ t.told = d.told /\ t.down = d.down
        /\ t.f.live = d.f.live /\ t.f.flags = d.f.flags /\ t.f.state = d.f.state
        /\ t.f.expire = d.f.expire /\ t.f.ha = h
    BY <2>2, <2>4
  <2>6. FlowOK(t.f)
    BY <1>3, <2>1, <2>3, <2>5 DEF FlowOK, Begun
  <2> QED
    BY <1>3, <2>1, <2>3, <2>5, <2>6 DEF Good, Known, Mirrors, t
<1> QED
  BY <1>5, <1>6

(* Consuming any message keeps the flow good.                              *)
LEMMA ConsumeDoes ==
    ASSUME NEW s, Good(s), NEW msg \in Sent, NEW object \in Objects, setup.proto \in {"udp", "tcp"}
    PROVE  LET t == Consume(s, msg, object) IN
           /\ Good(t) /\ t.down = s.down
           /\ IF msg.event = "UPDATE" THEN Mirrors(t, msg) ELSE ~t.f.live
<1>1. CASE msg.event = "UPDATE"
  BY <1>1, ConsumeUpdateDoes DEF Consume
<1>2. CASE msg.event # "UPDATE" /\ s.f.live
  <2>1. Release(s) \in ThreadType /\ Release(s).f = NoFlow /\ Release(s).down = s.down
    BY ReleaseDoes DEF Good
  <2>2. ~NoFlow.live
    BY DEF NoFlow
  <2>3. Good(Release(s))
    BY <2>1, <2>2, NoFlowOK DEF Good
  <2> QED
    BY <1>2, <2>1, <2>2, <2>3 DEF Consume
<1>3. CASE msg.event # "UPDATE" /\ ~s.f.live
  BY <1>3 DEF Consume
<1> QED
  BY <1>1, <1>2, <1>3

(* A set of naturals has a least element, and one that has 0 and every     *)
(* successor has them all.                                                 *)
LEMMA LeastOf ==
    ASSUME NEW T, T \subseteq Nat, T # {}
    PROVE  \E x \in T : \A y \in T : x <= y
<1> DEFINE R == OpToRel(<, Nat)
<1>1. IsWellFoundedOn(R, Nat)
  BY NatLessThanWellFounded, Zenon
<1>2. \A x, y \in Nat : x < y => <<x, y>> \in R
  BY DEF OpToRel
<1> HIDE DEF R
<1>3. PICK x \in T : \A y \in T : ~(<<y, x>> \in R)
  BY <1>1, WFMin, Zenon
<1>4. \A y \in T : ~(y < x)
  BY <1>2, <1>3, Zenon
<1>5. \A y \in T : x <= y
  BY <1>4
<1> QED
  BY <1>5

(* Induction, for a set of numbers.                                        *)
LEMMA SuccessorsAll ==
    ASSUME NEW T, 0 \in T, \A n \in Nat : n \in T => n + 1 \in T
    PROVE  Nat \subseteq T
<1>1. SUFFICES ASSUME Nat \ T # {} PROVE FALSE
  OBVIOUS
<1>2. PICK x \in Nat \ T : \A y \in Nat \ T : x <= y
  <2>1. Nat \ T \subseteq Nat
    OBVIOUS
  <2> QED
    BY <1>1, <2>1, LeastOf, Zenon
<1>3. x # 0 /\ x - 1 \in Nat /\ ~(x <= x - 1)
  BY <1>2
<1>4. x - 1 \in T
  BY <1>2, <1>3
<1>5. (x - 1) + 1 = x
  OBVIOUS
<1> QED
  BY <1>2, <1>3, <1>4, <1>5

(* after is what process_receive() computes with the first n messages.     *)
Folds(after, n, s, msgs, object) ==
    after = [k \in 0 .. n |-> IF k = 0 THEN s ELSE Consume(after[k - 1], msgs[k], object)]

(* A function that folds a step over 0..n exists.                          *)
LEMMA FoldExists ==
    ASSUME NEW s, NEW msgs, NEW object, NEW n \in Nat
    PROVE  \E after : Folds(after, n, s, msgs, object)
<1> DEFINE T == {m \in Nat : \E after : Folds(after, m, s, msgs, object)}
<1>1. 0 \in T
  <2> DEFINE g == [k \in 0 .. 0 |-> s]
  <2>1. \A k \in 0 .. 0 : k = 0
    OBVIOUS
  <2>2. g = [k \in 0 .. 0 |-> IF k = 0 THEN s ELSE Consume(g[k - 1], msgs[k], object)]
    BY <2>1
  <2>3. Folds(g, 0, s, msgs, object)
    BY <2>2 DEF Folds
  <2> QED
    BY <2>3
<1>2. ASSUME NEW m \in Nat, m \in T
      PROVE  m + 1 \in T
  <2>1. PICK g : Folds(g, m, s, msgs, object)
    BY <1>2
  <2> DEFINE h == [k \in 0 .. m + 1 |-> IF k <= m THEN g[k] ELSE Consume(g[m], msgs[m + 1], object)]
             e == [k \in 0 .. m + 1 |-> IF k = 0 THEN s ELSE Consume(h[k - 1], msgs[k], object)]
  <2>2. \A k \in 0 .. m : g[k] = IF k = 0 THEN s ELSE Consume(g[k - 1], msgs[k], object)
    BY <2>1 DEF Folds
  <2>3. \A k \in 0 .. m + 1 : h[k] = e[k]
    <3> TAKE k \in 0 .. m + 1
    <3>1. CASE k = 0
      BY <2>2, <3>1
    <3>2. CASE k # 0 /\ k <= m
      <4>1. k - 1 \in 0 .. m + 1 /\ k - 1 <= m /\ k \in 0 .. m
        BY <3>2
      <4>2. h[k - 1] = g[k - 1] /\ h[k] = g[k]
        BY <3>2, <4>1
      <4>3. e[k] = Consume(h[k - 1], msgs[k], object)
        BY <3>2
      <4> HIDE DEF e, h
      <4> QED
        BY <2>2, <3>2, <4>1, <4>2, <4>3
    <3>3. CASE k # 0 /\ ~(k <= m)
      <4>1. k = m + 1 /\ k - 1 = m /\ m \in 0 .. m + 1 /\ m <= m
        BY <3>3
      <4>2. h[m] = g[m] /\ h[k] = Consume(g[m], msgs[m + 1], object)
        BY <3>3, <4>1
      <4>3. e[k] = Consume(h[k - 1], msgs[k], object)
        BY <3>3
      <4> HIDE DEF e, h
      <4> QED
        BY <4>1, <4>2, <4>3
    <3> QED
      BY <3>1, <3>2, <3>3
  <2>4. h = e
    BY <2>3, Zenon
  <2>5. Folds(h, m + 1, s, msgs, object)
    BY <2>4 DEF Folds
  <2> QED
    BY <2>5
<1> HIDE DEF T
<1>3. Nat \subseteq T
  BY <1>1, <1>2, SuccessorsAll
<1> QED
  BY <1>3 DEF T

(* A thread after the message msg.                                         *)
Consumed(t, msg) == IF msg.event = "UPDATE" THEN Mirrors(t, msg) ELSE ~t.f.live

(* The thread t after k messages.                                          *)
Reaches(t, s, k, msgs) ==
    Good(t) /\ t.down = s.down /\ (k # 0 => Consumed(t, msgs[k]))

(* process_receive(): the last message decides.                            *)
LEMMA ProcessReceiveDoes ==
    ASSUME NEW s, Good(s), NEW p, ring[p] \in Seq(Sent), NEW object \in Objects,
           setup.proto \in {"udp", "tcp"}
    PROVE  LET t == ProcessReceive(s, p, object) IN
           /\ Good(t) /\ t.down = s.down
           /\ IF ring[p] = <<>> THEN t = s ELSE Consumed(t, ring[p][Len(ring[p])])
<1> DEFINE n == Len(ring[p])
           after == CHOOSE g : Folds(g, n, s, ring[p], object)
           T == {k \in Nat : k <= n => Reaches(after[k], s, k, ring[p])}
<1>1. n \in Nat
  OBVIOUS
<1>2. Folds(after, n, s, ring[p], object)
  BY <1>1, FoldExists, Zenon
<1>3. ProcessReceive(s, p, object) = after[n]
  BY DEF ProcessReceive, Folds
<1> HIDE DEF after
<1>4. \A k \in 0 .. n : after[k] = IF k = 0 THEN s ELSE Consume(after[k - 1], ring[p][k], object)
  BY <1>2, Zenon DEF Folds
<1> HIDE DEF n
<1>5. after[0] = s
  BY <1>1, <1>4
<1>6. 0 \in T
  BY <1>1, <1>5 DEF Reaches
<1>7. ASSUME NEW k \in Nat, k \in T
      PROVE  k + 1 \in T
  <2>1. SUFFICES ASSUME k + 1 <= n
                 PROVE  Reaches(after[k + 1], s, k + 1, ring[p])
    OBVIOUS
  <2>2. k + 1 \in 0 .. n /\ k + 1 # 0 /\ (k + 1) - 1 = k /\ k <= n /\ k + 1 \in 1 .. n
    BY <1>1, <2>1
  <2>3. after[k + 1] = Consume(after[k], ring[p][k + 1], object)
    BY <1>4, <2>2
  <2>4. Good(after[k]) /\ after[k].down = s.down
    BY <1>7, <2>2 DEF Reaches
  <2>5. ring[p][k + 1] \in Sent
    BY <2>2 DEF n
  <2>6. LET r == Consume(after[k], ring[p][k + 1], object) IN
        /\ Good(r) /\ r.down = after[k].down
        /\ IF ring[p][k + 1].event = "UPDATE" THEN Mirrors(r, ring[p][k + 1]) ELSE ~r.f.live
    BY <2>4, <2>5, ConsumeDoes
  <2> QED
    BY <2>3, <2>4, <2>6 DEF Consumed, Reaches
<1>8. Nat \subseteq T
  <2> HIDE DEF T
  <2> QED
    BY <1>6, <1>7, SuccessorsAll
<1>9. Good(after[n]) /\ after[n].down = s.down /\ (n # 0 => Consumed(after[n], ring[p][n]))
  BY <1>1, <1>8 DEF Reaches
<1>10. ring[p] = <<>> <=> n = 0
  BY DEF n
<1> QED
  BY <1>3, <1>5, <1>9, <1>10 DEF n

(* The other peer of the two.                                              *)
LEMMA Partners ==
    \A p \in Peers : /\ Partner(p) \in Peers /\ Partner(p) # p
                     /\ \A q \in Peers : q = p \/ q = Partner(p)
                     /\ Partner(Partner(p)) = p
<1>1. PICK a, b \in Peers : a # b /\ Peers = {a, b}
  BY TwoPeers
<1>2. \A p \in Peers : \E q \in Peers : q # p
  BY <1>1
<1>3. \A p \in Peers : Partner(p) \in Peers /\ Partner(p) # p
  BY <1>2, Zenon DEF Partner
<1> QED
  BY <1>1, <1>3

(* The last of some messages.                                              *)
LastOf(msgs) == msgs[Len(msgs)]

(* What agrees with a flow goes on to, when nothing is to be told of it.   *)
LEMMA FollowsAgree ==
    ASSUME NEW f, NEW g, Follows(f, g), NEW flags, NEW state, Agree(f, flags, state)
    PROVE  Agree(g, flags, state)
<1>1. Own(g.flags) = Own(f.flags) /\ (g.state = f.state \/ Untold(g))
  BY DEF Follows
<1>2. CASE Cleared(f)
  BY <1>1, <1>2 DEF Agree, Cleared
<1>3. CASE Own(f.flags) = Own(flags) /\ (Untold(f) \/ f.state = state)
  <2>1. "drop" \in g.flags <=> "drop" \in f.flags
    <3>1. "drop" \in Own(g.flags) <=> "drop" \in g.flags
      BY DEF Own
    <3>2. "drop" \in Own(f.flags) <=> "drop" \in f.flags
      BY DEF Own
    <3> QED
      BY <1>1, <3>1, <3>2
  <2>2. Untold(g) \/ g.state = state
    BY <1>1, <1>3, <2>1 DEF Untold
  <2> QED
    BY <1>1, <1>3, <2>2, Zenon DEF Agree
<1> QED
  BY <1>2, <1>3, Zenon DEF Agree

(* The message is an update that agrees with the flow f.                   *)
Carries(msg, f) == msg.event = "UPDATE" /\ Agree(f, msg.flags, msg.state)

(* An update of a flow does.                                               *)
LEMMA UpdateCarries ==
    ASSUME NEW f
    PROVE  Carries(Update(f.flags, f.state), f)
<1>1. Agree(f, f.flags, f.state)
  BY DEF Agree
<1>2. LET msg == Update(f.flags, f.state) IN
      msg.event = "UPDATE" /\ msg.flags = f.flags /\ msg.state = f.state
  BY DEF Update
<1> QED
  BY <1>1, <1>2 DEF Carries

(* A flow is active, with nothing to send, and not one a stateless rule    *)
(* has cleared.                                                            *)
Quiet(f) == f.live /\ "STANDBY" \notin f.ha /\ "MODIFIED" \notin f.ha /\ ~Cleared(f)

(* The last message on its way, in the socket or the ring, agrees with the *)
(* flow f, unless one was lost, or the partner's copy agrees with it.      *)
InStep(f, sent, lossy, held, copy) ==
    IF sent # <<>> THEN Carries(LastOf(sent), f)
    ELSE \/ lossy
         \/ IF held # <<>> THEN Carries(LastOf(held), f)
            ELSE copy.live /\ "STANDBY" \in copy.ha => Agree(f, copy.flags, copy.state)

(* What makes the copies of a UDP flow agree.                              *)
Synced(p) ==
    LET q == Partner(p) IN
    setup.proto = "udp" /\ Quiet(flow[p]) /\ ~down[q] =>
        InStep(flow[p], sock[p], lost[q], ring[q], flow[q])

(* The set-up does not change.                                             *)
LEMMA SyncedNext ==
    ASSUME setup' = setup, NEW p,
           LET q == Partner(p) IN
           setup.proto = "udp" /\ Quiet(flow'[p]) /\ ~down'[q] =>
               InStep(flow'[p], sock'[p], lost'[q], ring'[q], flow'[q])
    PROVE  Synced(p)'
  BY DEF Synced, Quiet, InStep, Carries, Agree, Cleared, Untold, Own

(* What is in step with a flow stays so, when nothing is to be told.       *)
LEMMA InStepFollows ==
    ASSUME NEW f, NEW g, Follows(f, g), NEW sent, NEW lossy, NEW held, NEW copy,
           InStep(f, sent, lossy, held, copy)
    PROVE  InStep(g, sent, lossy, held, copy)
<1>1. ASSUME NEW msg, Carries(msg, f)
      PROVE  Carries(msg, g)
  BY <1>1, FollowsAgree DEF Carries
<1>2. Agree(f, copy.flags, copy.state) => Agree(g, copy.flags, copy.state)
  BY FollowsAgree
<1> QED
  BY <1>1, <1>2, Zenon DEF InStep

(* The inductive invariant.                                                *)
HATyped ==
    /\ setup \in Setups /\ flow \in [Peers -> FlowType]
    /\ sock \in [Peers -> Seq(Sent)] /\ ring \in [Peers -> Seq(Sent)]
    /\ \A p \in Peers : Len(ring[p]) <= setup.capacity
    /\ lost \in [Peers -> BOOLEAN]
    /\ down \in [Peers -> BOOLEAN] /\ told \in [Peers -> BOOLEAN]

(* All flows are good.                                                     *)
FlowsOK == \A p \in Peers : FlowOK(flow[p])

(* All peers are in sync.                                                  *)
AllSynced == \A p \in Peers : Synced(p)

(* The inductive invariant.                                                *)
HAInv == HATyped /\ FlowsOK /\ CriticalTold /\ AllSynced

(* What is known of the set-up.                                            *)
LEMMA SetupFacts ==
    ASSUME setup \in Setups
    PROVE  /\ setup.proto \in {"udp", "tcp"} /\ setup.objects \subseteq Objects
           /\ setup.capacity \in Nat /\ setup.verdicts \subseteq Verdicts
           /\ setup.binds \subseteq Binds /\ setup.marks \subseteq {"est", "svc"}
           /\ setup.proto = "tcp" => "expected" \notin setup.binds
  BY SetupsTyped, SetupsOfProtocol

(* The thread of a peer is good between packets.                           *)
LEMMA ThreadGood ==
    ASSUME HAInv, NEW p \in Peers
    PROVE  /\ Good(Thread(p)) /\ Thread(p).f = flow[p] /\ Thread(p).out = <<>>
           /\ Thread(p).down = down[p]
<1> DEFINE s == Thread(p)
<1>1. /\ flow[p] \in FlowType /\ told[p] \in BOOLEAN /\ down[p] \in BOOLEAN
      /\ {} \in SUBSET Flags /\ <<>> \in Seq(Sent)
  BY DEF HAInv, HATyped
<1>2. s.f = flow[p] /\ s.out = <<>> /\ s.down = down[p] /\ s.told = told[p]
  BY DEF Thread
<1>3. s \in ThreadType
  BY <1>1 DEF Thread, ThreadType
<1> HIDE DEF s
<1>4. FlowOK(flow[p])
  BY DEF HAInv, FlowsOK
<1>5. s.f.live /\ "drop" \in s.f.flags => Known(s)
  BY <1>2 DEF HAInv, CriticalTold, Known
<1> QED
  BY <1>2, <1>3, <1>4, <1>5 DEF Good, s

(* A step of p's thread to t: u is what it had before it consumed the      *)
(* ring.                                                                   *)
Ends(p, u, t) ==
    /\ Good(u) /\ Good(t)
    /\ IF ring[p] = <<>> THEN t = u ELSE Consumed(t, LastOf(ring[p]))
    /\ u.f.live /\ "STANDBY" \in u.f.ha =>
          /\ flow[p].live /\ "STANDBY" \in flow[p].ha
          /\ Own(u.f.flags) = Own(flow[p].flags) /\ u.f.state = flow[p].state
    /\ setup.proto = "udp" /\ u.f.live /\ "STANDBY" \notin u.f.ha =>
          \/ "MODIFIED" \in u.f.ha
          \/ u.out # <<>> /\ LastOf(u.out) = Update(u.f.flags, u.f.state)
          \/ Cleared(u.f)
          \/ flow[p].live /\ u.out = <<>> /\ Follows(flow[p], u.f) /\ u.f.ha = flow[p].ha

(* A packet of the flow.                                                   *)
LEMMA PacketEnds ==
    ASSUME HAInv, NEW p \in Peers, NEW in \in Inputs(p), NEW end \in setup.verdicts, NEW stateless,
           NEW elapsed, NEW object \in setup.objects
    PROVE  LET u == ProcessUpdate(Finish(Process(Thread(p), in), end, stateless), elapsed)
               t == ProcessReceive(u, p, object)
           IN  Ends(p, u, t)
<1> DEFINE s == Thread(p)
           u == ProcessUpdate(Finish(Process(s, in), end, stateless), elapsed)
           t == ProcessReceive(u, p, object)
<1>1. Good(s) /\ s.f = flow[p] /\ s.out = <<>>
  BY ThreadGood
<1>2. setup.proto \in {"udp", "tcp"} /\ setup.objects \subseteq Objects
      /\ setup.verdicts \subseteq Verdicts
  BY SetupFacts DEF HAInv, HATyped
<1>3. InputOK(s, in)
  <2>1. in.expired \in {FALSE, flow[p].expire} /\ in.object \in setup.objects
        /\ in.bind \in setup.binds /\ in.marks \in SUBSET setup.marks
    BY Zenon DEF Inputs
  <2>2. setup.binds \subseteq Binds /\ setup.marks \subseteq {"est", "svc"}
        /\ (setup.proto = "tcp" => "expected" \notin setup.binds)
    BY SetupFacts DEF HAInv, HATyped
  <2>3. in.object \in Objects /\ in.bind \in Binds /\ in.marks \in SUBSET {"est", "svc"}
        /\ (setup.proto = "tcp" => in.bind # "expected")
    BY <1>2, <2>1, <2>2
  <2> QED
    BY <1>1, <2>1, <2>3, Zenon DEF InputOK
<1> HIDE DEF s
<1>4. Processed(s, Process(s, in))
  BY <1>1, <1>2, <1>3, ProcessDoes
<1>5. Handled(s, Finish(Process(s, in), end, stateless))
  <2>1. end \in Verdicts
    BY <1>2
  <2> QED
    BY <1>2, <1>4, <2>1, FinishDoes
<1>6. Reported(s, u)
  BY <1>2, <1>5, ProcessUpdateDoes
<1> HIDE DEF u
<1>7. ring[p] \in Seq(Sent)
  BY DEF HAInv, HATyped
<1>8. Good(u)
  BY <1>6 DEF Reported
<1>9. Good(t) /\ IF ring[p] = <<>> THEN t = u ELSE Consumed(t, LastOf(ring[p]))
  BY <1>2, <1>7, <1>8, ProcessReceiveDoes, SMTT(30) DEF LastOf
<1> HIDE DEF t
<1>10. Ends(p, u, t)
  BY <1>1, <1>6, <1>8, <1>9 DEF Ends, Reported, LastOf
<1> QED
  BY <1>10 DEF s, u, t

(* A media flow that SIP has ignored.                                      *)
LEMMA IgnoredDoes ==
    ASSUME NEW s, Good(s), s.f.live, setup.media
    PROVE  LET u == Affected(s, "ignored") IN
           /\ Good(u) /\ u.f.live = s.f.live /\ u.f.ha = s.f.ha /\ u.f.state = s.f.state
           /\ u.out = s.out /\ Own(u.f.flags) = Own(s.f.flags)
<1> DEFINE u == Affected(s, "ignored")
           more == {"ign"}
           state == s.f.state
<1>1. s \in ThreadType /\ s.f \in FlowType /\ FlowOK(s.f)
  BY DEF Good, ThreadType
<1>2. u = Put(s, state, more)
  <2>1. Affected(s, "ignored") = [s EXCEPT !.f.flags = @ \cup {"ign"}]
    BY DEF Affected
  <2> QED
    BY <1>1, <2>1, Zenon DEF Put, ThreadType, FlowType
<1>3. state \in FlowStates /\ more \in FlagSets
  BY <1>1 DEF FlowType, FlagSets, Flags
<1> HIDE DEF u, state, more
<1>4. HasPut(u, s, state, more)
  BY <1>1, <1>2, <1>3, WithState, Zenon
<1>5. /\ u \in ThreadType /\ u.out = s.out /\ u.told = s.told
      /\ u.f.live = s.f.live /\ u.f.ha = s.f.ha /\ u.f.tcp_init = s.f.tcp_init
      /\ u.f.expire = s.f.expire /\ u.f.state = s.f.state /\ u.f.flags = s.f.flags \cup {"ign"}
  BY <1>4, Zenon DEF HasPut, state, more
<1>6. "drop" \in u.f.flags <=> "drop" \in s.f.flags
  BY <1>5
<1>7. Own(u.f.flags) = Own(s.f.flags)
  BY <1>5 DEF Own
<1>8. FlowOK(u.f)
  BY <1>1, <1>5, <1>6 DEF FlowOK, Begun, Barred
<1>9. Good(u)
  BY <1>5, <1>6, <1>8 DEF Good, Known
<1> QED
  BY <1>5, <1>7, <1>9, Zenon DEF u

(* What other packets do to a flow.                                        *)
LEMMA OtherEnds ==
    ASSUME HAInv, NEW p \in Peers, NEW fate \in {"stays", "gone", "ignored"},
           fate = "stays" \/ flow[p].live, fate = "ignored" => setup.media,
           NEW object \in setup.objects
    PROVE  LET u == Affected(Thread(p), fate)
               t == ProcessReceive(u, p, object)
           IN  Ends(p, u, t)
<1> DEFINE s == Thread(p)
           u == Affected(s, fate)
           t == ProcessReceive(u, p, object)
<1>1. Good(s) /\ s.f = flow[p] /\ s.out = <<>>
  BY ThreadGood
<1>2. setup.proto \in {"udp", "tcp"} /\ setup.objects \subseteq Objects
  BY SetupFacts DEF HAInv, HATyped
<1> HIDE DEF s
<1>3. /\ Good(u)
      /\ \/ ~u.f.live
         \/ /\ u.f.live = s.f.live /\ u.f.ha = s.f.ha /\ u.f.state = s.f.state
            /\ u.out = s.out /\ Own(u.f.flags) = Own(s.f.flags)
  <2>1. CASE fate = "stays"
    BY <1>1, <2>1 DEF Affected
  <2>2. CASE fate = "gone"
    <3>1. Release(s) \in ThreadType /\ Release(s).f = NoFlow
      BY <1>1, ReleaseDoes DEF Good
    <3>2. ~NoFlow.live
      BY DEF NoFlow
    <3>3. Good(Release(s))
      BY <3>1, <3>2, NoFlowOK DEF Good
    <3>4. u = Release(s)
      BY <2>2 DEF Affected
    <3> QED
      BY <3>1, <3>2, <3>3, <3>4
  <2>3. CASE fate = "ignored"
    BY <1>1, <2>3, IgnoredDoes
  <2> QED
    BY <2>1, <2>2, <2>3
<1> HIDE DEF u
<1>4. ring[p] \in Seq(Sent)
  BY DEF HAInv, HATyped
<1>5. Good(t) /\ IF ring[p] = <<>> THEN t = u ELSE Consumed(t, LastOf(ring[p]))
  BY <1>2, <1>3, <1>4, ProcessReceiveDoes, SMTT(30) DEF LastOf
<1> HIDE DEF t
<1>6. Ends(p, u, t)
  BY <1>1, <1>3, <1>5 DEF Ends, Follows
<1> QED
  BY <1>6 DEF s, u, t

(* A step of p's thread that empties its ring.                             *)
Steps(p, t) ==
    /\ flow' = [flow EXCEPT ![p] = t.f]
    /\ sock' = [sock EXCEPT ![p] = IF down[Partner(p)] THEN @ ELSE @ \o t.out]
    /\ ring' = [ring EXCEPT ![p] = <<>>]
    /\ told' = [told EXCEPT ![p] = t.told]
    /\ UNCHANGED <<setup, lost, down>>

(* The last message of a channel is the last one sent.                     *)
LEMMA Joined ==
    ASSUME NEW a \in Seq(Sent), NEW b \in Seq(Sent), b # <<>>
    PROVE  a \o b # <<>> /\ LastOf(a \o b) = LastOf(b)
<1>1. Len(b) \in Nat /\ Len(b) > 0 /\ Len(a) \in Nat /\ Len(a \o b) = Len(a) + Len(b)
  OBVIOUS
<1>2. (a \o b)[Len(a) + Len(b)] = b[Len(b)]
  BY <1>1
<1> QED
  BY <1>1, <1>2 DEF LastOf

(* A step keeps the types and the flows.                                   *)
LEMMA StepTyped ==
    ASSUME HAInv, NEW p \in Peers, NEW t, Good(t), Steps(p, t)
    PROVE  HATyped' /\ FlowsOK' /\ CriticalTold'
<1>1. t \in ThreadType /\ FlowOK(t.f) /\ (t.f.live /\ "drop" \in t.f.flags => Known(t))
  BY DEF Good
<1>2. t.f \in FlowType /\ t.out \in Seq(Sent) /\ t.told \in BOOLEAN
  BY <1>1 DEF ThreadType
<1>3. setup.capacity \in Nat
  BY SetupFacts DEF HAInv, HATyped
<1>4. HATyped'
  <2>1. sock' \in [Peers -> Seq(Sent)]
    <3>1. sock[p] \in Seq(Sent) /\ sock[p] \o t.out \in Seq(Sent)
      BY <1>2 DEF HAInv, HATyped
    <3> QED
      BY <3>1 DEF HAInv, HATyped, Steps
  <2>2. ring' \in [Peers -> Seq(Sent)] /\ \A q \in Peers : Len(ring'[q]) <= setup'.capacity
    BY <1>3 DEF HAInv, HATyped, Steps
  <2>3. flow' \in [Peers -> FlowType] /\ told' \in [Peers -> BOOLEAN]
    BY <1>2 DEF HAInv, HATyped, Steps
  <2> QED
    BY <2>1, <2>2, <2>3 DEF HAInv, HATyped, Steps
<1>5. \A q \in Peers : IF q = p THEN flow'[q] = t.f /\ told'[q] = t.told
                       ELSE flow'[q] = flow[q] /\ told'[q] = told[q]
  BY DEF HAInv, HATyped, Steps
<1>6. setup' = setup
  BY DEF Steps
<1>7. FlowsOK'
  <2>1. \A q \in Peers : FlowOK(flow[q])
    BY DEF HAInv, FlowsOK
  <2> QED
    BY <1>1, <1>5, <1>6, <2>1 DEF FlowsOK, FlowOK, Begun
<1>8. CriticalTold'
  BY <1>1, <1>5 DEF HAInv, CriticalTold, Known
<1> QED
  BY <1>4, <1>7, <1>8

(* The messages p sent are in step with its flow.                          *)
LEMMA StepSyncedSelf ==
    ASSUME HAInv, NEW p \in Peers, NEW u, NEW t, Ends(p, u, t), Steps(p, t)
    PROVE  Synced(p)'
<1> DEFINE q == Partner(p)
<1>1. q \in Peers /\ q # p
  BY Partners
<1>2. /\ flow'[p] = t.f /\ flow'[q] = flow[q] /\ ring'[q] = ring[q] /\ lost' = lost
      /\ down' = down /\ setup' = setup
      /\ sock'[p] = IF down[q] THEN sock[p] ELSE sock[p] \o t.out
  BY <1>1 DEF HAInv, HATyped, Steps
<1>3. SUFFICES ASSUME setup.proto = "udp", Quiet(t.f), ~down[q]
               PROVE  InStep(t.f, sock'[p], lost[q], ring[q], flow[q])
  BY <1>2, SyncedNext, Zenon
<1>4. ring[p] = <<>> /\ t = u
  BY <1>3, ZenonT(30) DEF Ends, Consumed, Mirrors, Quiet
<1>5. u.out \in Seq(Sent) /\ sock[p] \in Seq(Sent)
  BY ZenonT(30) DEF Ends, Good, ThreadType, HAInv, HATyped
<1>6. CASE u.out # <<>> /\ LastOf(u.out) = Update(u.f.flags, u.f.state)
  <2>1. sock'[p] # <<>> /\ LastOf(sock'[p]) = Update(t.f.flags, t.f.state)
    BY <1>2, <1>3, <1>4, <1>5, <1>6, Joined
  <2>2. Carries(LastOf(sock'[p]), t.f)
    BY <2>1, UpdateCarries
  <2> QED
    BY <2>1, <2>2, Zenon DEF InStep
<1>7. CASE flow[p].live /\ u.out = <<>> /\ Follows(flow[p], u.f) /\ u.f.ha = flow[p].ha
  <2>1. sock'[p] = sock[p]
    BY <1>2, <1>3, <1>4, <1>5, <1>7
  <2>2. ~Cleared(flow[p])
    BY <1>3, <1>4, <1>7 DEF Quiet, Cleared, Follows
  <2>3. Synced(p) /\ Quiet(flow[p])
    BY <1>3, <1>4, <1>7, <2>2 DEF HAInv, AllSynced, Quiet
  <2>4. InStep(flow[p], sock[p], lost[q], ring[q], flow[q])
    BY <1>3, <2>3, Zenon DEF Synced
  <2> QED
    BY <1>4, <1>7, <2>1, <2>4, InStepFollows, Zenon
<1> QED
  BY <1>3, <1>4, <1>6, <1>7, Zenon DEF Ends, Quiet

(* What p did to its flow leaves the copy in step with q's messages.       *)
LEMMA StepSyncedOther ==
    ASSUME HAInv, NEW p \in Peers, NEW u, NEW t, Ends(p, u, t), Steps(p, t), NEW q \in Peers, q # p
    PROVE  Synced(q)'
<1>1. Partner(q) = p
  BY Partners
<1>2. /\ flow'[p] = t.f /\ flow'[q] = flow[q] /\ ring'[p] = <<>> /\ lost' = lost
      /\ down' = down /\ setup' = setup /\ sock'[q] = sock[q]
  BY DEF HAInv, HATyped, Steps
<1>3. SUFFICES ASSUME setup.proto = "udp", Quiet(flow[q]), ~down[p]
               PROVE  InStep(flow[q], sock[q], lost[p], <<>>, t.f)
  BY <1>1, <1>2, SyncedNext, Zenon
<1>4. InStep(flow[q], sock[q], lost[p], ring[p], flow[p])
  <2>1. Synced(q)
    BY DEF HAInv, AllSynced
  <2> QED
    BY <1>1, <1>3, <2>1, Zenon DEF Synced
<1>5. CASE sock[q] # <<>> \/ lost[p]
  BY <1>4, <1>5, Zenon DEF InStep
<1>6. CASE sock[q] = <<>> /\ ~lost[p] /\ ring[p] # <<>>
  <2> DEFINE msg == LastOf(ring[p])
  <2>1. Carries(msg, flow[q]) /\ Consumed(t, msg)
    BY <1>4, <1>6, Zenon DEF Ends, InStep
  <2> HIDE DEF msg
  <2>2. t.f.flags = msg.flags /\ t.f.state = msg.state /\ Agree(flow[q], msg.flags, msg.state)
    BY <1>3, <2>1, Zenon DEF Consumed, Mirrors, Carries
  <2>3. Agree(flow[q], t.f.flags, t.f.state)
    BY <2>2, Zenon
  <2> QED
    BY <1>6, <2>3, Zenon DEF InStep
<1>7. CASE sock[q] = <<>> /\ ~lost[p] /\ ring[p] = <<>>
  <2>1. t = u
    BY <1>7, Zenon DEF Ends
  <2>2. ASSUME t.f.live, "STANDBY" \in t.f.ha
        PROVE  Agree(flow[q], t.f.flags, t.f.state)
    <3>1. /\ flow[p].live /\ "STANDBY" \in flow[p].ha
          /\ Own(t.f.flags) = Own(flow[p].flags) /\ t.f.state = flow[p].state
      BY <2>1, <2>2, Zenon DEF Ends
    <3>2. Agree(flow[q], flow[p].flags, flow[p].state)
      BY <1>4, <1>7, <3>1, Zenon DEF InStep
    <3> QED
      BY <3>1, <3>2, Zenon DEF Agree
  <2> QED
    BY <1>7, <2>2, Zenon DEF InStep
<1> QED
  BY <1>5, <1>6, <1>7

(* A step of a peer that ends well keeps the invariant.                    *)
LEMMA StepInv ==
    ASSUME HAInv, NEW p \in Peers, NEW u, NEW t, Ends(p, u, t), Steps(p, t)
    PROVE  HAInv'
<1>1. HATyped' /\ FlowsOK' /\ CriticalTold'
  BY StepTyped DEF Ends
<1>2. \A q \in Peers : Synced(q)'
  BY StepSyncedSelf, StepSyncedOther
<1> QED
  BY <1>1, <1>2 DEF HAInv, AllSynced

(* What the thread can have after an inspection.                           *)
LEMMA FinishedIs ==
    ASSUME NEW p, NEW stateless, NEW s \in Finished(p, stateless)
    PROVE  \E in \in Inputs(p), end \in setup.verdicts :
             s = Finish(Process(Thread(p), in), end, stateless)
<1> DEFINE processed == {Process(Thread(p), in) : in \in Inputs(p)}
<1>1. PICK s1 \in processed, end \in setup.verdicts : s = Finish(s1, end, stateless)
  BY DEF Finished
<1>2. PICK in \in Inputs(p) : s1 = Process(Thread(p), in)
  BY <1>1
<1> QED
  BY <1>1, <1>2

(* What it can have at the end of a packet.                                *)
LEMMA ReceivedIs ==
    ASSUME NEW p, NEW s \in Received(p)
    PROVE  \E s1 \in Inspected(p), elapsed \in BOOLEAN, object \in setup.objects :
             s = ProcessReceive(ProcessUpdate(s1, elapsed), p, object)
<1>1. PICK u \in Updated(p), object \in setup.objects : s = ProcessReceive(u, p, object)
  BY DEF Received
<1>2. PICK s1 \in Inspected(p), elapsed \in BOOLEAN : u = ProcessUpdate(s1, elapsed)
  BY <1>1 DEF Updated
<1> QED
  BY <1>1, <1>2, Zenon

(* The packet of the flow keeps it.                                        *)
LEMMA PacketCallbackInv ==
    ASSUME HAInv, NEW p \in Peers, PacketCallback(p)
    PROVE  HAInv'
<1>1. PICK in \in Inputs(p), end \in setup.verdicts, stateless \in {FALSE, setup.stateless},
            elapsed \in BOOLEAN, object \in setup.objects :
        EndsAs(p, ProcessReceive(
                      ProcessUpdate(Finish(Process(Thread(p), in), end, stateless), elapsed), p, object))
  <2>1. PICK s \in Received(p) : EndsAs(p, s)
    BY Zenon DEF PacketCallback
  <2>2. PICK s1 \in Inspected(p), elapsed \in BOOLEAN, object \in setup.objects :
          s = ProcessReceive(ProcessUpdate(s1, elapsed), p, object)
    BY <2>1, ReceivedIs, Zenon
  <2>3. PICK stateless \in {FALSE, setup.stateless} : s1 \in Finished(p, stateless)
    BY <2>2, ZenonT(30) DEF Inspected
  <2>4. PICK in \in Inputs(p), end \in setup.verdicts :
          s1 = Finish(Process(Thread(p), in), end, stateless)
    BY <2>3, FinishedIs, Zenon
  <2> QED
    BY <2>1, <2>2, <2>3, <2>4, Zenon
<1> DEFINE u == ProcessUpdate(Finish(Process(Thread(p), in), end, stateless), elapsed)
           t == ProcessReceive(u, p, object)
<1>2. Ends(p, u, t)
  BY PacketEnds
<1>3. EndsAs(p, t)
  BY <1>1
<1> HIDE DEF t, u
<1>4. Steps(p, t)
  BY <1>3, Zenon DEF Steps, EndsAs, PacketCallback
<1> QED
  BY <1>2, <1>4, StepInv

(* So does a packet of another flow.                                       *)
LEMMA OtherPacketInv ==
    ASSUME HAInv, NEW p \in Peers, OtherPacket(p)
    PROVE  HAInv'
<1>1. PICK object \in setup.objects, fate \in {"stays", "gone", "ignored"} :
        /\ fate = "stays" \/ flow[p].live
        /\ fate = "ignored" => setup.media
        /\ EndsAs(p, ProcessReceive(Affected(Thread(p), fate), p, object))
  BY DEF OtherPacket
<1> DEFINE u == Affected(Thread(p), fate)
           t == ProcessReceive(u, p, object)
<1>2. Ends(p, u, t)
  BY <1>1, OtherEnds
<1>3. EndsAs(p, t)
  BY <1>1
<1> HIDE DEF t, u
<1>4. Steps(p, t)
  BY <1>3, Zenon DEF Steps, EndsAs, OtherPacket
<1> QED
  BY <1>2, <1>4, StepInv

(* A peer that shuts down sends nothing and keeps no flow.                 *)
LEMMA TermEnds ==
    ASSUME HAInv, NEW p \in Peers
    PROVE  LET s == [Thread(p) EXCEPT !.down = TRUE]
               t == IF s.f.live THEN Release(s) ELSE s
           IN  /\ t.f \in FlowType /\ FlowOK(t.f) /\ ~t.f.live
               /\ t.out = <<>> /\ t.told \in BOOLEAN
<1> DEFINE r == Thread(p)
           s == [r EXCEPT !.down = TRUE]
<1>1. Good(r) /\ r.out = <<>>
  BY ThreadGood
<1> HIDE DEF r
<1>2. r \in ThreadType /\ FlowOK(r.f)
  BY <1>1 DEF Good
<1>3. s \in ThreadType /\ s.f = r.f /\ s.out = r.out /\ s.down
  BY <1>2, Zenon DEF ThreadType
<1> HIDE DEF s
<1>4. Release(s) \in ThreadType /\ Release(s).f = NoFlow /\ Release(s).out = s.out
  BY <1>3, ReleaseDoes
<1>5. s.told \in BOOLEAN /\ Release(s).told \in BOOLEAN /\ s.f \in FlowType
  BY <1>3, <1>4 DEF ThreadType
<1>6. ~NoFlow.live
  BY DEF NoFlow
<1>7. LET t == IF s.f.live THEN Release(s) ELSE s
      IN  /\ t.f \in FlowType /\ FlowOK(t.f) /\ ~t.f.live
          /\ t.out = <<>> /\ t.told \in BOOLEAN
  BY <1>1, <1>2, <1>3, <1>4, <1>5, <1>6, NoFlowOK, NoFlowType
<1> QED
  BY <1>7 DEF s, r

(* So does the end of the thread.                                          *)
LEMMA ThreadTermInv ==
    ASSUME HAInv, NEW p \in Peers, ThreadTerm(p)
    PROVE  HAInv' /\ sock' = sock
<1> DEFINE s == [Thread(p) EXCEPT !.down = TRUE]
           t == IF s.f.live THEN Release(s) ELSE s
<1>1. /\ t.f \in FlowType /\ FlowOK(t.f) /\ ~t.f.live
      /\ t.out = <<>> /\ t.told \in BOOLEAN
  BY TermEnds
<1>2. EndsAs(p, t)
  BY DEF ThreadTerm
<1> HIDE DEF t
<1>3. sock[p] \in Seq(Sent) /\ sock[p] \o <<>> = sock[p]
  BY DEF HAInv, HATyped
<1>4. sock' = sock
  BY <1>1, <1>2, <1>3 DEF EndsAs, HAInv, HATyped
<1>5. /\ flow' = [flow EXCEPT ![p] = t.f] /\ ring' = ring /\ lost' = lost /\ setup' = setup
      /\ down' = [down EXCEPT ![p] = TRUE] /\ told' = [told EXCEPT ![p] = t.told]
  BY <1>2, Zenon DEF EndsAs, ThreadTerm
<1>6. HATyped'
  BY <1>1, <1>4, <1>5 DEF HAInv, HATyped
<1>7. \A q \in Peers : IF q = p THEN flow'[q] = t.f /\ down'[q]
                       ELSE flow'[q] = flow[q] /\ told'[q] = told[q] /\ down'[q] = down[q]
  BY <1>5, SMTT(30) DEF HAInv, HATyped
<1>8. FlowsOK' /\ CriticalTold'
  <2>1. \A q \in Peers : FlowOK(flow[q])
    BY DEF HAInv, FlowsOK
  <2>2. FlowsOK'
    <3>1. ASSUME NEW q \in Peers
          PROVE  FlowOK(flow'[q])
      BY <1>1, <1>7, <2>1, Zenon
    <3> QED
      BY <1>5, <3>1 DEF FlowsOK, FlowOK, Begun
  <2>3. CriticalTold'
    BY <1>1, <1>7 DEF HAInv, CriticalTold
  <2> QED
    BY <2>2, <2>3
<1>9. ASSUME NEW q \in Peers
      PROVE  Synced(q)'
  <2>1. CASE q = p
    BY <1>1, <1>7, <2>1 DEF Synced, Quiet
  <2>2. CASE q # p
    <3>1. Partner(q) = p
      BY <2>2, Partners
    <3> QED
      BY <1>7, <3>1 DEF Synced
  <2> QED
    BY <2>1, <2>2
<1> QED
  BY <1>4, <1>6, <1>8, <1>9 DEF HAInv, AllSynced

(* The receive thread moves a message to the ring, or loses it.            *)
LEMMA TcpReceiveInv ==
    ASSUME HAInv, NEW p \in Peers, TcpReceive(p)
    PROVE  HAInv'
<1> DEFINE q == Partner(p)
<1>1. q \in Peers /\ q # p /\ Partner(q) = p /\ \A r \in Peers : r = p \/ r = q
  BY Partners
<1> HIDE DEF q
<1>2. /\ sock[q] # <<>> /\ sock' = [sock EXCEPT ![q] = Tail(@)]
      /\ lost' = [lost EXCEPT ![p] = (Len(ring[p]) = setup.capacity)]
      /\ ring' = IF lost'[p] THEN ring ELSE [ring EXCEPT ![p] = Append(@, Head(sock[q]))]
      /\ setup' = setup /\ flow' = flow /\ down' = down /\ told' = told
  BY DEF TcpReceive, q
<1>3. /\ sock[q] \in Seq(Sent) /\ ring[p] \in Seq(Sent) /\ setup.capacity \in Nat
      /\ Len(ring[p]) <= setup.capacity
  BY <1>1, SetupFacts DEF HAInv, HATyped
<1> DEFINE b == Len(ring[p]) = setup.capacity
           msg == Head(sock[q])
<1>4. b \in BOOLEAN /\ lost'[p] = b /\ lost' = [lost EXCEPT ![p] = b]
  BY <1>2 DEF HAInv, HATyped
<1>5. msg \in Sent /\ Tail(sock[q]) \in Seq(Sent)
  BY <1>2, <1>3
<1>6. IF b THEN ring' = ring
      ELSE /\ ring' = [ring EXCEPT ![p] = Append(@, msg)]
           /\ Append(ring[p], msg) \in Seq(Sent)
           /\ Len(Append(ring[p], msg)) <= setup.capacity
           /\ ring'[p] = Append(ring[p], msg)
  <2>1. CASE b
    BY <1>2, <1>4, <2>1, Zenon
  <2>2. CASE ~b
    <3>1. ring' = [ring EXCEPT ![p] = Append(@, msg)]
      BY <1>2, <1>4, <2>2, Zenon
    <3>2. Append(ring[p], msg) \in Seq(Sent) /\ Len(Append(ring[p], msg)) = Len(ring[p]) + 1
      BY <1>3, <1>5
    <3>3. Len(ring[p]) + 1 <= setup.capacity
      BY <1>3, <2>2
    <3> QED
      BY <2>2, <3>1, <3>2, <3>3 DEF HAInv, HATyped
  <2> QED
    BY <2>1, <2>2
<1>7. HATyped'
  <2>1. ring' \in [Peers -> Seq(Sent)] /\ \A r \in Peers : Len(ring'[r]) <= setup.capacity
    BY <1>6, Zenon DEF HAInv, HATyped
  <2>2. sock' \in [Peers -> Seq(Sent)]
    BY <1>1, <1>2, <1>5 DEF HAInv, HATyped
  <2>3. lost' \in [Peers -> BOOLEAN]
    BY <1>4, Zenon DEF HAInv, HATyped
  <2> QED
    BY <1>2, <2>1, <2>2, <2>3 DEF HAInv, HATyped
<1>8. FlowsOK' /\ CriticalTold'
  BY <1>2 DEF HAInv, FlowsOK, FlowOK, Begun, CriticalTold
<1>9. Synced(p)'
  <2>1. /\ sock'[p] = sock[p] /\ ring'[q] = ring[q] /\ lost'[q] = lost[q] /\ Partner(p) = q
        /\ flow' = flow /\ down' = down /\ setup' = setup
    BY <1>1, <1>2, <1>4, <1>6 DEF HAInv, HATyped, q
  <2>2. Synced(p)
    BY DEF HAInv, AllSynced
  <2> QED
    BY <2>1, <2>2, SyncedNext, Zenon DEF Synced
<1>10. Synced(q)'
  <2>1. SUFFICES ASSUME setup.proto = "udp", Quiet(flow[q]), ~down[p]
                 PROVE  InStep(flow[q], sock'[q], lost'[p], ring'[p], flow[p])
    BY <1>1, <1>2, SyncedNext, Zenon
  <2>2. Carries(LastOf(sock[q]), flow[q])
    <3>1. Synced(q)
      BY <1>1 DEF HAInv, AllSynced
    <3> QED
      BY <1>1, <1>2, <2>1, <3>1, Zenon DEF Synced, InStep
  <2>3. sock'[q] = Tail(sock[q])
    BY <1>1, <1>2 DEF HAInv, HATyped
  <2>4. CASE Tail(sock[q]) # <<>>
    <3>1. LastOf(Tail(sock[q])) = LastOf(sock[q])
      BY <1>2, <1>3, <2>4 DEF LastOf
    <3> QED
      BY <2>2, <2>3, <2>4, <3>1, Zenon DEF InStep
  <2>5. CASE Tail(sock[q]) = <<>>
    <3>1. LastOf(sock[q]) = msg
      <4>1. Len(sock[q]) = 1
        <5>1. Len(Tail(sock[q])) = Len(sock[q]) - 1 /\ Len(sock[q]) \in Nat
          BY <1>2, <1>3
        <5>2. Len(Tail(sock[q])) = 0
          <6>1. Len(<<>>) = 0
            OBVIOUS
          <6> QED
            BY <2>5, <6>1, Zenon
        <5> QED
          BY <5>1, <5>2
      <4> QED
        BY <1>2, <1>3, <4>1 DEF LastOf
    <3>2. CASE b
      BY <1>4, <2>3, <2>5, <3>2, Zenon DEF InStep
    <3>3. CASE ~b
      <4>1. ring'[p] = Append(ring[p], msg)
        BY <1>6, <3>3
      <4>2. ring'[p] # <<>> /\ LastOf(ring'[p]) = msg
        BY <1>3, <1>5, <4>1 DEF LastOf
      <4> QED
        BY <2>2, <2>3, <2>5, <3>1, <4>2, Zenon DEF InStep
    <3> QED
      BY <3>2, <3>3
  <2> QED
    BY <2>4, <2>5
<1> QED
  BY <1>1, <1>7, <1>8, <1>9, <1>10 DEF HAInv, AllSynced

(* Initially there are no flows and no messages.                           *)
LEMMA HAInit == Init => HAInv
<1> SUFFICES ASSUME Init PROVE HAInv
  OBVIOUS
<1>1. setup \in Setups /\ setup.capacity \in Nat
  BY SetupFacts DEF Init
<1>2. HATyped
  <2>1. flow \in [Peers -> FlowType]
    BY NoFlowType DEF Init
  <2>2. /\ sock \in [Peers -> Seq(Sent)] /\ ring \in [Peers -> Seq(Sent)]
        /\ \A p \in Peers : Len(ring[p]) <= setup.capacity
    BY <1>1 DEF Init
  <2> QED
    BY <1>1, <2>1, <2>2 DEF Init, HATyped
<1>3. \A p \in Peers : flow[p] = NoFlow
  BY Zenon DEF Init
<1>4. ~NoFlow.live
  BY DEF NoFlow
<1>5. FlowsOK /\ CriticalTold /\ AllSynced
  BY <1>3, <1>4, NoFlowOK DEF FlowsOK, CriticalTold, AllSynced, Synced, Quiet
<1> QED
  BY <1>2, <1>5 DEF HAInv

(* Every step keeps the invariant.                                         *)
LEMMA HANext ==
    ASSUME HAInv, [Next]_vars
    PROVE  HAInv'
<1>1. CASE Next
  BY <1>1, PacketCallbackInv, OtherPacketInv, ThreadTermInv, TcpReceiveInv DEF Next
<1>2. CASE UNCHANGED vars
  <2>1. HATyped' /\ FlowsOK' /\ CriticalTold'
    <3>1. HATyped'
      BY <1>2 DEF vars, HAInv, HATyped
    <3>2. FlowsOK'
      BY <1>2, Zenon DEF vars, HAInv, FlowsOK, FlowOK, Begun
    <3>3. CriticalTold'
      BY <1>2 DEF vars, HAInv, CriticalTold
    <3> QED
      BY <3>1, <3>2, <3>3
  <2>2. /\ setup' = setup /\ flow' = flow /\ sock' = sock /\ ring' = ring /\ lost' = lost
        /\ down' = down
    BY <1>2 DEF vars
  <2>3. ASSUME NEW p \in Peers
        PROVE  Synced(p)'
    <3>1. Synced(p)
      BY DEF HAInv, AllSynced
    <3> QED
      BY <2>2, <3>1, SyncedNext, Zenon DEF Synced
  <2> QED
    BY <2>1, <2>3 DEF HAInv, AllSynced
<1> QED
  BY <1>1, <1>2

(* The inductive invariant of the two peers and their channel: the types,  *)
(* what is true of every flow (FlowsOK), the drop flags a partner was told *)
(* of (CriticalTold), and that the message on its way, or the copy, agrees *)
(* with the active UDP flow (AllSynced).                                   *)
THEOREM HAInductive == Spec => []HAInv
<1>1. Init => HAInv
  BY HAInit
<1>2. HAInv /\ [Next]_vars => HAInv'
  BY HANext
<1> QED
  BY <1>1, <1>2, PTL DEF Spec

(* The types of the flows and messages, and the bound of the receive ring  *)
(* (TcpConnector::process_receive()), for rings of any size.               *)
THEOREM HATypesKept == Spec => []TypeOK
<1>1. Seq(Sent) \subseteq Seq(Messages)
  <2>1. Sent \subseteq Messages
    BY DEF Sent
  <2> QED
    BY <2>1
<1>2. HAInv => TypeOK
  BY <1>1 DEF HAInv, HATyped, TypeOK
<1> QED
  BY <1>2, HAInductive, PTL

(* That a session is blocked is not forgotten: update_flags() and          *)
(* process_update() have told the partner, or are going to.                *)
THEOREM BlockedIsTold == Spec => []CriticalTold
<1>1. HAInv => CriticalTold
  BY DEF HAInv
<1> QED
  BY <1>1, HAInductive, PTL

(* When nothing is on its way and the active peer has nothing to send, the *)
(* standby copy of a UDP flow agrees with the active one in all that       *)
(* update_flags() sees, with any number of messages on their way, and lost *)
(* before.                                                                 *)
THEOREM UdpCopiesInSync == Spec => []UdpCopiesAgree
<1>1. ASSUME HAInv
      PROVE  UdpCopiesAgree
  <2>1. SUFFICES ASSUME setup.proto = "udp", NEW p \in Peers, Settled, IsActive(p),
                        "MODIFIED" \notin flow[p].ha, Standby(Partner(p))
                 PROVE  Agree(flow[p], flow[Partner(p)].flags, flow[Partner(p)].state)
    BY DEF UdpCopiesAgree, CopiesAgree
  <2>2. Synced(p) /\ Partner(p) \in Peers
    BY <1>1, Partners DEF HAInv, AllSynced
  <2>3. /\ ~lost[Partner(p)] /\ ~down[Partner(p)] /\ sock[p] = <<>>
        /\ ring[Partner(p)] = <<>>
    BY <2>1, <2>2 DEF Settled
  <2>4. CASE Cleared(flow[p])
    BY <2>4 DEF Agree
  <2>5. CASE ~Cleared(flow[p])
    BY <2>1, <2>2, <2>3, <2>5, Zenon DEF Synced, Quiet, InStep, IsActive, Standby
  <2> QED
    BY <2>4, <2>5
<1>2. HAInv => UdpCopiesAgree
  BY <1>1
<1> QED
  BY <1>2, HAInductive, PTL

(* A peer that shuts down tells its partner nothing (process_deletion()    *)
(* returns when shutting_down), so the standby copies stay.                *)
THEOREM TermSendsNothing == Spec => FailoverKept
<1>1. ASSUME HAInv, [Next]_vars
      PROVE  [\A p \in Peers : down'[p] /\ ~down[p] => sock'[p] = sock[p]]_vars
  <2>1. CASE UNCHANGED vars
    BY <2>1
  <2>2. ASSUME NEW p \in Peers, ThreadTerm(p)
        PROVE  sock' = sock
    BY <1>1, <2>2, ThreadTermInv
  <2>3. ASSUME NEW p \in Peers, PacketCallback(p) \/ OtherPacket(p) \/ TcpReceive(p)
        PROVE  down' = down
    BY <2>3 DEF PacketCallback, OtherPacket, TcpReceive
  <2> QED
    BY <1>1, <2>1, <2>2, <2>3 DEF Next
<1>2. HAInv /\ [Next]_vars => [\A p \in Peers : down'[p] /\ ~down[p] => sock'[p] = sock[p]]_vars
  BY <1>1
<1> QED
  BY <1>2, HAInductive, PTL DEF Spec, FailoverKept
=============================================================================
