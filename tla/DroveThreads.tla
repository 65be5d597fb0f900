---------------------------- MODULE DroveThreads ----------------------------
(***************************************************************************)
(* Proofs about Drove, 1: queues, names and types; what a step of a packet *)
(* thread does: it changes the pig of that thread as Steps says, and       *)
(* leaves the main thread alone; and the steps of the main thread that are *)
(* Quiet: they touch no command.                                           *)
(***************************************************************************)
EXTENDS DroveInv, TLAPS
-----------------------------------------------------------------------------
(* What taking the oldest element leaves in a queue.                       *)
LEMMA Taken ==
    ASSUME NEW S, NEW s \in Seq(S), s # <<>>
    PROVE  /\ Head(s) \in S /\ Tail(s) \in Seq(S)
           /\ Range(s) = {Head(s)} \cup Range(Tail(s))
           /\ IsInjective(s) => IsInjective(Tail(s)) /\ Head(s) \notin Range(Tail(s))
<1>1. /\ Len(s) \in Nat /\ Len(s) >= 1 /\ DOMAIN s = 1 .. Len(s)
      /\ Head(s) = s[1] /\ Head(s) \in S
      /\ Tail(s) \in Seq(S) /\ DOMAIN Tail(s) = 1 .. Len(s) - 1
      /\ \A j \in 1 .. Len(s) - 1 : Tail(s)[j] = s[j + 1]
  OBVIOUS
<1>2. Range(s) \subseteq {Head(s)} \cup Range(Tail(s))
  <2> SUFFICES ASSUME NEW j \in 1 .. Len(s)
               PROVE  s[j] \in {Head(s)} \cup Range(Tail(s))
    BY <1>1 DEF Range
  <2>1. CASE j = 1
    BY <2>1, <1>1
  <2>2. CASE j # 1
    <3>1. j - 1 \in 1 .. Len(s) - 1 /\ s[j] = Tail(s)[j - 1]
      BY <2>2, <1>1
    <3> QED
      BY <3>1, <1>1, Zenon DEF Range
  <2> QED
    BY <2>1, <2>2
<1>3. {Head(s)} \cup Range(Tail(s)) \subseteq Range(s)
  <2>1. 1 \in DOMAIN s /\ \A j \in 1 .. Len(s) - 1 : j + 1 \in DOMAIN s
    BY <1>1
  <2> QED
    BY <2>1, <1>1 DEF Range
<1>4. ASSUME IsInjective(s)
      PROVE  IsInjective(Tail(s)) /\ Head(s) \notin Range(Tail(s))
  <2>1. \A a, b \in 1 .. Len(s) : s[a] = s[b] => a = b
    BY <1>1, <1>4 DEF IsInjective
  <2>2. \A a \in 1 .. Len(s) - 1 : a + 1 \in 1 .. Len(s) /\ 1 \in 1 .. Len(s) /\ a + 1 # 1
    BY <1>1
  <2>3. \A a, b \in 1 .. Len(s) - 1 : a + 1 = b + 1 => a = b
    BY <1>1
  <2> QED
    BY <1>1, <2>1, <2>2, <2>3 DEF IsInjective, Range
<1> QED
  BY <1>1, <1>2, <1>3, <1>4

(* What adding an element does to a queue.                                 *)
LEMMA Added ==
    ASSUME NEW S, NEW s \in Seq(S), NEW x \in S
    PROVE  /\ Append(s, x) \in Seq(S) /\ Append(s, x) # <<>>
           /\ Range(Append(s, x)) = Range(s) \cup {x}
           /\ IsInjective(s) /\ x \notin Range(s) => IsInjective(Append(s, x))
<1>1. /\ Len(s) \in Nat /\ DOMAIN s = 1 .. Len(s) /\ DOMAIN Append(s, x) = 1 .. Len(s) + 1
      /\ Append(s, x) \in Seq(S) /\ Append(s, x) # <<>>
      /\ \A j \in 1 .. Len(s) : Append(s, x)[j] = s[j]
      /\ Append(s, x)[Len(s) + 1] = x
  OBVIOUS
<1>2. \A j \in 1 .. Len(s) + 1 : j \in 1 .. Len(s) \/ j = Len(s) + 1
  BY <1>1
<1>3. \A j \in 1 .. Len(s) : j \in 1 .. Len(s) + 1 /\ Len(s) + 1 \in 1 .. Len(s) + 1
  BY <1>1
<1>4. Len(s) + 1 \in 1 .. Len(s) + 1
  BY <1>1
<1>5. Range(Append(s, x)) = Range(s) \cup {x}
  BY <1>1, <1>2, <1>3, <1>4 DEF Range
<1>6. ASSUME IsInjective(s), x \notin Range(s)
      PROVE  IsInjective(Append(s, x))
  BY <1>1, <1>2, <1>6 DEF Range, IsInjective
<1> QED
  BY <1>1, <1>5, <1>6

(* An empty queue.                                                         *)
LEMMA Emptied == Range(<<>>) = {} /\ IsInjective(<<>>) /\ \A S : <<>> \in Seq(S)
  BY DEF Range, IsInjective

(* The elements of a queue.                                                *)
LEMMA Members ==
    ASSUME NEW S, NEW s \in Seq(S)
    PROVE  Range(s) \subseteq S
  BY DEF Range

(* The names of places, states and kinds.                                  *)
LEMMA Names ==
    /\ None \notin CmdId /\ None \notin Config /\ None \notin Users
    /\ None \notin AnalyzerStates /\ None \notin Places
    /\ \A S : None \in NullOr(S) /\ S \subseteq NullOr(S)
  BY NullPointer DEF NullOr

(* Names of places and states belong where they are used.                  *)
LEMMA Literals ==
    /\ "init" \in NullOr(Places) /\ "loop" \in NullOr(Places) /\ "acquire" \in NullOr(Places)
    /\ "over" \in NullOr(Places) /\ "poke" \in NullOr(Places) /\ "exit" \in NullOr(Places)
    /\ "complete" \in NullOr(Places)
    /\ "loop" \in NullOr({"loop", "complete", "exit"})
    /\ "exit" \in NullOr({"loop", "complete", "exit"})
    /\ "complete" \in NullOr({"loop", "complete", "exit"})
    /\ "live" \in NullOr({"live", "deleted"}) /\ "deleted" \in NullOr({"live", "deleted"})
    /\ "NEW" \in NullOr(AnalyzerStates) /\ "INITIALIZED" \in NullOr(AnalyzerStates)
    /\ "STARTED" \in NullOr(AnalyzerStates) /\ "RUNNING" \in NullOr(AnalyzerStates)
    /\ "PAUSED" \in NullOr(AnalyzerStates) /\ "STOPPED" \in NullOr(AnalyzerStates)
    /\ TRUE \in BOOLEAN /\ FALSE \in BOOLEAN
  BY DEF NullOr, Places, AnalyzerStates

(* Names of places of the main thread.                                     *)
LEMMA MainNames ==
    /\ "loop" \in MainPlaces /\ "dispatch" \in MainPlaces /\ "break" \in MainPlaces
    /\ "join" \in MainPlaces /\ "users" \in MainPlaces /\ "signal" \in MainPlaces
    /\ "reap" \in MainPlaces /\ "done" \in MainPlaces /\ "crashed" \in MainPlaces
    /\ TRUE \in BOOLEAN /\ FALSE \in BOOLEAN
  BY DEF MainPlaces

(* All pigs, each once.                                                    *)
LEMMA AllPigsOnce ==
    /\ AllPigs \in Seq(Pigs) /\ Range(AllPigs) = Pigs /\ IsInjective(AllPigs)
    /\ AllPigs # <<>> /\ Len(AllPigs) = MaxPigs
<1>1. MaxPigs \in Nat /\ MaxPigs > 0
  BY DroveConstants
<1>2. AllPigs \in Seq(Pigs) /\ Len(AllPigs) = MaxPigs
  BY <1>1 DEF AllPigs, Pigs
<1>3. \A i \in Pigs : i + 1 \in 1 .. MaxPigs /\ (i + 1) - 1 = i
  BY <1>1 DEF Pigs
<1>4. \A i \in 1 .. MaxPigs : i - 1 \in Pigs
  BY <1>1 DEF Pigs
<1>5. DOMAIN AllPigs = 1 .. MaxPigs /\ \A i \in 1 .. MaxPigs : AllPigs[i] = i - 1
  BY DEF AllPigs
<1>6. Range(AllPigs) = Pigs
  BY <1>3, <1>4, <1>5 DEF Range
<1>7. IsInjective(AllPigs)
  BY <1>1, <1>5 DEF IsInjective
<1> QED
  BY <1>1, <1>2, <1>6, <1>7

(* The new configuration of a reload: what is new was not in existence.    *)
LEMMA NewConfType ==
    ASSUME TypeOK, NEW r, live.conf # Config, live.attr # Config
    PROVE  /\ NewConf(r) \in ConfPair /\ OldConf(NewConf(r)) \in ConfPair
           /\ NewConf(r).conf # None => NewConf(r).conf \in Config \ live.conf
           /\ NewConf(r).attr # None => NewConf(r).attr \in Config \ live.attr
<1>1. live.conf \subseteq Config /\ live.attr \subseteq Config /\ m.conf \in ConfPair
  BY DEF TypeOK, MainType
<1>2. Unused(live.conf) \in Config \ live.conf /\ Unused(live.attr) \in Config \ live.attr
  BY <1>1 DEF Unused
<1>3. /\ NewConf(r).conf \in {None} \cup (Config \ live.conf)
      /\ NewConf(r).attr \in {None} \cup (Config \ live.attr)
  BY <1>2 DEF NewConf
<1>4. NewConf(r) \in ConfPair
  BY <1>3 DEF NewConf, ConfPair, NullOr
<1>5. OldConf(NewConf(r)) \in ConfPair
  BY <1>1 DEF OldConf, ConfPair, NullOr
<1> QED
  BY <1>3, <1>4, <1>5

(* A pig without analyzer.                                                 *)
LEMMA LazyPigType ==
    /\ LazyPig \in PigType
    /\ LazyPig.state = None /\ LazyPig.thr = None /\ LazyPig.work = None
    /\ LazyPig.pending = <<>> /\ LazyPig.completed = <<>>
<1>1. /\ None \in NullOr(AnalyzerStates) /\ None \in NullOr(Places)
      /\ None \in NullOr({"loop", "complete", "exit"}) /\ None \in NullOr({"live", "deleted"})
      /\ None \in NullOr(CmdId) /\ None \in NullOr(Config) /\ FALSE \in BOOLEAN
  BY DEF NullOr
<1>2. NoConf \in ConfPair
  BY <1>1, Zenon DEF NoConf, ConfPair
<1>3. LazyPig \in PigType
  BY <1>1, <1>2, Emptied, Zenon DEF LazyPig, PigType
<1>4. /\ LazyPig.state = None /\ LazyPig.thr = None /\ LazyPig.work = None
      /\ LazyPig.pending = <<>> /\ LazyPig.completed = <<>>
  BY DEF LazyPig
<1> QED
  BY <1>3, <1>4

(* SetState, Handed and Changed, as records.                               *)
Set(p, s, then) == [p EXCEPT !.state = s, !.thr = "poke", !.ret = then]

Hand(p) == [p EXCEPT !.pending = Tail(p.pending), !.completed = Append(p.completed, Head(p.pending))]

Change(p, s) == [p EXCEPT !.state = s, !.thr = "poke", !.ret = "complete",
                          !.pending = Tail(p.pending), !.work = Head(p.pending)]

(* Analyzer::set_state(): the thread goes on to announce the new state.    *)
LEMMA SetSteps ==
    ASSUME NEW p \in PigType, PigOK(p), NEW s \in AnalyzerStates \ {"NEW"}, NEW t \in {"loop", "exit"},
           p.thr \in {"init", "loop", "over"}, s = "STOPPED" <=> t = "exit",
           NEW q \in PigType,
           q.state = s /\ q.thr = "poke" /\ q.ret = t /\ q.work = p.work,
           q.pending = p.pending /\ q.completed = p.completed /\ q.conf = p.conf,
           p.thr = "over" => t = "exit"
    PROVE  Steps(p, q)
<1>2. p.state # None /\ s # None /\ p.work = None
  BY Names DEF PigOK, Places
<1>3. PigOK(q)
  BY <1>2, Names DEF PigOK
<1>4. Held(q) = Held(p)
  BY DEF Held
<1>5. q.thr # "acquire"
  OBVIOUS
<1>6. Inside(q) => Inside(p)
  BY Names DEF Inside, PigOK, Places
<1> QED
  BY <1>2, <1>3, <1>4, <1>5, <1>6 DEF Steps

(* A command is executed and handed back to the main thread at once.       *)
LEMMA HandSteps ==
    ASSUME NEW p \in PigType, PigOK(p), p.thr = "loop", p.pending # <<>>,
           NEW q \in PigType,
           q.state = p.state /\ q.thr = p.thr /\ q.work = p.work,
           q.pending = Tail(p.pending) /\ q.completed = Append(p.completed, Head(p.pending)),
           LET c == cmd[Head(p.pending)] IN
             \/ q.conf = p.conf /\ (c.kind = "SWAP" => WriteFaults /\ c.fd # None)
             \/ q.conf = Apply(p.conf, c.new) /\ c.kind = "SWAP"
    PROVE  Steps(p, q)
<1>1. p.pending \in Seq(CmdId) /\ p.completed \in Seq(CmdId)
  BY DEF PigType
<1>2. /\ Head(p.pending) \in CmdId
      /\ Range(p.pending) = {Head(p.pending)} \cup Range(Tail(p.pending))
      /\ IsInjective(p.pending) => IsInjective(Tail(p.pending)) /\ Head(p.pending) \notin Range(Tail(p.pending))
  BY <1>1, Taken
<1>3. Range(q.completed) = Range(p.completed) \cup {Head(p.pending)}
  BY <1>1, <1>2, Added
<1>4. p.state # None /\ p.work = None
  BY Names DEF PigOK, Places
<1>5. PigOK(q)
  BY <1>2, <1>3, <1>4, Names DEF PigOK
<1>6. Held(q) = Held(p)
  BY <1>2, <1>3 DEF Held
<1>7. Inside(q) => Inside(p)
  BY DEF Inside
<1> QED
  BY <1>4, <1>5, <1>6, <1>7 DEF Steps

(* A command changes the state, and is handed back after the announcement. *)
LEMMA ChangeSteps ==
    ASSUME NEW p \in PigType, PigOK(p), p.thr = "loop", p.pending # <<>>,
           NEW q \in PigType,
           q.state \in AnalyzerStates \ {"NEW", "STOPPED"}, 
           q.thr = "poke" /\ q.ret = "complete" /\ q.work = Head(p.pending),
           q.pending = Tail(p.pending) /\ q.completed = p.completed,
           q.conf = p.conf /\ cmd[Head(p.pending)].kind # "SWAP"
    PROVE  Steps(p, q)
<1>1. p.pending \in Seq(CmdId) /\ p.completed \in Seq(CmdId)
  BY DEF PigType
<1>2. /\ Head(p.pending) \in CmdId
      /\ Range(p.pending) = {Head(p.pending)} \cup Range(Tail(p.pending))
      /\ IsInjective(p.pending) => IsInjective(Tail(p.pending)) /\ Head(p.pending) \notin Range(Tail(p.pending))
  BY <1>1, Taken
<1>4. p.state # None /\ p.work = None /\ Head(p.pending) # None /\ q.state # None
  BY <1>2, Names DEF PigOK, Places
<1>5. PigOK(q)
  BY <1>2, <1>4, Names DEF PigOK
<1>6. Held(q) = Held(p)
  BY <1>2, <1>4 DEF Held
<1>7. Inside(q) => Inside(p)
  BY Names DEF Inside, PigOK, Places
<1> QED
  BY <1>4, <1>5, <1>6, <1>7 DEF Steps

(* Each action of a packet thread is a step of its pig.  Initialization of *)
(* the thread ...                                                          *)
LEMMA TInitSteps ==
    ASSUME TypeOK, NEW i \in Pigs, PigOK(pig[i]), TInit(i)
    PROVE  \E q : pig' = [pig EXCEPT ![i] = q] /\ Steps(pig[i], q)
<1> DEFINE q == [Set(pig[i], "INITIALIZED", "loop") EXCEPT !.daq = "live"]
<1>1. pig' = [pig EXCEPT ![i] = q]
  BY Zenon DEF TInit, SetState, Set, TypeOK
<1>2. pig[i] \in PigType
  BY DEF TypeOK
<1>3. q \in PigType
  BY <1>2, Literals, Zenon DEF PigType, Set
<1>4. /\ q.state = "INITIALIZED" /\ q.thr = "poke" /\ q.ret = "loop" /\ q.work = pig[i].work
      /\ q.pending = pig[i].pending /\ q.completed = pig[i].completed /\ q.conf = pig[i].conf
  BY <1>2 DEF Set, PigType
<1> HIDE DEF q
<1>5. Steps(pig[i], q)
  BY <1>2, <1>3, <1>4, SetSteps DEF TInit, At, AnalyzerStates
<1> QED
  BY <1>1, <1>5, Zenon

(* ... which may fail ...                                                  *)
LEMMA TInitFailsSteps ==
    ASSUME TypeOK, NEW i \in Pigs, PigOK(pig[i]), TInitFails(i)
    PROVE  \E q : pig' = [pig EXCEPT ![i] = q] /\ Steps(pig[i], q)
<1> DEFINE q == Set(pig[i], "STOPPED", "exit")
<1>1. pig' = [pig EXCEPT ![i] = q]
  BY Zenon DEF TInitFails, SetState, Set, TypeOK
<1>2. pig[i] \in PigType
  BY DEF TypeOK
<1>3. q \in PigType
  BY <1>2, Literals, Zenon DEF PigType, Set
<1>4. /\ q.state = "STOPPED" /\ q.thr = "poke" /\ q.ret = "exit" /\ q.work = pig[i].work
      /\ q.pending = pig[i].pending /\ q.completed = pig[i].completed /\ q.conf = pig[i].conf
  BY <1>2 DEF Set, PigType
<1> HIDE DEF q
<1>5. Steps(pig[i], q)
  BY <1>2, <1>3, <1>4, SetSteps DEF TInitFails, At, AnalyzerStates
<1> QED
  BY <1>1, <1>5, Zenon

(* ... the end of Analyzer::operator() ...                                 *)
LEMMA TStoppedSteps ==
    ASSUME TypeOK, NEW i \in Pigs, PigOK(pig[i]), TStopped(i)
    PROVE  \E q : pig' = [pig EXCEPT ![i] = q] /\ Steps(pig[i], q)
<1> DEFINE q == Set(pig[i], "STOPPED", "exit")
<1>1. pig' = [pig EXCEPT ![i] = q]
  BY Zenon DEF TStopped, SetState, Set, TypeOK
<1>2. pig[i] \in PigType
  BY DEF TypeOK
<1>3. q \in PigType
  BY <1>2, Literals, Zenon DEF PigType, Set
<1>4. /\ q.state = "STOPPED" /\ q.thr = "poke" /\ q.ret = "exit" /\ q.work = pig[i].work
      /\ q.pending = pig[i].pending /\ q.completed = pig[i].completed /\ q.conf = pig[i].conf
  BY <1>2 DEF Set, PigType
<1> HIDE DEF q
<1>5. Steps(pig[i], q)
  BY <1>2, <1>3, <1>4, SetSteps DEF TStopped, At, AnalyzerStates
<1> QED
  BY <1>1, <1>5, Zenon

(* ... the pause after so many packets ...                                 *)
LEMMA TAutoPauseSteps ==
    ASSUME TypeOK, NEW i \in Pigs, PigOK(pig[i]), TAutoPause(i)
    PROVE  \E q : pig' = [pig EXCEPT ![i] = q] /\ Steps(pig[i], q)
<1>2. pig[i] \in PigType
  BY DEF TypeOK
<1>3. CASE pig[i].state = "RUNNING"
  <2> DEFINE q == Set(pig[i], "PAUSED", "loop")
  <2>1. pig' = [pig EXCEPT ![i] = q]
    BY <1>3, Zenon DEF TAutoPause, SetState, Set, TypeOK
  <2>2. q \in PigType
    BY <1>2, Literals, Zenon DEF PigType, Set
  <2>3. /\ q.state = "PAUSED" /\ q.thr = "poke" /\ q.ret = "loop" /\ q.work = pig[i].work
        /\ q.pending = pig[i].pending /\ q.completed = pig[i].completed /\ q.conf = pig[i].conf
    BY <1>2 DEF Set, PigType
  <2> HIDE DEF q
  <2>4. Steps(pig[i], q)
    BY <1>2, <2>2, <2>3, SetSteps DEF TAutoPause, At, AnalyzerStates
  <2> QED
    BY <2>1, <2>4, Zenon
<1>4. CASE pig[i].state # "RUNNING"
  <2>1. pig' = [pig EXCEPT ![i] = pig[i]]
    BY <1>4 DEF TAutoPause, TypeOK
  <2>2. Steps(pig[i], pig[i])
    BY <1>2, Names DEF Steps, TAutoPause, At, PigOK, Places
  <2> QED
    BY <2>1, <2>2, Zenon
<1> QED
  BY <1>3, <1>4

(* ... the announcement of a state, when the ring takes it ...             *)
LEMMA TPokeSteps ==
    ASSUME TypeOK, NEW i \in Pigs, PigOK(pig[i]), TPoke(i)
    PROVE  \E q : pig' = [pig EXCEPT ![i] = q] /\ Steps(pig[i], q)
<1> DEFINE p == pig[i]
           q == [p EXCEPT !.thr = p.ret, !.ret = None]
<1>1. pig' = [pig EXCEPT ![i] = q]
  BY Zenon DEF TPoke, TypeOK
<1>2. p \in PigType
  BY DEF TypeOK
<1>3. q \in PigType
  <2>1. p.ret \in NullOr({"loop", "complete", "exit"})
    BY <1>2 DEF PigType
  <2>2. p.ret \in NullOr(Places) /\ None \in NullOr({"loop", "complete", "exit"})
    BY <2>1 DEF NullOr, Places
  <2> QED
    BY <1>2, <2>2, Zenon DEF PigType
<1>4. /\ q.state = p.state /\ q.thr = p.ret /\ q.work = p.work
      /\ q.pending = p.pending /\ q.completed = p.completed /\ q.conf = p.conf
      /\ p.ret \in {None, "loop", "complete", "exit"} /\ p.thr = "poke"
  BY <1>2 DEF PigType, NullOr, TPoke, At
<1>5. p.state # None /\ "poke" # None /\ "complete" # None /\ "acquire" # None
  BY <1>4, Names DEF PigOK, Places
<1> HIDE DEF p, q
<1>6. PigOK(p)
  BY DEF p
<1>7. PigOK(q)
  BY <1>4, <1>5, <1>6 DEF PigOK
<1>8. Steps(p, q)
  BY <1>3, <1>4, <1>5, <1>6, <1>7 DEF Steps, Held, Inside
<1> QED
  BY <1>1, <1>8, Zenon DEF p

(* ... the call of acquire() ...                                           *)
LEMMA TAcquireSteps ==
    ASSUME TypeOK, NEW i \in Pigs, PigOK(pig[i]), TAcquire(i)
    PROVE  \E q : pig' = [pig EXCEPT ![i] = q] /\ Steps(pig[i], q)
<1> DEFINE p == pig[i]
           q == [p EXCEPT !.thr = "acquire"]
<1>1. pig' = [pig EXCEPT ![i] = q]
  BY Zenon DEF TAcquire, TypeOK
<1>2. p \in PigType /\ PigOK(p)
  BY DEF TypeOK
<1>3. q \in PigType
  BY <1>2, Literals, Zenon DEF PigType
<1>4. /\ q.state = p.state /\ q.work = p.work /\ q.pending = p.pending
      /\ q.completed = p.completed /\ q.conf = p.conf
      /\ q.thr = "acquire" /\ p.thr = "loop" /\ p.pending = <<>> /\ p.state = "RUNNING"
  BY <1>2 DEF PigType, TAcquire, At, Places
<1>5. p.state # None /\ p.work = None
  BY <1>2, <1>4, Names DEF PigOK, Places
<1> HIDE DEF p, q
<1>6. PigOK(q)
  BY <1>2, <1>4, <1>5, Names DEF PigOK, Places
<1>7. Steps(p, q)
  BY <1>2, <1>3, <1>4, <1>5, <1>6, Names DEF Steps, Held, Inside, Places
<1> QED
  BY <1>1, <1>7, Zenon DEF p

(* ... its return with packets ...                                         *)
LEMMA TPacketSteps ==
    ASSUME TypeOK, NEW i \in Pigs, PigOK(pig[i]), TPacket(i)
    PROVE  \E q : pig' = [pig EXCEPT ![i] = q] /\ Steps(pig[i], q)
<1> DEFINE p == pig[i]
           q == [p EXCEPT !.breaking = TRUE]
<1>1. pig' = [pig EXCEPT ![i] = q]
  BY Zenon DEF TPacket, TypeOK
<1>2. p \in PigType /\ PigOK(p)
  BY DEF TypeOK
<1>3. q \in PigType
  BY <1>2, Literals, Zenon DEF PigType
<1>4. /\ q.state = p.state /\ q.work = p.work /\ q.pending = p.pending
      /\ q.completed = p.completed /\ q.conf = p.conf
      /\ q.thr = "acquire" /\ p.thr = "acquire" /\ q.breaking = TRUE
  BY <1>2 DEF PigType, TPacket, At, Places
<1>5. p.state # None /\ p.work = None
  BY <1>2, <1>4, Names DEF PigOK, Places
<1> HIDE DEF p, q
<1>6. PigOK(q)
  BY <1>2, <1>4, <1>5, Names DEF PigOK, Places
<1>7. Steps(p, q)
  BY <1>2, <1>3, <1>4, <1>5, <1>6, Names DEF Steps, Held, Inside, Places
<1> QED
  BY <1>1, <1>7, Zenon DEF p

(* ... or without ...                                                      *)
LEMMA TIdleSteps ==
    ASSUME TypeOK, NEW i \in Pigs, PigOK(pig[i]), TIdle(i)
    PROVE  \E q : pig' = [pig EXCEPT ![i] = q] /\ Steps(pig[i], q)
<1> DEFINE p == pig[i]
           q == [p EXCEPT !.thr = "loop", !.breaking = FALSE]
<1>1. pig' = [pig EXCEPT ![i] = q]
  BY Zenon DEF TIdle, TypeOK
<1>2. p \in PigType /\ PigOK(p)
  BY DEF TypeOK
<1>3. q \in PigType
  BY <1>2, Literals, Zenon DEF PigType
<1>4. /\ q.state = p.state /\ q.work = p.work /\ q.pending = p.pending
      /\ q.completed = p.completed /\ q.conf = p.conf
      /\ q.thr = "loop" /\ p.thr = "acquire"
  BY <1>2 DEF PigType, TIdle, At, Places
<1>5. p.state # None /\ p.work = None
  BY <1>2, <1>4, Names DEF PigOK, Places
<1> HIDE DEF p, q
<1>6. PigOK(q)
  BY <1>2, <1>4, <1>5, Names DEF PigOK, Places
<1>7. Steps(p, q)
  BY <1>2, <1>3, <1>4, <1>5, <1>6, Names DEF Steps, Held, Inside, Places
<1> QED
  BY <1>1, <1>7, Zenon DEF p

(* ... the end of analyze() ...                                            *)
LEMMA TTermSteps ==
    ASSUME TypeOK, NEW i \in Pigs, PigOK(pig[i]), TTerm(i)
    PROVE  \E q : pig' = [pig EXCEPT ![i] = q] /\ Steps(pig[i], q)
<1> DEFINE p == pig[i]
           q == [p EXCEPT !.daq = "deleted", !.thr = "over"]
<1>1. pig' = [pig EXCEPT ![i] = q]
  BY Zenon DEF TTerm, TypeOK
<1>2. p \in PigType /\ PigOK(p)
  BY DEF TypeOK
<1>3. q \in PigType
  BY <1>2, Literals, Zenon DEF PigType
<1>4. /\ q.state = p.state /\ q.work = p.work /\ q.pending = p.pending
      /\ q.completed = p.completed /\ q.conf = p.conf
      /\ q.thr = "over" /\ p.thr \in {"acquire", "loop"}
  BY <1>2 DEF PigType, TTerm, At, Places
<1>5. p.state # None /\ p.work = None
  BY <1>2, <1>4, Names DEF PigOK, Places
<1> HIDE DEF p, q
<1>6. PigOK(q)
  BY <1>2, <1>4, <1>5, Names DEF PigOK, Places
<1>7. Steps(p, q)
  BY <1>2, <1>3, <1>4, <1>5, <1>6, Names DEF Steps, Held, Inside, Places
<1> QED
  BY <1>1, <1>7, Zenon DEF p

(* The records a command leaves are pigs.                                  *)
LEMMA HandType ==
    ASSUME NEW p \in PigType, p.pending # <<>>
    PROVE  Hand(p) \in PigType
<1>1. p.pending \in Seq(CmdId) /\ p.completed \in Seq(CmdId)
  BY DEF PigType
<1>2. Tail(p.pending) \in Seq(CmdId) /\ Append(p.completed, Head(p.pending)) \in Seq(CmdId)
  BY <1>1, Taken, Added
<1> QED
  BY <1>2, Zenon DEF PigType, Hand

(* Likewise, with the new state.                                           *)
LEMMA ChangeType ==
    ASSUME NEW p \in PigType, p.pending # <<>>, NEW s \in NullOr(AnalyzerStates)
    PROVE  Change(p, s) \in PigType
<1>1. p.pending \in Seq(CmdId)
  BY DEF PigType
<1>2. Tail(p.pending) \in Seq(CmdId) /\ Head(p.pending) \in NullOr(CmdId)
  BY <1>1, Taken DEF NullOr
<1> QED
  BY <1>2, Literals, Zenon DEF PigType, Change

(* A configuration with some of its parts replaced is one.                 *)
LEMMA ApplyType ==
    ASSUME NEW a \in ConfPair, NEW b \in ConfPair
    PROVE  Apply(a, b) \in ConfPair
  BY DEF Apply, ConfPair

(* What Changed does, in terms of Change.                                  *)
LEMMA ChangedPig ==
    ASSUME pig \in [Pigs -> PigType], NEW i \in Pigs, NEW s
    PROVE  Changed(i, s) = [pig EXCEPT ![i] = Change(pig[i], s)]
<1>1. SetState(i, s, "complete") = [pig EXCEPT ![i] = Set(pig[i], s, "complete")]
  BY Zenon DEF SetState, Set
<1>2. Changed(i, s) = [pig EXCEPT ![i] = [Set(pig[i], s, "complete") EXCEPT !.pending = Tail(Set(pig[i], s, "complete").pending), !.work = Head(pig[i].pending)]]
  BY <1>1, Zenon DEF Changed, Work
<1>3. Set(pig[i], s, "complete").pending = pig[i].pending
  BY DEF Set, PigType
<1> QED
  BY <1>2, <1>3, Zenon DEF Change, Set

(* ... the execution of a statistics command ...                           *)
LEMMA TStatsSteps ==
    ASSUME TypeOK, NEW i \in Pigs, PigOK(pig[i]), TStats(i)
    PROVE  \E q : pig' = [pig EXCEPT ![i] = q] /\ Steps(pig[i], q)
<1> DEFINE p == pig[i]
           q == Hand(p)
<1>1. pig' = [pig EXCEPT ![i] = q]
  BY Zenon DEF TStats, Handed, Work, Hand, TypeOK
<1>2. p \in PigType /\ PigOK(p) /\ p.thr = "loop" /\ p.pending # <<>>
  BY DEF TypeOK, TStats, Executing, At
<1>3. q \in PigType
  BY <1>2, HandType, Literals, Zenon DEF PigType
<1>4. /\ q.state = p.state /\ q.thr = p.thr /\ q.work = p.work
      /\ q.pending = Tail(p.pending) /\ q.completed = Append(p.completed, Head(p.pending))
  BY <1>2 DEF PigType, Hand
<1>5. q.conf = p.conf /\ cmd[Head(p.pending)].kind # "SWAP"
  BY <1>2 DEF PigType, Hand, TStats, Kind, Work, Attached
<1> HIDE DEF p, q
<1>6. Steps(p, q)
  BY <1>2, <1>3, <1>4, <1>5, HandSteps
<1> QED
  BY <1>1, <1>6, Zenon DEF p

(* ... of a stop ...                                                       *)
LEMMA TStopSteps ==
    ASSUME TypeOK, NEW i \in Pigs, PigOK(pig[i]), TStop(i)
    PROVE  \E q : pig' = [pig EXCEPT ![i] = q] /\ Steps(pig[i], q)
<1> DEFINE p == pig[i]
           q == [Hand(p) EXCEPT !.stopping = TRUE]
<1>1. pig' = [pig EXCEPT ![i] = q]
  BY Zenon DEF TStop, Handed, Work, Hand, TypeOK
<1>2. p \in PigType /\ PigOK(p) /\ p.thr = "loop" /\ p.pending # <<>>
  BY DEF TypeOK, TStop, Executing, At
<1>3. q \in PigType
  BY <1>2, HandType, Literals, Zenon DEF PigType
<1>4. /\ q.state = p.state /\ q.thr = p.thr /\ q.work = p.work
      /\ q.pending = Tail(p.pending) /\ q.completed = Append(p.completed, Head(p.pending))
  BY <1>2 DEF PigType, Hand
<1>5. q.conf = p.conf /\ cmd[Head(p.pending)].kind # "SWAP"
  BY <1>2 DEF PigType, Hand, TStop, Kind, Work, Attached
<1> HIDE DEF p, q
<1>6. Steps(p, q)
  BY <1>2, <1>3, <1>4, <1>5, HandSteps
<1> QED
  BY <1>1, <1>6, Zenon DEF p

(* ... of one whose response cannot be written ...                         *)
LEMMA TResponseFailsSteps ==
    ASSUME TypeOK, NEW i \in Pigs, PigOK(pig[i]), TResponseFails(i)
    PROVE  \E q : pig' = [pig EXCEPT ![i] = q] /\ Steps(pig[i], q)
<1> DEFINE p == pig[i]
           q == Hand(p)
<1>1. pig' = [pig EXCEPT ![i] = q]
  BY Zenon DEF TResponseFails, Handed, Work, Hand, TypeOK
<1>2. p \in PigType /\ PigOK(p) /\ p.thr = "loop" /\ p.pending # <<>>
  BY DEF TypeOK, TResponseFails, Executing, At
<1>3. q \in PigType
  BY <1>2, HandType, Literals, Zenon DEF PigType
<1>4. /\ q.state = p.state /\ q.thr = p.thr /\ q.work = p.work
      /\ q.pending = Tail(p.pending) /\ q.completed = Append(p.completed, Head(p.pending))
  BY <1>2 DEF PigType, Hand
<1>5. q.conf = p.conf /\ WriteFaults /\ cmd[Head(p.pending)].fd # None
  BY <1>2, Zenon DEF PigType, Hand, TResponseFails, Kind, Work, Attached
<1> HIDE DEF p, q
<1>6. Steps(p, q)
  BY <1>2, <1>3, <1>4, <1>5, HandSteps
<1> QED
  BY <1>1, <1>6, Zenon DEF p

(* ... of a swap ...                                                       *)
LEMMA TSwapSteps ==
    ASSUME TypeOK, NEW i \in Pigs, PigOK(pig[i]), TSwap(i)
    PROVE  \E q : pig' = [pig EXCEPT ![i] = q] /\ Steps(pig[i], q)
<1> DEFINE p == pig[i]
           q == [Hand(p) EXCEPT !.conf = Apply(p.conf, cmd[Head(p.pending)].new)]
<1>1. pig' = [pig EXCEPT ![i] = q]
  BY Zenon DEF TSwap, Handed, Work, Hand, TypeOK
<1>2. p \in PigType /\ PigOK(p) /\ p.thr = "loop" /\ p.pending # <<>>
  BY DEF TypeOK, TSwap, Executing, At
<1>3. q \in PigType
  <2>1. p.conf \in ConfPair /\ p.pending \in Seq(CmdId)
    BY <1>2 DEF PigType
  <2>2. cmd[Head(p.pending)].new \in ConfPair
    BY <1>2, <2>1, Taken DEF TypeOK, CmdType
  <2>3. Hand(p) \in PigType /\ Apply(p.conf, cmd[Head(p.pending)].new) \in ConfPair
    BY <1>2, <2>1, <2>2, HandType, ApplyType
  <2> QED
    BY <2>3, Zenon DEF PigType
<1>4. /\ q.state = p.state /\ q.thr = p.thr /\ q.work = p.work
      /\ q.pending = Tail(p.pending) /\ q.completed = Append(p.completed, Head(p.pending))
  BY <1>2 DEF PigType, Hand
<1>5. q.conf = Apply(p.conf, cmd[Head(p.pending)].new) /\ cmd[Head(p.pending)].kind = "SWAP"
  BY <1>2 DEF PigType, Hand, TSwap, Kind, Work, Attached
<1> HIDE DEF p, q
<1>6. Steps(p, q)
  BY <1>2, <1>3, <1>4, <1>5, HandSteps
<1> QED
  BY <1>1, <1>6, Zenon DEF p

(* ... a command that changed the state being handed back ...              *)
LEMMA TCompleteSteps ==
    ASSUME TypeOK, NEW i \in Pigs, PigOK(pig[i]), TComplete(i)
    PROVE  \E q : pig' = [pig EXCEPT ![i] = q] /\ Steps(pig[i], q)
<1> DEFINE p == pig[i]
           q == [p EXCEPT !.completed = Append(p.completed, p.work), !.work = None, !.thr = "loop"]
<1>1. pig' = [pig EXCEPT ![i] = q]
  BY Zenon DEF TComplete, TypeOK
<1>2. p \in PigType /\ PigOK(p) /\ p.thr = "complete"
  BY DEF TypeOK, TComplete, At
<1>3. p.completed \in Seq(CmdId) /\ p.work \in CmdId
  BY <1>2 DEF PigType, PigOK, NullOr
<1>4. /\ Append(p.completed, p.work) \in Seq(CmdId)
      /\ Range(Append(p.completed, p.work)) = Range(p.completed) \cup {p.work}
  BY <1>3, Added
<1>5. q \in PigType
  BY <1>2, <1>4, Literals, Names, Zenon DEF PigType
<1>6. /\ q.state = p.state /\ q.thr = "loop" /\ q.work = None
      /\ q.pending = p.pending /\ q.completed = Append(p.completed, p.work) /\ q.conf = p.conf
  BY <1>2 DEF PigType
<1>7. p.state # None /\ p.work # None /\ None \notin CmdId /\ p.state # "NEW" /\ p.state # "STOPPED"
  BY <1>2, <1>3, Names DEF PigOK, Places
<1>8. Range(p.pending) \subseteq CmdId /\ Range(p.completed) \subseteq CmdId
  BY <1>2, Members DEF PigType
<1> HIDE DEF p, q
<1>9. PigOK(q)
  BY <1>2, <1>3, <1>4, <1>6, <1>7, <1>8 DEF PigOK
<1>10. Held(q) = Held(p)
  BY <1>4, <1>6, <1>7 DEF Held
<1>11. Inside(p)
  BY <1>2, <1>7, Names DEF Inside, Places
<1>12. Steps(p, q)
  BY <1>5, <1>6, <1>7, <1>9, <1>10, <1>11 DEF Steps
<1> QED
  BY <1>1, <1>12, Zenon DEF p

(* ... the execution of a start ...                                        *)
LEMMA TStartSteps ==
    ASSUME TypeOK, NEW i \in Pigs, PigOK(pig[i]), TStart(i)
    PROVE  \E q : pig' = [pig EXCEPT ![i] = q] /\ Steps(pig[i], q)
<1>0. PICK failed \in BOOLEAN : pig' = [Changed(i, "STARTED") EXCEPT ![i].stopping = failed]
  BY Zenon DEF TStart
<1> DEFINE p == pig[i]
           q == [Change(p, "STARTED") EXCEPT !.stopping = failed]
<1>1. pig' = [pig EXCEPT ![i] = q]
  <2>1. Changed(i, "STARTED") = [pig EXCEPT ![i] = Change(p, "STARTED")]
    BY ChangedPig DEF TypeOK
  <2> QED
    BY <1>0, <2>1, Zenon DEF TypeOK
<1>2. p \in PigType /\ PigOK(p) /\ p.thr = "loop" /\ p.pending # <<>>
  BY DEF TypeOK, TStart, Executing, At
<1>3. q \in PigType
  BY <1>2, ChangeType, Literals, Zenon DEF PigType
<1>4. /\ q.state = "STARTED"
      /\ q.thr = "poke" /\ q.ret = "complete" /\ q.work = Head(p.pending)
      /\ q.pending = Tail(p.pending) /\ q.completed = p.completed /\ q.conf = p.conf
  BY <1>2 DEF PigType, Change
<1>5. cmd[Head(p.pending)].kind # "SWAP"
  BY DEF TStart, Kind, Work
<1> HIDE DEF p, q
<1>6. Steps(p, q)
  BY <1>2, <1>3, <1>4, <1>5, ChangeSteps DEF AnalyzerStates
<1> QED
  BY <1>1, <1>6, Zenon DEF p

(* ... of a run ...                                                        *)
LEMMA TRunSteps ==
    ASSUME TypeOK, NEW i \in Pigs, PigOK(pig[i]), TRun(i)
    PROVE  \E q : pig' = [pig EXCEPT ![i] = q] /\ Steps(pig[i], q)
<1> DEFINE s == IF cmd[Work(i)].paused THEN "PAUSED" ELSE "RUNNING"
<1>0. s \in NullOr(AnalyzerStates) /\ s \in {"PAUSED", "RUNNING"} /\ pig' = Changed(i, s)
  BY Literals DEF TRun
<1> HIDE DEF s
<1> DEFINE p == pig[i]
           q == Change(p, s)
<1>1. pig' = [pig EXCEPT ![i] = q]
  BY <1>0, ChangedPig, Zenon DEF TypeOK
<1>2. p \in PigType /\ PigOK(p) /\ p.thr = "loop" /\ p.pending # <<>>
  BY DEF TypeOK, TRun, Executing, At
<1>3. q \in PigType
  BY <1>0, <1>2, ChangeType
<1>4. /\ q.state = s
      /\ q.thr = "poke" /\ q.ret = "complete" /\ q.work = Head(p.pending)
      /\ q.pending = Tail(p.pending) /\ q.completed = p.completed /\ q.conf = p.conf
  BY <1>2 DEF PigType, Change
<1>5. cmd[Head(p.pending)].kind # "SWAP"
  BY DEF TRun, Kind, Work
<1> HIDE DEF p, q
<1>6. Steps(p, q)
  BY <1>0, <1>2, <1>3, <1>4, <1>5, ChangeSteps DEF AnalyzerStates
<1> QED
  BY <1>1, <1>6, Zenon DEF p

(* ... and of a pause or a resume.                                         *)
LEMMA TPauseResumeSteps ==
    ASSUME TypeOK, NEW i \in Pigs, PigOK(pig[i]), NEW kind, kind # "SWAP", NEW from,
           NEW to \in {"PAUSED", "RUNNING"}, TPauseResume(i, kind, from, to)
    PROVE  \E q : pig' = [pig EXCEPT ![i] = q] /\ Steps(pig[i], q)
<1> DEFINE p == pig[i]
<1>1. p \in PigType /\ PigOK(p) /\ p.thr = "loop" /\ p.pending # <<>>
  BY DEF TypeOK, TPauseResume, Executing, At
<1>2. cmd[Head(p.pending)].kind # "SWAP"
  BY DEF TPauseResume, Kind, Work
<1>3. CASE p.state = from
  <2> DEFINE q == Change(p, to)
  <2>1. pig' = [pig EXCEPT ![i] = q]
    BY <1>3, ChangedPig DEF TPauseResume, TypeOK
  <2>2. q \in PigType
    BY <1>1, ChangeType, Literals
  <2>3. /\ q.state = to
        /\ q.thr = "poke" /\ q.ret = "complete" /\ q.work = Head(p.pending)
        /\ q.pending = Tail(p.pending) /\ q.completed = p.completed /\ q.conf = p.conf
    BY <1>1 DEF PigType, Change
  <2> HIDE DEF p, q
  <2>4. Steps(p, q)
    BY <1>1, <1>2, <2>2, <2>3, ChangeSteps DEF AnalyzerStates
  <2> QED
    BY <2>1, <2>4, Zenon DEF p
<1>4. CASE p.state # from
  <2> DEFINE q == Hand(p)
  <2>1. pig' = [pig EXCEPT ![i] = q]
    BY <1>4, Zenon DEF TPauseResume, Handed, Work, Hand, TypeOK
  <2>2. q \in PigType
    BY <1>1, HandType
  <2>3. /\ q.state = p.state /\ q.thr = p.thr /\ q.work = p.work /\ q.conf = p.conf
        /\ q.pending = Tail(p.pending) /\ q.completed = Append(p.completed, Head(p.pending))
    BY <1>1 DEF PigType, Hand
  <2> HIDE DEF p, q
  <2>4. Steps(p, q)
    BY <1>1, <1>2, <2>2, <2>3, HandSteps
  <2> QED
    BY <2>1, <2>4, Zenon DEF p
<1> QED
  BY <1>3, <1>4

(* Whatever a packet thread does, to its pig it is one of these steps.     *)
LEMMA TSteps ==
    ASSUME TypeOK, NEW i \in Pigs, PigOK(pig[i]), Thread(i)
    PROVE  \E q : pig' = [pig EXCEPT ![i] = q] /\ Steps(pig[i], q)
<1>1. CASE TInit(i) \/ TInitFails(i) \/ TPoke(i) \/ TAutoPause(i)
  BY <1>1, TInitSteps, TInitFailsSteps, TPokeSteps, TAutoPauseSteps
<1>2. CASE TAcquire(i) \/ TPacket(i) \/ TIdle(i) \/ TTerm(i) \/ TStopped(i)
  BY <1>2, TAcquireSteps, TPacketSteps, TIdleSteps, TTermSteps, TStoppedSteps
<1>3. CASE TComplete(i) \/ TResponseFails(i) \/ TStart(i) \/ TRun(i) \/ TStop(i)
  BY <1>3, TCompleteSteps, TResponseFailsSteps, TStartSteps, TRunSteps, TStopSteps
<1>4. CASE TPause(i) \/ TResume(i)
  BY <1>4, TPauseResumeSteps, Zenon DEF TPause, TResume
<1>5. CASE TSwap(i) \/ TStats(i)
  BY <1>5, TSwapSteps, TStatsSteps
<1> QED
  BY <1>1, <1>2, <1>3, <1>4, <1>5 DEF Thread

(* What else it does: it may poke, answer a request, or find the           *)
(* connection closed and forget it; it never touches what the main thread  *)
(* counts.                                                                 *)
LEMMA TLeaves ==
    ASSUME TypeOK, NEW i \in Pigs, Thread(i)
    PROVE  /\ m' = m /\ live' = live /\ sigs' = sigs /\ budget' = budget
           /\ poke' \in {poke, Poked(i)}
           /\ auto' \in {auto, "set", "used"}
           /\ cmd' \in [CmdId -> CmdType]
           /\ control' \in [Users -> ControlType]
           /\ \A c \in CmdId :
                 /\ cmd'[c].kind = cmd[c].kind /\ cmd'[c].refs = cmd[c].refs
                 /\ cmd'[c].old = cmd[c].old /\ cmd'[c].new = cmd[c].new
                 /\ \/ cmd'[c].fd = cmd[c].fd
                    \/ /\ cmd'[c].fd = None
                       /\ \A u \in Users : cmd[c].fd = u => control'[u].status = "closed"
           /\ \A u \in Users : control'[u].status \in {control[u].status, "closed"}
<1> USE DEF TypeOK
<1>1. CASE TInit(i) \/ TInitFails(i) \/ TPoke(i) \/ TAutoPause(i)
           \/ TAcquire(i) \/ TPacket(i) \/ TIdle(i) \/ TTerm(i) \/ TStopped(i) \/ TComplete(i)
  BY <1>1 DEF TInit, TInitFails, TPoke, TAutoPause, TAcquire, TPacket, TIdle, TTerm, TStopped,
              TComplete
<1>2. ASSUME Executing(i), Responds(i)
      PROVE  /\ control' \in [Users -> ControlType]
             /\ \A u \in Users : control'[u].status = control[u].status
  BY <1>2, Zenon DEF Responds, ControlType
<1>3. CASE TStart(i) \/ TStop(i) \/ TPause(i) \/ TResume(i) \/ TSwap(i) \/ TStats(i)
  BY <1>3, <1>2, Zenon DEF TStart, TStop, TPause, TResume, TPauseResume, TSwap, TStats
<1>4. Executing(i) => Work(i) \in CmdId
  <2>1. pig[i].pending \in Seq(CmdId)
    BY DEF PigType
  <2> QED
    BY <2>1, Taken DEF Executing, Work
<1>5. CASE TRun(i)
  <2>1. Work(i) \in CmdId /\ cmd' = [cmd EXCEPT ![Work(i)].paused = FALSE]
    BY <1>4, <1>5 DEF TRun
  <2> HIDE DEF TypeOK
  <2>2. cmd \in [CmdId -> CmdType]
    BY DEF TypeOK
  <2>3. /\ cmd' \in [CmdId -> CmdType]
        /\ \A c \in CmdId :
                 /\ cmd'[c].kind = cmd[c].kind /\ cmd'[c].refs = cmd[c].refs
                 /\ cmd'[c].old = cmd[c].old /\ cmd'[c].new = cmd[c].new
                 /\ cmd'[c].fd = cmd[c].fd
    BY <2>1, <2>2, Zenon DEF CmdType
  <2> QED
    BY <1>5, <1>2, <2>3 DEF TRun
<1>6. CASE TResponseFails(i)
  <2> DEFINE w == Work(i)
             u == cmd[w].fd
  <2>1. w \in CmdId /\ cmd' = [cmd EXCEPT ![w].fd = None] /\ u # None
        /\ control' = [control EXCEPT ![u] = [status |-> "closed", queued |-> FALSE]]
    BY <1>4, <1>6 DEF TResponseFails, Attached
  <2>2. cmd \in [CmdId -> CmdType] /\ u \in Users
    BY <2>1 DEF CmdType, NullOr
  <2> HIDE DEF TypeOK, w, u
  <2>3. /\ cmd' \in [CmdId -> CmdType]
        /\ \A c \in CmdId :
                 /\ cmd'[c].kind = cmd[c].kind /\ cmd'[c].refs = cmd[c].refs
                 /\ cmd'[c].old = cmd[c].old /\ cmd'[c].new = cmd[c].new
                 /\ c # w => cmd'[c].fd = cmd[c].fd
        /\ cmd'[w].fd = None
    BY <2>1, <2>2, Names DEF CmdType
  <2>4. control' \in [Users -> ControlType] /\ control'[u].status = "closed"
        /\ \A v \in Users : v # u => control'[v] = control[v]
    BY <2>1, <2>2 DEF TypeOK, ControlType
  <2> QED
    BY <1>6, <2>3, <2>4 DEF TResponseFails, TypeOK, u
<1> QED
  BY <1>1, <1>3, <1>5, <1>6, Zenon DEF Thread

-----------------------------------------------------------------------------
(* A pig nothing happens to.                                               *)
LEMMA KeptSame ==
    ASSUME TypeOK, ThreadsOK, pig' = pig
    PROVE  /\ pig' \in [Pigs -> PigType]
           /\ \A j \in Pigs : Kept(pig[j], pig'[j]) /\ (pig'[j].state = None <=> pig[j].state = None)
  BY DEF TypeOK, ThreadsOK, Kept

(* The ring after a poke was read.                                         *)
LEMMA ReadPoke ==
    ASSUME TypeOK, NEW i, Read(i)
    PROVE  i \in Pigs /\ poke' \in Seq(Pigs) /\ Len(poke') <= MaxPigs /\ m.at = "loop"
  BY DroveConstants DEF TypeOK, Read

(* The steps of the main thread that are Quiet.  The end of main_loop()    *)
(* ...                                                                     *)
LEMMA MEndQuiet ==
    ASSUME TypeOK, ThreadsOK, MEnd
    PROVE  Quiet
<1>1. m' \in MainType
  BY MainNames, Zenon DEF TypeOK, MEnd, MainType
<1>2. /\ m'.job = m.job /\ m'.orphans = m.orphans /\ m'.swine = m.swine /\ m'.setup = m.setup
      /\ m'.sources = m.sources /\ m'.conf = m.conf /\ m'.reloading = m.reloading
      /\ m.at = "loop" /\ m'.at = "done"
  BY DEF TypeOK, MEnd, MainType
<1> QED
  BY <1>1, <1>2, KeptSame DEF Quiet, MEnd, TypeOK, Sending

(* ... a pig found to have ended ...                                       *)
LEMMA MGoneQuiet ==
    ASSUME TypeOK, ThreadsOK, NEW i \in Pigs, MGone(i)
    PROVE  Quiet
<1>1. m' \in MainType
  <2>1. (IF m.pendingPriv > 0 THEN m.pendingPriv - 1 ELSE 0) \in 0 .. MaxPigs
    BY DroveConstants DEF TypeOK, MainType
  <2> QED
    BY <2>1, MainNames, Zenon DEF TypeOK, MGone, MainType
<1>2. /\ m'.job = m.job /\ m'.orphans = m.orphans /\ m'.swine = m.swine /\ m'.setup = m.setup
      /\ m'.sources = m.sources /\ m'.conf = m.conf /\ m'.reloading = m.reloading
      /\ m.at = "loop" /\ m'.at \in {"done", "loop"}
  BY DEF TypeOK, MGone, MainType, Read
<1> QED
  BY <1>1, <1>2, KeptSame, ReadPoke DEF Quiet, MGone, TypeOK, Sending

(* ... an announcement without effect ...                                  *)
LEMMA MIgnoreQuiet ==
    ASSUME TypeOK, ThreadsOK, NEW i \in Pigs, MIgnore(i)
    PROVE  Quiet
  BY KeptSame, ReadPoke DEF Quiet, MIgnore, TypeOK, Sending

(* ... the announcement of STOPPED ...                                     *)
LEMMA MStoppedQuiet ==
    ASSUME TypeOK, ThreadsOK, NEW i \in Pigs, MStopped(i)
    PROVE  Quiet
<1>1. m' \in MainType
  BY MainNames, Zenon DEF TypeOK, MStopped, MainType
<1>2. /\ m'.job = m.job /\ m'.orphans = m.orphans /\ m'.swine = m.swine /\ m'.setup = m.setup
      /\ m'.sources = m.sources /\ m'.conf = m.conf /\ m'.reloading = m.reloading
      /\ m.at = "loop" /\ m'.at = "join" /\ m'.target = i
  BY DEF TypeOK, MStopped, MainType, Read
<1>3. pig'[i].state # None
  BY Names DEF MStopped, AnalyzerStates
<1> QED
  BY <1>1, <1>2, <1>3, KeptSame, ReadPoke DEF Quiet, MStopped, TypeOK, Sending

(* ... the start of the thread of a new analyzer ...                       *)
LEMMA MStartQuiet ==
    ASSUME TypeOK, ThreadsOK, NEW i \in Pigs, MStart(i)
    PROVE  Quiet
<1> DEFINE p == pig[i]
           q == [p EXCEPT !.thr = "init", !.conf = m.conf]
<1>1. pig' = [pig EXCEPT ![i] = q]
  BY Zenon DEF MStart, TypeOK
<1>2. p \in PigType /\ PigOK(p) /\ p.state = "NEW" /\ m.conf \in ConfPair
  BY DEF TypeOK, ThreadsOK, MStart, MainType
<1>3. q \in PigType
  BY <1>2, Literals, Zenon DEF PigType
<1>4. /\ q.state = p.state /\ q.thr = "init" /\ q.work = p.work /\ q.pending = p.pending
      /\ q.completed = p.completed /\ q.conf = m.conf
  BY <1>2 DEF PigType
<1> HIDE DEF p, q
<1>5. p.work = None /\ p.state # None
  BY <1>2, Names DEF PigOK, AnalyzerStates, Places
<1>6. PigOK(q)
  BY <1>2, <1>4, <1>5 DEF PigOK
<1>7. Kept(p, q) /\ (q.state = None <=> p.state = None)
  BY <1>3, <1>4, <1>6 DEF Kept, Held
<1>8. \A j \in Pigs : Kept(pig[j], pig[j])
  BY DEF Kept, TypeOK, ThreadsOK
<1>9. /\ pig' \in [Pigs -> PigType]
      /\ \A j \in Pigs : Kept(pig[j], pig'[j]) /\ (pig'[j].state = None <=> pig[j].state = None)
  BY <1>1, <1>3, <1>7, <1>8 DEF TypeOK, p
<1>10. m' = m /\ m.at = "loop"
  BY DEF MStart, Read
<1> QED
  BY <1>9, <1>10, ReadPoke DEF Quiet, MStart, TypeOK, Sending

(* The analyzer that waits for the others is marked.                       *)
LEMMA Marked ==
    ASSUME TypeOK, ThreadsOK, NEW i \in Pigs, pig' = [pig EXCEPT ![i].awaiting = TRUE]
    PROVE  /\ pig' \in [Pigs -> PigType]
           /\ \A j \in Pigs : Kept(pig[j], pig'[j]) /\ (pig'[j].state = None <=> pig[j].state = None)
<1> DEFINE p == pig[i]
           q == [p EXCEPT !.awaiting = TRUE]
<1>1. pig' = [pig EXCEPT ![i] = q]
  BY Zenon DEF TypeOK
<1>2. p \in PigType /\ PigOK(p)
  BY DEF TypeOK, ThreadsOK
<1>3. q \in PigType
  BY <1>2, Literals, Zenon DEF PigType
<1>4. /\ q.state = p.state /\ q.thr = p.thr /\ q.ret = p.ret /\ q.work = p.work
      /\ q.pending = p.pending /\ q.completed = p.completed /\ q.conf = p.conf
      /\ q.breaking = p.breaking
  BY <1>2 DEF PigType
<1> HIDE DEF p, q
<1>6. PigOK(q)
  BY <1>2, <1>4 DEF PigOK
<1>7. Kept(p, q) /\ (q.state = None <=> p.state = None)
  BY <1>3, <1>4, <1>6 DEF Kept, Held, Inside
<1>8. \A j \in Pigs : Kept(pig[j], pig[j])
  BY DEF Kept, TypeOK, ThreadsOK
<1> QED
  BY <1>1, <1>3, <1>7, <1>8, Zenon DEF TypeOK, p

(* ... waiting for an analyzer to change its state ...                     *)
LEMMA WaitQuiet ==
    ASSUME TypeOK, ThreadsOK, NEW i \in Pigs, Read(i), Wait(i),
           pig' = [pig EXCEPT ![i].awaiting = TRUE], UNCHANGED <<sigs, control, live, auto, budget>>
    PROVE  Quiet
<1>1. m' \in MainType
  <2>1. StillPending(i) \in 0 .. MaxPigs
    BY DroveConstants DEF TypeOK, MainType, StillPending, Wait
  <2> QED
    BY <2>1, MainNames, Zenon DEF TypeOK, Wait, MainType
<1>2. /\ m'.job = m.job /\ m'.orphans = m.orphans /\ m'.swine = m.swine /\ m'.setup = m.setup
      /\ m'.sources = m.sources /\ m'.conf = m.conf /\ m'.reloading = m.reloading
      /\ m.at = "loop" /\ m'.at = "loop"
  BY DEF TypeOK, Wait, MainType, Read
<1> QED
  BY <1>1, <1>2, Marked, ReadPoke, Zenon DEF Quiet, Wait, TypeOK, Sending

(* ... select() in service_check() ...                                     *)
LEMMA SSelectQuiet ==
    ASSUME TypeOK, ThreadsOK, SSelect
    PROVE  Quiet
<1>0. PICK S \in SUBSET Users : m' = [m EXCEPT !.at = "users", !.inputs = S, !.served = FALSE]
  BY Zenon DEF SSelect, Ready
<1>1. m' \in MainType
  BY <1>0, MainNames, Zenon DEF TypeOK, MainType
<1>2. /\ m'.job = m.job /\ m'.orphans = m.orphans /\ m'.swine = m.swine /\ m'.setup = m.setup
      /\ m'.sources = m.sources /\ m'.conf = m.conf /\ m'.reloading = m.reloading
      /\ m.at = "loop" /\ m'.at = "users"
  BY <1>0 DEF TypeOK, SSelect, Serving, MainType
<1> QED
  BY <1>1, <1>2, KeptSame DEF Quiet, SSelect, TypeOK, Sending

(* ... no more sockets to serve ...                                        *)
LEMMA SUsersDoneQuiet ==
    ASSUME TypeOK, ThreadsOK, SUsersDone
    PROVE  Quiet
<1>1. m' \in MainType
  BY MainNames, Zenon DEF TypeOK, SUsersDone, MainType
<1>2. /\ m'.job = m.job /\ m'.orphans = m.orphans /\ m'.swine = m.swine /\ m'.setup = m.setup
      /\ m'.sources = m.sources /\ m'.conf = m.conf /\ m'.reloading = m.reloading
      /\ m.at = "users" /\ m'.at \in {"loop", "signal"}
  BY DEF TypeOK, SUsersDone, MainType
<1> QED
  BY <1>1, <1>2, KeptSame DEF Quiet, SUsersDone, TypeOK, Sending

(* ... a user that asked for nothing ...                                   *)
LEMMA SNoRequestQuiet ==
    ASSUME TypeOK, ThreadsOK, NEW u \in Users, SNoRequest(u)
    PROVE  Quiet
<1>1. m' \in MainType
  <2>1. m.inputs \ {u} \in SUBSET Users
    BY DEF TypeOK, MainType
  <2> QED
    BY <2>1, MainNames, Zenon DEF TypeOK, SNoRequest, MainType
<1>2. /\ m'.job = m.job /\ m'.orphans = m.orphans /\ m'.swine = m.swine /\ m'.setup = m.setup
      /\ m'.sources = m.sources /\ m'.conf = m.conf /\ m'.reloading = m.reloading
      /\ m.at = "users" /\ m'.at = "users"
  BY DEF TypeOK, SNoRequest, MainType
<1> QED
  BY <1>1, <1>2, KeptSame DEF Quiet, SNoRequest, TypeOK, Sending

(* ... a new user ...                                                      *)
LEMMA SAcceptQuiet ==
    ASSUME TypeOK, ThreadsOK, NEW u \in Users, SAccept(u)
    PROVE  Quiet
<1>1. /\ control' \in [Users -> ControlType]
      /\ \A v \in Users : control'[v].status = "blocked" => control[v].status = "blocked"
  BY Zenon DEF TypeOK, SAccept, ControlType
<1> QED
  BY <1>1, KeptSame DEF Quiet, SAccept, TypeOK, Sending, ThreadsOK

(* ... and one that left.                                                  *)
LEMMA SHangUpQuiet ==
    ASSUME TypeOK, ThreadsOK, NEW u \in Users, SHangUp(u)
    PROVE  Quiet
<1>1. m' \in MainType
  <2>1. m.inputs \ {u} \in SUBSET Users
    BY DEF TypeOK, MainType
  <2> QED
    BY <2>1, MainNames, Zenon DEF TypeOK, SHangUp, MainType
<1>2. /\ m'.job = m.job /\ m'.orphans = m.orphans /\ m'.swine = m.swine /\ m'.setup = m.setup
      /\ m'.sources = m.sources /\ m'.conf = m.conf /\ m'.reloading = m.reloading
      /\ m.at = "users" /\ m'.at = "users"
  BY DEF TypeOK, SHangUp, MainType
<1>3. /\ control' \in [Users -> ControlType]
      /\ \A v \in Users : control'[v].status = "blocked" => control[v].status = "blocked"
  BY DEF TypeOK, SHangUp, ControlType
<1> QED
  BY <1>1, <1>2, <1>3, KeptSame DEF Quiet, SHangUp, TypeOK, Sending

(* A signal handler is Quiet too: it only notes the signal.                *)
LEMMA SignalQuiet ==
    ASSUME TypeOK, ThreadsOK, NEW s \in m.setup.signals, Signal(s)
    PROVE  Quiet
<1>1. m.setup \in Setup
  BY DroveConstants DEF TypeOK, MainType
<1>2. s \in Requests \cup {"int"} /\ m.setup.requests \in Nat
  BY <1>1 DEF Setup
<1>3. sigs' \in Seq(Requests \cup {"int"}) /\ Len(sigs') <= SigRingCapacity
  BY <1>2 DEF TypeOK, Signal, SigRingCapacity
<1>4. budget' \in 0 .. m.setup.requests
  BY <1>2 DEF TypeOK, Signal
<1> QED
  BY <1>3, <1>4, KeptSame DEF Quiet, Signal, TypeOK, Sending, ThreadsOK

(* A signal that is dropped, or that the program does not survive.         *)
LEMMA NoSignalQuiet ==
    ASSUME TypeOK, ThreadsOK, SSignal, NEW a \in {"reap", "crashed"}, m' = [m EXCEPT !.at = a],
           UNCHANGED <<cmd, live>>
    PROVE  Quiet
<1>1. m' \in MainType
  BY MainNames, Zenon DEF TypeOK, MainType
<1>2. /\ m'.job = m.job /\ m'.orphans = m.orphans /\ m'.swine = m.swine /\ m'.setup = m.setup
      /\ m'.sources = m.sources /\ m'.conf = m.conf /\ m'.reloading = m.reloading
      /\ m.at \in {"loop", "signal"} /\ m'.at = a
  BY DEF TypeOK, SSignal, Serving, MainType
<1>3. sigs' \in Seq(Requests \cup {"int"}) /\ Len(sigs') <= SigRingCapacity
  BY DEF TypeOK, SSignal, SigRingCapacity
<1> QED
  BY <1>1, <1>2, <1>3, KeptSame DEF Quiet, SSignal, TypeOK, Sending

(* The analyzer that ended was counted in swine.                           *)
LEMMA JoinedSwine ==
    ASSUME PigsCounted, IndInv, m.at = "join"
    PROVE  m.swine > 0 /\ Cardinality(Analyzers \ {m.target}) = m.swine - 1
<1>1. m.target \in Analyzers /\ m.swine = Cardinality(Analyzers)
  BY DEF IndInv, ThreadsOK, Analyzers, TypeOK, MainType
<1>2. Analyzers \in SUBSET Pigs /\ Cardinality(Analyzers) \in 0 .. MaxPigs
  BY DEF Analyzers, PigsCounted
<1>3. Cardinality(Analyzers \ {m.target}) = Cardinality(Analyzers) - 1
  BY <1>1, <1>2, Zenon DEF PigsCounted
<1>4. Cardinality(Analyzers) # 0
  BY <1>1, <1>2 DEF PigsCounted
<1> QED
  BY <1>1, <1>2, <1>3, <1>4
=============================================================================
