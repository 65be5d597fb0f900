-------------------------------- MODULE AcGpu --------------------------------
(***************************************************************************)
(* The ac_gpu search engine (search_engines/acsmx3.cc, ac_gpu.cc and the   *)
(* kernel ac_gpu.cl): patterns are added, compiled into an automaton, and  *)
(* texts are collected in a buffer that the kernel searches when it is     *)
(* full or when the engine is deleted.  One engine belongs to one          *)
(* configuration and serves every packet thread.                           *)
(***************************************************************************)
EXTENDS Integers, Sequences, FiniteSets, SequencesExt, FiniteSetsExt

CONSTANTS
    Bytes,          \* the alphabet
    Upper,          \* xlatcase
    Words,          \* the patterns that may be added
    Texts,          \* the texts that may be searched
    Threads,        \* the packet threads
    BufferSize,     \* PACKET_BUFFER_SIZE
    MaxPatterns,    \* bound: patterns added
    MaxText,        \* bound: the length of the texts the automaton is compared on
    MaxSearches     \* bound: texts searched

ASSUME AcGpuConstants ==
    /\ Upper \in [Bytes -> Bytes]
    /\ \A w \in Words : w \in Seq(Bytes) /\ w # <<>>
    /\ \A t \in Texts : t \in Seq(Bytes)
    /\ BufferSize \in Nat \ {0} /\ MaxPatterns \in Nat /\ MaxText \in Nat /\ MaxSearches \in Nat

VARIABLES
    phase,      \* adding, states, nfa, dfa, compiled, ready, freed
    patterns,   \* acsmPatterns, the newest first: [id, patrn]
    refs,       \* udata->ref_count, by pattern
    table,      \* acsmStateTable
    numStates,  \* acsmNumStates
    todo,       \* what the loop of the present phase has still to do
    buffer,     \* packet_buffer, packet_length_buffer and packet_buffer_index
    found,      \* match_instances and match_packets
    thr,        \* the threads in acsm3Search()
    asked       \* what was searched so far: matches and texts with a match

vars == <<phase, patterns, refs, table, numStates, todo, buffer, found, thr, asked>>

Fail == -1          \* ACSM3_FAIL_STATE
Slots == 0 .. BufferSize - 1
Ids == 1 .. MaxPatterns
Idle == [at |-> "idle", text |-> <<>>, reg |-> 0]

\* ConvertCaseEx()
Converted(s) == [i \in DOMAIN s |-> Upper[s[i]]]

States == DOMAIN table
NewState == [next |-> [c \in Bytes |-> Fail], fail |-> 0, list |-> <<>>]

Init ==
    /\ phase = "adding"
    /\ patterns = <<>>
    /\ refs = [p \in Ids |-> 0]
    /\ table = <<>>
    /\ numStates = 0
    /\ todo = <<>>
    /\ buffer = [bytes |-> [i \in Slots |-> <<>>], len |-> [i \in Slots |-> 0], index |-> 0]
    /\ found = [instances |-> 0, packets |-> 0]
    /\ thr = [t \in Threads |-> Idle]
    /\ asked = [instances |-> 0, packets |-> 0, searches |-> 0]
-----------------------------------------------------------------------------
\* acsm3AddPattern()
AddPattern(w) ==
    /\ phase = "adding" /\ Len(patterns) < MaxPatterns
    /\ LET id == Len(patterns) + 1 IN
          /\ patterns' = <<[id |-> id, patrn |-> Converted(w)]>> \o patterns
          /\ refs' = [refs EXCEPT ![id] = 1]
    /\ UNCHANGED <<phase, table, numStates, todo, buffer, found, thr, asked>>

Lengths == MapThenSumSet(LAMBDA i : Len(patterns[i].patrn), DOMAIN patterns)

\* Mutant of MaxStates: the root is not counted.
MaxStatesRootless == Lengths

MaxStates == Lengths + 1

\* _acsmCompile(): the table is allocated, with no transitions.
Compile ==
    /\ phase = "adding" /\ patterns # <<>>
    /\ phase' = "states"
    /\ table' = [s \in 0 .. MaxStates - 1 |-> NewState]
    /\ numStates' = 0
    /\ todo' = patterns
    /\ UNCHANGED <<patterns, refs, buffer, found, thr, asked>>

\* AddPatternStates(): follow the states there are, add one for each further byte.
AddPatternStates ==
    /\ phase = "states" /\ todo # <<>>
    /\ LET w == Head(todo).patrn
           n == Len(w)
           walk[k \in 0 .. n] ==
               IF k = 0 THEN 0 ELSE IF walk[k - 1] = Fail THEN Fail ELSE table[walk[k - 1]].next[w[k]]
           matched == Max({k \in 0 .. n : walk[k] # Fail})
           Node(k) == IF k <= matched THEN walk[k] ELSE numStates + k - matched
           Added(s, c) == {k \in matched + 1 .. n : Node(k - 1) = s /\ w[k] = c}
       IN
       /\ table' = [s \in States |->
             [table[s] EXCEPT
                !.next = [c \in Bytes |-> IF Added(s, c) = {} THEN @[c] ELSE Node(Max(Added(s, c)))],
                !.list = IF s = Node(n) THEN <<Head(todo).id>> \o @ ELSE @]]
       /\ numStates' = numStates + n - matched
    /\ todo' = Tail(todo)
    /\ UNCHANGED <<phase, patterns, refs, buffer, found, thr, asked>>

\* A state's successors in the order of the bytes; the order does not matter.
Successors(next) == SetToSeq({next[c] : c \in Bytes} \ {0, Fail})

\* The root's missing transitions lead back to it, and Build_NFA() begins.
CloseRoot ==
    /\ phase = "states" /\ todo = <<>>
    /\ phase' = "nfa"
    /\ table' = [table EXCEPT ![0].next = [c \in Bytes |-> IF @[c] = Fail THEN 0 ELSE @[c]]]
    /\ todo' = Successors(table[0].next)
    /\ UNCHANGED <<patterns, refs, numStates, buffer, found, thr, asked>>

\* Where the failure links from state fs lead on byte c.
Follow(fs, c) ==
    LET walk[s \in States] == IF table[s].next[c] # Fail THEN table[s].next[c]
                              ELSE walk[table[s].fail]
    IN  walk[fs]

Child(r, c) == table[r].next[c]
Parent(r, s) == \E c \in Bytes : Child(r, c) = s
FailOf(r, s) == Follow(table[r].fail, CHOOSE c \in Bytes : Child(r, c) = s)

Copies(r, p) ==         \* CopyMatchListEntry() for pattern p
    MapThenSumSet(LAMBDA s : Cardinality({i \in DOMAIN table[FailOf(r, s)].list :
                                             table[FailOf(r, s)].list[i] = p}),
                  {s \in States : Parent(r, s)})

\* Mutant of NfaRefs: the copied entries are not counted.
NfaRefsUncounted(r) == refs

NfaRefs(r) == [p \in Ids |-> refs[p] + Copies(r, p)]

\* Build_NFA() for state r: the failure states of its successors, and the patterns
\* of those inserted one by one at the front.
BuildNfa ==
    /\ phase = "nfa" /\ todo # <<>>
    /\ LET r == Head(todo) IN
       /\ table' = [s \in States |->
             IF Parent(r, s)
             THEN [table[s] EXCEPT !.fail = FailOf(r, s),
                                   !.list = Reverse(table[FailOf(r, s)].list) \o @]
             ELSE table[s]]
       /\ refs' = NfaRefs(r)
       /\ todo' = Tail(todo) \o Successors(table[r].next)
    /\ UNCHANGED <<phase, patterns, numStates, buffer, found, thr, asked>>

StartDfa ==
    /\ phase = "nfa" /\ todo = <<>>
    /\ phase' = "dfa"
    /\ todo' = Successors(table[0].next)
    /\ UNCHANGED <<patterns, refs, table, numStates, buffer, found, thr, asked>>

\* Mutant of Borrowed: the root's transition instead of the failure state's.
BorrowedFromRoot(r, c) == table[0].next[c]

Borrowed(r, c) == table[table[r].fail].next[c]

\* Convert_NFA_To_DFA() for state r: a missing transition is the failure state's.
ConvertToDfa ==
    /\ phase = "dfa" /\ todo # <<>>
    /\ LET r == Head(todo) IN
       /\ table' = [table EXCEPT ![r].next =
                        [c \in Bytes |-> IF @[c] = Fail THEN Borrowed(r, c) ELSE @[c]]]
       /\ todo' = Tail(todo) \o Successors(table[r].next)
    /\ UNCHANGED <<phase, patterns, refs, numStates, buffer, found, thr, asked>>

Compiled ==
    /\ phase = "dfa" /\ todo = <<>>
    /\ phase' = "compiled"
    /\ UNCHANGED <<patterns, refs, table, numStates, todo, buffer, found, thr, asked>>

\* acsm3Compile() copies the table to the device, where the kernel has a declaration
\* of its own for it.  The two lay out a state alike, in 1040 bytes, when pointers
\* have four bytes on the host and eight on the device, as the paddings of acsmx3.h
\* intend; the model takes this for granted.
Upload ==
    /\ phase = "compiled"
    /\ phase' = "ready"
    /\ UNCHANGED <<patterns, refs, table, numStates, todo, buffer, found, thr, asked>>
-----------------------------------------------------------------------------
\* What a search for the patterns comes to: where a pattern ends in the text,
\* whatever the case of either.
EndsAt(s, k) == \E i \in DOMAIN patterns : IsSuffix(patterns[i].patrn, SubSeq(s, 1, k))
Ends(s) == Cardinality({k \in 1 .. Len(s) : EndsAt(s, k)})

\* acsm3Search() by thread t: the text goes where packet_buffer_index says ...
Overlay(new, old) == new \o SubSeq(old, Len(new) + 1, Len(old))

SearchCopy(t, text) ==
    /\ phase = "ready" /\ thr[t].at = "idle" /\ asked.searches < MaxSearches
    /\ LET s == Converted(text) IN
          /\ thr' = [thr EXCEPT ![t] = [at |-> "length", text |-> s, reg |-> 0]]
          /\ buffer' = IF buffer.index \in Slots
                       THEN [buffer EXCEPT !.bytes[buffer.index] = Overlay(s, @)] ELSE buffer
          /\ asked' = [instances |-> asked.instances + Ends(s),
                       packets |-> asked.packets + (IF Ends(s) > 0 THEN 1 ELSE 0),
                       searches |-> asked.searches + 1]
    /\ UNCHANGED <<phase, patterns, refs, table, numStates, todo, found>>

SearchLength(t) ==      \* ... and its length too ...
    /\ thr[t].at = "length"
    /\ buffer' = IF buffer.index \in Slots
                 THEN [buffer EXCEPT !.len[buffer.index] = Len(thr[t].text)] ELSE buffer
    /\ thr' = [thr EXCEPT ![t].at = "load"]
    /\ UNCHANGED <<phase, patterns, refs, table, numStates, todo, found, asked>>

SearchLoad(t) ==        \* ... packet_buffer_index++, a load ...
    /\ thr[t].at = "load"
    /\ thr' = [thr EXCEPT ![t].at = "store", ![t].reg = buffer.index]
    /\ UNCHANGED <<phase, patterns, refs, table, numStates, todo, buffer, found, asked>>

SearchStore(t) ==       \* ... and a store ...
    /\ thr[t].at = "store"
    /\ buffer' = [buffer EXCEPT !.index = thr[t].reg + 1]
    /\ thr' = [thr EXCEPT ![t].at = "check"]
    /\ UNCHANGED <<phase, patterns, refs, table, numStates, todo, found, asked>>

\* The text in slot i, as far as it was ever written.
Packet(i) == SubSeq(buffer.bytes[i], 1, Min({buffer.len[i], Len(buffer.bytes[i])}))

\* The kernel, one work-item for each slot, follows the table over the slot's text.
Visited(s) ==
    LET run[k \in 0 .. Len(s)] == IF k = 0 THEN 0 ELSE table[run[k - 1]].next[s[k]]
    IN  run
Nfound(i) ==
    Cardinality({k \in 1 .. Len(Packet(i)) : table[Visited(Packet(i))[k]].list # <<>>})

\* Mutant of Emptied: the packet lengths are not cleared.
EmptiedIndex == [buffer EXCEPT !.index = 0]

Emptied == [buffer EXCEPT !.index = 0, !.len = [i \in Slots |-> 0]]

\* cl_dispatch()
Dispatch ==
    /\ found' = [instances |-> found.instances + MapThenSumSet(Nfound, Slots),
                 packets |-> found.packets + Cardinality({i \in Slots : Nfound(i) > 0})]
    /\ buffer' = Emptied

SearchDone(t) ==        \* ... and a full buffer is dispatched
    /\ thr[t].at = "check"
    /\ IF buffer.index = BufferSize THEN Dispatch ELSE UNCHANGED <<buffer, found>>
    /\ thr' = [thr EXCEPT ![t] = Idle]
    /\ UNCHANGED <<phase, patterns, refs, table, numStates, todo, asked>>

\* acsm3Free(), once no thread uses the configuration: what is left in the buffer
\* is searched, and every entry of a match list gives up its pattern's user data.
\* An engine that was not compiled, as in test mode, has no such entries.
Entries(p) == MapThenSumSet(LAMBDA s : Cardinality({i \in DOMAIN table[s].list :
                                                       table[s].list[i] = p}), States)
Free ==
    /\ phase \in {"adding", "ready"}
    /\ \A t \in Threads : thr[t].at = "idle"
    /\ phase' = "freed"
    /\ IF buffer.index > 0 THEN Dispatch ELSE UNCHANGED <<buffer, found>>
    /\ refs' = [p \in Ids |-> refs[p] - Entries(p)]
    /\ UNCHANGED <<patterns, table, numStates, todo, thr, asked>>

Finished == phase = "freed" /\ UNCHANGED vars

Next ==
    \/ \E w \in Words : AddPattern(w)
    \/ Compile \/ AddPatternStates \/ CloseRoot \/ BuildNfa \/ StartDfa \/ ConvertToDfa
    \/ Compiled \/ Upload
    \/ \E t \in Threads : \/ \E text \in Texts : SearchCopy(t, text)
                          \/ SearchLength(t) \/ SearchLoad(t) \/ SearchStore(t) \/ SearchDone(t)
    \/ Free
    \/ Finished

Spec == Init /\ [][Next]_vars
-----------------------------------------------------------------------------
\* The type invariant; the states that are used fit in the table.
TypeOK ==
    /\ phase \in {"adding", "states", "nfa", "dfa", "compiled", "ready", "freed"}
    /\ \A i \in DOMAIN patterns : patterns[i].id \in Ids /\ patterns[i].patrn \in Seq(Bytes)
    /\ table # <<>> => numStates \in States
    /\ \A s \in States : /\ \A c \in Bytes : table[s].next[c] \in States \cup {Fail}
                         /\ table[s].fail \in States
                         /\ ToSet(table[s].list) \subseteq Ids
    /\ buffer.index \in 0 .. BufferSize
    /\ \A i \in Slots : buffer.len[i] \in 0 .. Len(buffer.bytes[i])
    /\ \A t \in Threads : thr[t].at \in {"idle", "length", "load", "store", "check"}

\* After compilation the automaton knows, after every text, exactly the patterns
\* that end there, each once: trie, failure links, merged lists and borrowed
\* transitions together do what the definition of a match says (acsmx3.cc 101-227).
AutomatonExact ==
    phase = "compiled" => \A s \in SeqOf({Upper[c] : c \in Bytes}, MaxText) :
        LET l == table[Visited(s)[Len(s)]].list IN
        /\ IsInjective(l)
        /\ ToSet(l) = {patterns[i].id : i \in {j \in DOMAIN patterns :
                                                    IsSuffix(patterns[j].patrn, s)}}

\* With one packet thread every text searched is counted once, in the batch it was
\* sent with or with the texts left at the end, and no stale text is counted again
\* (acsmx3.cc 473-550).  Two threads would share packet_buffer_index without a lock.
Waiting == [instances |-> MapThenSumSet(LAMBDA i : Ends(Packet(i)), Slots),
            packets |-> Cardinality({i \in Slots : Ends(Packet(i)) > 0})]
SearchedOnce ==
    Cardinality(Threads) = 1 /\ (\A t \in Threads : thr[t].at = "idle") =>
        /\ found.instances + Waiting.instances = asked.instances
        /\ found.packets + Waiting.packets = asked.packets
        /\ phase = "freed" => Waiting.instances = 0

\* The user data of a pattern is counted once for each match list entry that
\* refers to it, so that deleting an engine that was compiled frees it exactly once
\* (acsmx3.cc 70-98, 555-602).
UserDataCounted ==
    /\ phase \in {"dfa", "compiled", "ready"} =>
           \A i \in DOMAIN patterns : refs[patterns[i].id] = Entries(patterns[i].id)
    /\ phase = "freed" /\ table # <<>> => \A p \in Ids : refs[p] = 0
=============================================================================
