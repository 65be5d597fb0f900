---------------------------- MODULE ExpectQueues ----------------------------
(***************************************************************************)
(* What the cache of expected flows promises (the notes at the top of      *)
(* flow/expect_cache.h): for each key a queue of the flows expected, each  *)
(* with the data it is to get, and the time that is left to all of them.   *)
(* A request goes with the last flow expected unless that has data of the  *)
(* same id, and renews the time; a flow that arrives takes the first of    *)
(* the first key it has that expects flows; what has expired, and nothing  *)
(* else, may be dropped, all of a key at once.                             *)
(***************************************************************************)
EXTENDS Integers, Sequences

CONSTANTS
    Keys,           \* keys of expected flows
    Ids,            \* ids of flow data
    Lookups,        \* the sequences of keys that packets are looked up by
    MaxList,        \* flows expected of a key
    MaxWait         \* seconds a key has after a request

VARIABLES
    queue,          \* the flows expected of each key: the ids of their data
    left,           \* the seconds left to each key, or Expired
    arrived,        \* the keys of the new flow of the last step, if there was one
    given           \* the data it got

vars == <<queue, left, arrived, given>>

Expired == -1

Init ==
    /\ queue = [k \in Keys |-> <<>>]
    /\ left = [k \in Keys |-> Expired]
    /\ arrived = <<>>
    /\ given = <<>>

\* The request goes with the last flow, or is the first of a new one.
Joins(list, id) == list # <<>> /\ \A i \in DOMAIN list[Len(list)] : list[Len(list)][i] # id
Enqueue(list, id) ==
    IF Joins(list, id) THEN [list EXCEPT ![Len(list)] = Append(@, id)]
    ELSE Append(list, <<id>>)

\* The time left, seconds later.
After(dt) == [k \in Keys |-> IF left[k] < dt THEN Expired ELSE left[k] - dt]

\* All that was expected of a key may go once it has expired.
Kept(ks, now) ==
    \A k \in ks : /\ left'[k] = now[k]
                  /\ queue'[k] = queue[k] \/ (now[k] = Expired /\ queue'[k] = <<>>)

Add(k, id) ==
    /\ arrived' = <<>> /\ given' = <<>>
    /\ left'[k] = MaxWait
    /\ queue'[k] = IF left[k] = Expired THEN <<<<id>>>> ELSE Enqueue(queue[k], id)
    /\ Len(queue'[k]) <= MaxList
    /\ Kept(Keys \ {k}, left)

\* A request is refused, or a packet is of a flow that is known already.
Pass(now) == arrived' = <<>> /\ given' = <<>> /\ Kept(Keys, now)

\* The first key of a new flow that expects flows.
Found(keys, i) == queue[keys[i]] # <<>> /\ \A j \in 1..(i - 1) : queue[keys[j]] = <<>>

\* There is none.
Unexpected(now, keys) ==
    /\ arrived' = keys /\ given' = <<>>
    /\ \A i \in DOMAIN keys : queue[keys[i]] = <<>>
    /\ Kept(Keys, now)

\* It has expired, and the keys that follow are not looked at.
Late(now, keys, i) ==
    LET k == keys[i] IN
    /\ arrived' = keys /\ given' = <<>>
    /\ Found(keys, i) /\ now[k] = Expired
    /\ queue'[k] = <<>> /\ left'[k] = Expired
    /\ Kept(Keys \ {k}, now)

\* The new flow takes the first that was expected.
Realize(now, keys, i) ==
    LET k == keys[i] IN
    /\ arrived' = keys
    /\ Found(keys, i) /\ now[k] # Expired
    /\ given' = Head(queue[k]) /\ queue'[k] = Tail(queue[k])
    /\ left'[k] = IF queue'[k] = <<>> THEN Expired ELSE now[k]
    /\ Kept(Keys \ {k}, now)

Next ==
    \/ \E k \in Keys, id \in Ids : Add(k, id)
    \/ \E now \in {After(dt) : dt \in 0..(MaxWait + 1)} :
         \/ Pass(now)
         \/ \E keys \in Lookups :
              \/ Unexpected(now, keys)
              \/ \E i \in DOMAIN keys : Late(now, keys, i) \/ Realize(now, keys, i)

Spec == Init /\ [][Next]_vars
=============================================================================
