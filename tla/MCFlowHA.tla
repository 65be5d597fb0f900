------------------------------ MODULE MCFlowHA ------------------------------
(***************************************************************************)
(* FlowHA for TLC: the flows its run chooses from.                         *)
(***************************************************************************)
EXTENDS FlowHA, TLC

\* A UDP flow in Flow objects not used before, which rules, also stateless ones,
\* block; one whose service is found or which the binder blocks; one in used
\* objects, with and without room in the cache, and a receive ring that can
\* overflow; a media flow of SIP, which reputation allows or a reset leaves open; a
\* TCP flow that ends; one that the binder or an inspector allows.
MCSetups == {
    [proto |-> "udp", objects |-> {"fresh"}, sent |-> 2, capacity |-> 2,
     marks |-> {}, binds |-> {"inspect"},
     verdicts |-> {"pass", "block"}, stateless |-> TRUE, media |-> FALSE],
    [proto |-> "udp", objects |-> {"fresh"}, sent |-> 1, capacity |-> 1,
     marks |-> {"svc"}, binds |-> {"inspect", "block"},
     verdicts |-> {"pass"}, stateless |-> FALSE, media |-> FALSE],
    [proto |-> "udp", objects |-> {"recycled", "pruned"}, sent |-> 2, capacity |-> 1,
     marks |-> {}, binds |-> {"inspect", "expected"},
     verdicts |-> {"pass", "reset"}, stateless |-> FALSE, media |-> FALSE],
    [proto |-> "udp", objects |-> {"fresh"}, sent |-> 1, capacity |-> 1,
     marks |-> {}, binds |-> {"inspect"},
     verdicts |-> {"pass", "allow", "reject"}, stateless |-> FALSE, media |-> TRUE],
    [proto |-> "tcp", objects |-> {"recycled"}, sent |-> 2, capacity |-> 2,
     marks |-> {"est"}, binds |-> {"inspect"},
     verdicts |-> {"pass", "block", "rst", "closed"}, stateless |-> FALSE, media |-> FALSE],
    [proto |-> "tcp", objects |-> {"recycled"}, sent |-> 1, capacity |-> 1,
     marks |-> {}, binds |-> {"inspect", "allow", "reset"},
     verdicts |-> {"pass", "drop", "block", "ignore"}, stateless |-> FALSE, media |-> FALSE]}

PeerSymmetry == Permutations(Peers)
=============================================================================
