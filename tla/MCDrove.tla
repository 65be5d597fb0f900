------------------------------ MODULE MCDrove ------------------------------
(***************************************************************************)
(* Drove for TLC: the set-ups its runs choose from.                        *)
(***************************************************************************)
EXTENDS Drove

\* A program that processes live traffic and that nobody disturbs.
Live == [readMode |-> FALSE, sources |-> 0, changePrivileges |-> FALSE, unprivStart |-> FALSE,
         daqFaults |-> FALSE, startPaused |-> FALSE, pauseAfter |-> FALSE,
         writeFaults |-> FALSE, shell |-> {}, signals |-> {}, requests |-> 0]

\* One that reads n files.
Files(n) == [Live EXCEPT !.readMode = TRUE, !.sources = n]

\* Two threads: three files with a failing DAQ, and privileges to drop before it
\* starts; a failing DAQ, started paused, and privileges to drop after it started;
\* the same without failures, and a reload at any time; started paused, with a
\* reload or an interrupt at any time.
Threads == {
    [Files(3) EXCEPT !.changePrivileges = TRUE, !.unprivStart = TRUE, !.daqFaults = TRUE],
    [Live EXCEPT !.changePrivileges = TRUE, !.daqFaults = TRUE, !.startPaused = TRUE],
    [Live EXCEPT !.changePrivileges = TRUE, !.signals = {"reload_config"}, !.requests = 1],
    [Live EXCEPT !.startPaused = TRUE, !.changePrivileges = TRUE, !.unprivStart = TRUE,
                 !.signals = {"int", "reload_config"}, !.requests = 1]}

\* One file and a user: a failing connection; requests in any order; and
\* --pause-after-n with the signal for the host table.
Shells == {
    [Files(1) EXCEPT !.writeFaults = TRUE, !.shell = {"stats"}, !.signals = {"int"},
                     !.requests = 2],
    [Files(1) EXCEPT !.shell = {"reload_config", "pause", "resume", "stats"},
                     !.signals = {"quit"}, !.requests = 2],
    [Files(1) EXCEPT !.pauseAfter = TRUE, !.shell = {"reload_hosts", "reload_policy", "resume"},
                     !.signals = {"reload_hosts"}, !.requests = 2]}

\* Both.
Everyday == Threads \cup Shells

\* One thread, which ends by itself or is told to.
Endings == {[Files(2) EXCEPT !.signals = {"reload_config", "quit", "int"}, !.requests = 2],
            [Live EXCEPT !.startPaused = TRUE, !.signals = {"quit", "int"}, !.requests = 2]}

\* What the violated properties need.
TwoFiles == {Files(2)}
FailingUser == {[Live EXCEPT !.writeFaults = TRUE, !.shell = {"reload_config"}, !.requests = 1]}
=============================================================================
