---------------------------- MODULE MCPairQueue ----------------------------
(***************************************************************************)
(* Small job lists for TLC.                                                *)
(***************************************************************************)
EXTENDS PairQueue

Session  == [name |-> "A2", reboots |-> TRUE, kind |-> "block"]
Another  == [name |-> "A5", reboots |-> TRUE, kind |-> "block"]
Resume   == [name |-> "resume", reboots |-> FALSE, kind |-> "command"]
Tools    == [name |-> "tools", reboots |-> TRUE, kind |-> "command"]
Held     == [name |-> "held", reboots |-> FALSE, kind |-> "wait"]

OneSession == {<<Session>>}
TwoSessions == {<<Session, Another>>}
\* One job of each kind.
ShortLists == {<<Session>>, <<Tools>>, <<Held>>}

\* These, and two jobs on one boot.
ShortAndResume == ShortLists \cup {<<Tools, Resume>>}

\* A session or a command on a boot of its own, then a command on the same boot.
ThenResume == {<<Session, Resume>>, <<Tools, Resume>>}

\* These, two sessions on two boots, and a list put on the pair in the middle of
\* a session.
AllLists == ThenResume \cup TwoSessions \cup {<<Held, Session>>}

MoreWork == {Resume}
Nothing == {}

=============================================================================
