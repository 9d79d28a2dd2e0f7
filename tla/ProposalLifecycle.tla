-------------------------- MODULE ProposalLifecycle --------------------------
(***************************************************************************)
(* What the governance module promises of a proposal (spec 4.2), without  *)
(* roles, quorums or the actions a proposal applies:                       *)
(*  - ids are handed out in order, from 1, and never reused;              *)
(*  - a proposal opens Active with its content, which never changes;       *)
(*  - while it is Active every account votes on it at most once, and that *)
(*    vote adds one to the tally of its option;                            *)
(*  - the vote that decides it closes it: Yes as Passed, No as Rejected,   *)
(*    Abstain as Cancelled; the record of who voted is dropped and the     *)
(*    proposal never changes again.                                        *)
(***************************************************************************)
EXTENDS Naturals

CONSTANTS
    Addr,       \* accounts
    Ids,        \* proposal ids, 1..N
    Contents,   \* what a proposal may propose
    NoContent,  \* the content read for an id never handed out
    Options     \* "VoteYes", "VoteNo", "VoteAbstain"

VARIABLES
    opened,   \* ids handed out so far
    status,   \* id -> "absent", "Active" or the outcome
    content,  \* id -> what it proposes
    tally,    \* id -> option -> number of votes
    voters    \* id -> accounts that voted while it is Active

vars == <<opened, status, content, tally, voters>>

Outcome(o) ==
    CASE o = "VoteYes" -> "Passed"
      [] o = "VoteNo" -> "Rejected"
      [] o = "VoteAbstain" -> "Cancelled"

Init ==
    /\ opened = 0
    /\ status = [i \in Ids |-> "absent"]
    /\ content = [i \in Ids |-> NoContent]
    /\ tally = [i \in Ids |-> [o \in Options |-> 0]]
    /\ voters = [i \in Ids |-> {}]

\* the next id is handed out to a new Active proposal
Open(c) ==
    /\ opened + 1 \in Ids
    /\ opened' = opened + 1
    /\ status' = [status EXCEPT ![opened + 1] = "Active"]
    /\ content' = [content EXCEPT ![opened + 1] = c]
    /\ UNCHANGED <<tally, voters>>

\* a first vote of account a on an Active proposal
CanVote(i, a) == status[i] = "Active" /\ a \notin voters[i]

Counted(i, o) == [tally EXCEPT ![i][o] = @ + 1]

\* the vote is recorded and the proposal stays Active
Cast(i, a, o) ==
    /\ CanVote(i, a)
    /\ tally' = Counted(i, o)
    /\ voters' = [voters EXCEPT ![i] = @ \cup {a}]
    /\ UNCHANGED <<opened, status, content>>

\* the vote is counted and decides the proposal by its option
Decide(i, a, o) ==
    /\ CanVote(i, a)
    /\ tally' = Counted(i, o)
    /\ status' = [status EXCEPT ![i] = Outcome(o)]
    /\ voters' = [voters EXCEPT ![i] = {}]
    /\ UNCHANGED <<opened, content>>

Next ==
    \/ \E c \in Contents : Open(c)
    \/ \E i \in Ids, a \in Addr, o \in Options : Cast(i, a, o) \/ Decide(i, a, o)

Spec == Init /\ [][Next]_vars

=============================================================================
