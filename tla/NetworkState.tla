---------------------------- MODULE NetworkState ----------------------------
(***************************************************************************)
(* The value a host's Network actor keeps in its field `state`             *)
(* (src/src/network/state.rs): the membership status with its timeline,    *)
(* and the sets of connected and of isolated nodes.  The module has no     *)
(* variables: its operators are the methods of NetworkState, as functions  *)
(* from the state before a call to the state after it.  Where a plausible  *)
(* slip in a method is kept beside it, it precedes the method and differs  *)
(* from it by that slip: properties are tried against it.                  *)
(***************************************************************************)
EXTENDS Naturals, Sequences, FiniteSets

Statuses ==
  {"Joining", "WeaklyUp", "Up", "Leaving", "Exiting", "Down", "Removed"}

(* One entry of the timeline; `exit` says whether its exit time is set.    *)
StatusEntry == [status : Statuses, exit : {"None", "Some"}]

(* A NetworkState over the node identifiers in Ids.  Its timeline always   *)
(* has an entry.                                                           *)
NetworkStates(Ids) ==
  [status : Statuses, log : Seq(StatusEntry) \ {<<>>},
   connected : SUBSET Ids, isolated : SUBSET Ids]

DefaultState ==
  [status    |-> "Joining",
   log       |-> <<[status |-> "Joining", exit |-> "None"]>>,
   connected |-> {},
   isolated  |-> {}]

(* check_next_status: the transitions that are not an error.               *)
NextStatusNeverLeaving(now, next) ==
  <<now, next>> \in {<<"Joining", "WeaklyUp">>, <<"Joining", "Up">>, <<"WeaklyUp", "Up">>}

NextStatusAllowed(now, next) ==
  \/ now # "Removed" /\ next = "Down"
  \/ <<now, next>> \in
       {<<"Joining", "WeaklyUp">>, <<"Joining", "Up">>, <<"WeaklyUp", "Up">>,
        <<"Up", "Leaving">>, <<"Leaving", "Exiting">>, <<"Down", "Removed">>,
        <<"Exiting", "Removed">>}

(* advance closes the last entry of the timeline and opens the next one.   *)
(* The code panics before it changes anything when the transition is not   *)
(* allowed; the caller models that panic.                                  *)
Advance(s, next) ==
  [s EXCEPT !.status = next,
            !.log = Append([@ EXCEPT ![Len(@)].exit = "Some"],
                           [status |-> next, exit |-> "None"])]

IsolateStayingConnected(s, id) == [s EXCEPT !.isolated = @ \cup {id}]

IsolateNode(s, id) ==
  IF id \in s.isolated
    THEN s
    ELSE [s EXCEPT !.isolated = @ \cup {id}, !.connected = @ \ {id}]

(* restore_node only restores what was isolated: a node that never was     *)
(* isolated does not become connected.                                     *)
RestoreNode(s, id) ==
  IF id \in s.isolated
    THEN [s EXCEPT !.connected = @ \cup {id}, !.isolated = @ \ {id}]
    ELSE s

(***************************************************************************)
(* What Network::advance_state_on_raft_status makes of a metrics report of *)
(* the Raft actor (src/src/network.rs:507): the status it moves to, which  *)
(* is the present one when the report asks for no change.                  *)
(***************************************************************************)
StatusUpOnAnyReport(now, raftState) ==
  CASE now \in {"Joining", "WeaklyUp"} -> "Up"
    [] now = "Up" /\ raftState = "NonVoter" -> "Leaving"
    [] OTHER -> now

StatusOnReport(now, raftState) ==
  CASE now \in {"Joining", "WeaklyUp"} /\ raftState # "NonVoter" -> "Up"
    [] now = "Down" /\ raftState = "NonVoter" -> "Joining"
    [] now = "Up" /\ raftState = "NonVoter" -> "Leaving"
    [] OTHER -> now
=============================================================================
